----------------------------- MODULE StorageCache -----------------------------
(***************************************************************************)
(* How configuration is kept: the snapshot of config.py, the storage       *)
(* adapter, and the write-back cache of src/src/storage/cache_manager.py   *)
(* over one backend.                                                       *)
(*                                                                         *)
(* Clients are the coroutines that read and write; every operation of the  *)
(* cache holds its lock, which is given up by the same step that ends the  *)
(* operation.  Values are positions in the log of writes.  The expiry of a *)
(* time to live is a step that may happen at any time.                     *)
(***************************************************************************)
EXTENDS Naturals, Sequences, FiniteSets

CONSTANTS
    Names,              \* configuration names
    Clients,            \* coroutines that read and write
    NoSnapshot,         \* the snapshot has no entry
    WholeFileRewrite,   \* the backend truncates before it writes (file storage)
    MaxWrites,          \* bound: writes that take effect
    MaxWriteFailures,   \* bound: write-backs that fail
    MaxLoadFailures,    \* bound: loads that fail
    MaxCrashes          \* bound: crashes

ASSUME StorageAssumption ==
    /\ IsFiniteSet(Clients) /\ Clients \cap {"free", "loop", "stop"} = {}
    /\ NoSnapshot \notin Nat
    /\ WholeFileRewrite \in BOOLEAN
    /\ MaxWrites \in Nat /\ MaxWriteFailures \in Nat
    /\ MaxLoadFailures \in Nat /\ MaxCrashes \in Nat

VARIABLES
    log,        \* the writes in the order they took effect
    cache,      \* _cache
    loaded,     \* _last_cache_time is not 0
    fresh,      \* the time to live of the cache has not passed
    dirty,      \* _cache_dirty
    lock,       \* who holds _cache_lock
    snapshot,   \* _CONFIG_CACHE
    pc,         \* where each client is
    op,         \* its operation
    reply,      \* what it read last
    writer,     \* where the write loop and stop() are
    copy,       \* the copy each of them is writing
    disk,       \* what the backend holds
    torn,       \* the file is truncated
    saved,      \* length of the log when the backend's data was copied
    broken,     \* the last write-back failed
    faults      \* how often each kind of failure has happened

clientVars == <<pc, op, reply>>
cacheVars == <<cache, loaded, fresh, dirty, snapshot>>
diskVars == <<disk, torn, saved>>
vars == <<log, cacheVars, lock, clientVars, writer, copy, diskVars, broken, faults>>

Store == INSTANCE LossyStore

Absent == [n \in Names |-> 0]
Writers == {"loop", "stop"}
NoOp == [kind |-> "none", name |-> CHOOSE n \in Names : TRUE]
IsWrite(o) == o.kind \in {"set", "delete"}
Ops == [kind : {"get", "lookup", "set", "delete"}, name : Names]

NoCopy == [data |-> Absent, len |-> 0]

Init ==
    /\ log = <<>>
    /\ cache = Absent /\ loaded = FALSE /\ fresh = FALSE /\ dirty = FALSE
    /\ lock = "free"
    /\ snapshot = [n \in Names |-> NoSnapshot]
    /\ pc = [c \in Clients |-> "idle"]
    /\ op = [c \in Clients |-> NoOp]
    /\ reply = [c \in Clients |-> 0]
    /\ writer = [loop |-> "pause", stop |-> "off"]
    /\ copy = [w \in Writers |-> NoCopy]
    /\ disk = Absent /\ torn = FALSE /\ saved = 0
    /\ broken = FALSE
    /\ faults = [write |-> 0, load |-> 0, crash |-> 0]

Running == writer["stop"] = "off"

-----------------------------------------------------------------------------
(* Clients *)

\* get_config_value finds the name in the snapshot.
Hit(c, n) ==
    /\ Running /\ pc[c] = "idle"
    /\ snapshot[n] # NoSnapshot
    /\ reply' = [reply EXCEPT ![c] = snapshot[n]]
    /\ UNCHANGED <<log, cacheVars, lock, pc, op, writer, copy, diskVars, broken, faults>>

\* An operation of the adapter begins; "lookup" is get_config_value on a miss.
Call(c, o) ==
    /\ Running /\ pc[c] = "idle"
    /\ o.kind = "lookup" => snapshot[o.name] = NoSnapshot
    /\ IsWrite(o) => Len(log) + Cardinality({d \in Clients : IsWrite(op[d])}) < MaxWrites
    /\ pc' = [pc EXCEPT ![c] = "waiting"]
    /\ op' = [op EXCEPT ![c] = o]
    /\ UNCHANGED <<log, cacheVars, lock, reply, writer, copy, diskVars, broken, faults>>

\* Variant of NeedsLoad: a dirty cache is reloaded too.
NeedsLoadDirty == ~ loaded \/ ~ fresh

\* _ensure_cache_loaded: a dirty cache is not reloaded.
NeedsLoad == ~ loaded \/ (~ fresh /\ ~ dirty)

\* Variant of Apply: the writes leave the snapshot alone.
ApplyKeepsSnapshot(c, base) ==
    LET n == op[c].name
        write(del) ==
            /\ log' = Append(log, [name |-> n, del |-> del])
            /\ cache' = [base EXCEPT ![n] = IF del THEN 0 ELSE Len(log) + 1]
            /\ dirty' = TRUE
            /\ UNCHANGED <<snapshot, reply>>
        read ==
            /\ reply' = [reply EXCEPT ![c] = base[n]]
            /\ snapshot' = IF op[c].kind = "lookup"
                           THEN [snapshot EXCEPT ![n] = base[n]] ELSE snapshot
            /\ cache' = base
            /\ UNCHANGED <<log, dirty>>
        nothing ==
            /\ cache' = base
            /\ UNCHANGED <<log, dirty, reply, snapshot>>
    IN  CASE op[c].kind \in {"get", "lookup"} -> read
          [] op[c].kind = "set" -> write(FALSE)
          [] op[c].kind = "delete" /\ base[n] # 0 -> write(TRUE)
          [] OTHER -> nothing

\* The operation of c on the loaded data base, up to its return: the adapter
\* drops the snapshot of a written name, get_config_value fills it.
Apply(c, base) ==
    LET n == op[c].name
        write(del) ==
            /\ log' = Append(log, [name |-> n, del |-> del])
            /\ cache' = [base EXCEPT ![n] = IF del THEN 0 ELSE Len(log) + 1]
            /\ dirty' = TRUE
            /\ snapshot' = [snapshot EXCEPT ![n] = NoSnapshot]
            /\ UNCHANGED reply
        read ==
            /\ reply' = [reply EXCEPT ![c] = base[n]]
            /\ snapshot' = IF op[c].kind = "lookup"
                           THEN [snapshot EXCEPT ![n] = base[n]] ELSE snapshot
            /\ cache' = base
            /\ UNCHANGED <<log, dirty>>
        nothing ==
            /\ cache' = base
            /\ snapshot' = [snapshot EXCEPT ![n] = NoSnapshot]
            /\ UNCHANGED <<log, dirty, reply>>
    IN  CASE op[c].kind \in {"get", "lookup"} -> read
          [] op[c].kind = "set" -> write(FALSE)
          [] op[c].kind = "delete" /\ base[n] # 0 -> write(TRUE)
          [] OTHER -> nothing

Return(c) ==
    /\ pc' = [pc EXCEPT ![c] = "idle"]
    /\ op' = [op EXCEPT ![c] = NoOp]

\* c gets the lock: the operation runs to its end, or suspends in a load.
Acquire(c) ==
    /\ pc[c] = "waiting" /\ lock = "free"
    /\ IF NeedsLoad
       THEN /\ lock' = c
            /\ pc' = [pc EXCEPT ![c] = "loading"]
            /\ UNCHANGED <<log, cache, dirty, snapshot, reply, op>>
       ELSE /\ Apply(c, cache)
            /\ Return(c)
            /\ UNCHANGED lock
    /\ UNCHANGED <<loaded, fresh, writer, copy, diskVars, broken, faults>>

\* The load ends, and with it the operation.
Load(c, data) ==
    /\ pc[c] = "loading"
    /\ loaded' = TRUE /\ fresh' = TRUE
    /\ Apply(c, data)
    /\ Return(c)
    /\ lock' = "free"
    /\ UNCHANGED <<writer, copy, diskVars, broken>>

\* A truncated file reads as no data.
LoadSucceeds(c) ==
    /\ Load(c, IF torn THEN Absent ELSE disk)
    /\ UNCHANGED faults

\* Variant of LoadFails: the operation ends with the lock held.
LoadFailsLocked(c) ==
    /\ pc[c] = "loading"
    /\ faults.load < MaxLoadFailures
    /\ faults' = [faults EXCEPT !.load = @ + 1]
    /\ Return(c)
    /\ UNCHANGED <<log, cacheVars, lock, reply, writer, copy, diskVars, broken>>

\* An error of the backend reads as no data, too.
LoadFails(c) ==
    /\ faults.load < MaxLoadFailures
    /\ Load(c, Absent)
    /\ faults' = [faults EXCEPT !.load = @ + 1]

\* The times to live pass.
CacheExpires ==
    /\ fresh
    /\ fresh' = FALSE
    /\ UNCHANGED <<log, cache, loaded, dirty, snapshot, lock, clientVars, writer, copy,
                   diskVars, broken, faults>>

SnapshotExpires(n) ==
    /\ snapshot[n] # NoSnapshot
    /\ snapshot' = [snapshot EXCEPT ![n] = NoSnapshot]
    /\ UNCHANGED <<log, cache, loaded, fresh, dirty, lock, clientVars, writer, copy,
                   diskVars, broken, faults>>

-----------------------------------------------------------------------------
(* Write-back *)

\* Variant of Begin: the lock is free again while the backend writes.
BeginUnlocked(w) ==
    /\ lock = "free" /\ dirty
    /\ copy' = [copy EXCEPT ![w] = [data |-> cache, len |-> Len(log)]]
    /\ writer' = [writer EXCEPT ![w] = "writing"]
    /\ UNCHANGED <<log, cacheVars, lock, clientVars, diskVars, broken, faults>>

\* _write_cache under the lock: the data is copied and the backend called.
Begin(w) ==
    /\ lock = "free" /\ dirty
    /\ lock' = w
    /\ copy' = [copy EXCEPT ![w] = [data |-> cache, len |-> Len(log)]]
    /\ writer' = [writer EXCEPT ![w] = "writing"]
    /\ UNCHANGED <<log, cacheVars, clientVars, diskVars, broken, faults>>

\* The write loop wakes up; a loop that shutdown finds at the lock still writes.
LoopWrites == writer["loop"] = "pause" /\ Begin("loop")

\* The file is opened for writing.
Truncate(w) ==
    /\ writer[w] = "writing" /\ WholeFileRewrite
    /\ writer' = [writer EXCEPT ![w] = "truncated"]
    /\ torn' = TRUE
    /\ UNCHANGED <<log, cacheVars, lock, clientVars, copy, disk, saved, broken, faults>>

EndWrite(w) ==
    /\ lock' = "free"
    /\ copy' = [copy EXCEPT ![w] = NoCopy]
    /\ writer' = [writer EXCEPT ![w] = IF w = "loop" THEN "pause" ELSE "closed"]

\* The backend has the data.
WriteSucceeds(w) ==
    /\ writer[w] = IF WholeFileRewrite THEN "truncated" ELSE "writing"
    /\ disk' = copy[w].data /\ saved' = copy[w].len /\ torn' = FALSE
    /\ dirty' = FALSE /\ broken' = FALSE
    /\ EndWrite(w)
    /\ UNCHANGED <<log, cache, loaded, fresh, snapshot, clientVars, faults>>

\* Variant of WriteFails: the exception ends the write loop.
WriteFailsEnds(w) ==
    /\ writer[w] \in {"writing", "truncated"}
    /\ faults.write < MaxWriteFailures
    /\ faults' = [faults EXCEPT !.write = @ + 1]
    /\ broken' = TRUE
    /\ lock' = "free"
    /\ copy' = [copy EXCEPT ![w] = NoCopy]
    /\ writer' = [writer EXCEPT ![w] = IF w = "loop" THEN "off" ELSE "closed"]
    /\ UNCHANGED <<log, cacheVars, clientVars, diskVars>>

\* The backend fails: the cache stays dirty and the loop tries again.
WriteFails(w) ==
    /\ writer[w] \in {"writing", "truncated"}
    /\ faults.write < MaxWriteFailures
    /\ faults' = [faults EXCEPT !.write = @ + 1]
    /\ broken' = TRUE
    /\ EndWrite(w)
    /\ UNCHANGED <<log, cacheVars, clientVars, diskVars>>

-----------------------------------------------------------------------------
(* Shutdown and crash *)

\* stop() is called when the requests have ended.
Stop ==
    /\ Running
    /\ \A c \in Clients : pc[c] = "idle"
    /\ writer' = [writer EXCEPT !["stop"] = "waiting"]
    /\ UNCHANGED <<log, cacheVars, lock, clientVars, copy, diskVars, broken, faults>>

\* The write loop sees the event and ends.
LoopEnds ==
    /\ writer["stop"] = "waiting" /\ writer["loop"] = "pause"
    /\ writer' = [writer EXCEPT !["loop"] = "off"]
    /\ UNCHANGED <<log, cacheVars, lock, clientVars, copy, diskVars, broken, faults>>

\* After five seconds the loop is cancelled in the middle of its write.
LoopCancelled ==
    /\ writer["stop"] = "waiting" /\ writer["loop"] \in {"writing", "truncated"}
    /\ writer' = [writer EXCEPT !["loop"] = "off"]
    /\ copy' = [copy EXCEPT !["loop"] = NoCopy]
    /\ lock' = "free"
    /\ UNCHANGED <<log, cacheVars, clientVars, diskVars, broken, faults>>

\* Variant of Flush: nothing is written after a cancelled loop.
FlushNothing ==
    /\ writer["stop"] = "waiting" /\ writer["loop"] = "off" /\ lock = "free"
    /\ writer' = [writer EXCEPT !["stop"] = "closed"]
    /\ UNCHANGED <<log, cacheVars, lock, clientVars, copy, diskVars, broken, faults>>

\* _flush_cache, once the loop is done.
Flush ==
    /\ writer["stop"] = "waiting" /\ writer["loop"] = "off"
    /\ \/ Begin("stop")
       \/ /\ lock = "free" /\ ~ dirty
          /\ writer' = [writer EXCEPT !["stop"] = "closed"]
          /\ UNCHANGED <<log, cacheVars, lock, clientVars, copy, diskVars, broken, faults>>

\* The process dies and starts again: what was not saved is gone, and all of
\* it is if the file was truncated.
Crash ==
    /\ faults.crash < MaxCrashes
    /\ faults' = [faults EXCEPT !.crash = @ + 1]
    /\ log' = IF torn THEN <<>> ELSE SubSeq(log, 1, saved)
    /\ saved' = IF torn THEN 0 ELSE saved
    /\ disk' = IF torn THEN Absent ELSE disk
    /\ torn' = FALSE
    /\ cache' = Absent /\ loaded' = FALSE /\ fresh' = FALSE /\ dirty' = FALSE
    /\ lock' = "free"
    /\ snapshot' = [n \in Names |-> NoSnapshot]
    /\ pc' = [c \in Clients |-> "idle"]
    /\ op' = [c \in Clients |-> NoOp]
    /\ writer' = [loop |-> "pause", stop |-> "off"]
    /\ copy' = [w \in Writers |-> NoCopy]
    /\ broken' = FALSE
    /\ UNCHANGED reply

ClientStep(c) == Acquire(c) \/ LoadSucceeds(c) \/ LoadFails(c)
WriteStep(w) == Truncate(w) \/ WriteSucceeds(w) \/ WriteFails(w)

Next ==
    \/ \E c \in Clients :
          \/ \E n \in Names : Hit(c, n)
          \/ \E o \in Ops : Call(c, o)
          \/ ClientStep(c)
    \/ CacheExpires
    \/ \E n \in Names : SnapshotExpires(n)
    \/ LoopWrites \/ LoopEnds \/ LoopCancelled
    \/ \E w \in Writers : WriteStep(w)
    \/ Stop \/ Flush \/ Crash

Spec == Init /\ [][Next]_vars

\* The event loop runs every ready coroutine and the backend answers, well or
\* badly.  asyncio.Lock serves its waiters in order, hence SF for Acquire; the
\* lock is never held while the cache is dirty but by a write-back, so WF is
\* enough for the write loop.
Fairness ==
    /\ \A c \in Clients : SF_vars(Acquire(c)) /\ WF_vars(LoadSucceeds(c) \/ LoadFails(c))
    /\ WF_vars(LoopWrites)
    /\ \A w \in Writers : WF_vars(WriteStep(w))
    /\ WF_vars(LoopEnds \/ LoopCancelled)
    /\ WF_vars(Flush)

FairSpec == Spec /\ Fairness

-----------------------------------------------------------------------------
Versions == 0..MaxWrites
Data == [Names -> Versions]

TypeOK ==
    /\ log \in Seq(Store!Entries)
    /\ cache \in Data /\ disk \in Data
    /\ <<loaded, fresh, dirty, torn, broken>> \in BOOLEAN \X BOOLEAN \X BOOLEAN \X BOOLEAN \X BOOLEAN
    /\ lock \in {"free", "loop", "stop"} \cup Clients
    /\ snapshot \in [Names -> Versions \cup {NoSnapshot}]
    /\ pc \in [Clients -> {"idle", "waiting", "loading"}]
    /\ op \in [Clients -> Ops \cup {NoOp}]
    /\ reply \in [Clients -> Versions]
    /\ writer \in [Writers -> {"pause", "writing", "truncated", "off", "waiting", "closed"}]
    /\ copy \in [Writers -> [data : Data, len : Versions]]
    /\ saved \in 0..Len(log)
    /\ faults \in [write : 0..MaxWriteFailures, load : 0..MaxLoadFailures, crash : 0..MaxCrashes]
    /\ \A c \in Clients : lock = c <=> pc[c] = "loading"
    /\ \A w \in Writers : lock = w <=> writer[w] \in {"writing", "truncated"}

\* Reads and writes take effect one at a time and a crash loses the last
\* writes only: snapshot, expiries, reloads, failed write-backs and the lock
\* together behave as one store.
AtomicStore == Store!Spec

\* "写入/失效后立即可见" (tests/test_config_cache.py:1): whatever a read would be
\* answered from, snapshot or cache, holds the value written last.
ReadsSeeWrites ==
    \A n \in Names :
        /\ loaded => cache[n] = Store!Latest(log, n)
        /\ snapshot[n] # NoSnapshot => snapshot[n] = Store!Latest(log, n)

\* Whatever is not marked dirty is in the backend, whole: no write, no
\* failure and no cancelled write-back is forgotten, and a truncated file is
\* always going to be rewritten.
CleanIsSaved ==
    ~ dirty => disk = Store!Contents(log) /\ saved = Len(log) /\ ~ torn

\* A stop that could write leaves nothing behind, even when it had to cancel
\* the loop in the middle of a write.
StopSaves ==
    writer["stop"] = "closed" /\ ~ broken => disk = Store!Contents(log) /\ ~ torn

\* Every operation returns, whatever fails on the way: the lock is always
\* given back.
Answered == \A c \in Clients : pc[c] = "waiting" ~> pc[c] = "idle"

\* What is dirty gets written, however often the backend fails in between,
\* unless the process stops first.
WrittenBack == dirty ~> ~ dirty \/ ~ Running
=============================================================================
