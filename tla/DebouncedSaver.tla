---------------------------- MODULE DebouncedSaver ----------------------------
(***************************************************************************)
(* src/src/core/debounced_saver.py, the mixin by which the rate limiter    *)
(* and the token manager merge frequent changes into one trailing save.    *)
(*                                                                         *)
(* The data is a version number, one more with each change.  Two           *)
(* coroutines may run _flush: the task that _mark_dirty creates, and the   *)
(* shutdown, which calls flush().  A step is what one of them runs between *)
(* two suspensions; the only suspensions are the pause of the window and   *)
(* the call of _do_save, in which the storage takes the data at some point *)
(* and the coroutine resumes later.                                        *)
(***************************************************************************)
EXTENDS Naturals

CONSTANTS
    MaxChanges,     \* bound: how often the data changes
    MaxFailures     \* bound: how many saves fail

ASSUME SaverAssumption == MaxChanges \in Nat /\ MaxFailures \in Nat

VARIABLES
    live,           \* version of the data in memory
    stored,         \* version the storage has taken
    dirty,          \* _dirty
    pc,             \* where the save task and the shutdown are
    taken,          \* version the save in flight was called with
    cancelled,      \* task.cancel() was called and has not been delivered
    failures,       \* number of saves that failed
    failed,         \* the last save failed and none has been scheduled since
    interrupted     \* a cancellation fell into a save

saverVars == <<live, stored, dirty, pc, taken, cancelled, failures, failed, interrupted>>

Savers == {"task", "shutdown"}

\* "idle": no task, or a finished one; before flush() for the shutdown.
\* "pause": created, or asleep in _delayed_save.  "saving": in _do_save,
\* not yet stored.  "taken": stored, not yet resumed.  "closed": flush() done.
States == {"idle", "pause", "saving", "taken", "closed"}

SaverInit ==
    /\ live = 0 /\ stored = 0
    /\ dirty = FALSE
    /\ pc = [p \in Savers |-> "idle"]
    /\ taken = [p \in Savers |-> 0]
    /\ cancelled = FALSE
    /\ failures = 0
    /\ failed = FALSE
    /\ interrupted = FALSE

Running == pc["shutdown"] = "idle"
Done(p) == IF p = "task" THEN "idle" ELSE "closed"

\* The data changes and _mark_dirty is called: one task at a time.
Change ==
    /\ Running
    /\ live < MaxChanges
    /\ live' = live + 1
    /\ dirty' = TRUE
    /\ IF pc["task"] = "idle"
       THEN pc' = [pc EXCEPT !["task"] = "pause"] /\ failed' = FALSE
       ELSE UNCHANGED <<pc, failed>>
    /\ UNCHANGED <<stored, taken, cancelled, failures, interrupted>>

\* Variant of LoopHead: "if" for "while", so one save ends the flush.
LoopHeadOnce(p) ==
    IF dirty /\ pc[p] # "taken"
    THEN /\ dirty' = FALSE
         /\ pc' = [pc EXCEPT ![p] = "saving"]
         /\ taken' = [taken EXCEPT ![p] = live]
    ELSE /\ pc' = [pc EXCEPT ![p] = Done(p)]
         /\ UNCHANGED <<dirty, taken>>

\* The head of the loop in _flush: one more save while there is something to
\* save; the flag is cleared before the save, not after it.
LoopHead(p) ==
    IF dirty
    THEN /\ dirty' = FALSE
         /\ pc' = [pc EXCEPT ![p] = "saving"]
         /\ taken' = [taken EXCEPT ![p] = live]
    ELSE /\ pc' = [pc EXCEPT ![p] = Done(p)]
         /\ UNCHANGED <<dirty, taken>>

\* The pause is over.
Wake ==
    /\ pc["task"] = "pause" /\ ~ cancelled
    /\ LoopHead("task")
    /\ UNCHANGED <<live, stored, cancelled, failures, failed, interrupted>>

Uncancelled(p) == p = "task" => ~ cancelled

\* The storage takes the data: the copy made when the save began (rate
\* limits) or the table as it is now (tokens, handed over by reference).
Store(p) ==
    /\ pc[p] = "saving" /\ Uncancelled(p)
    /\ stored' \in {taken[p], live}
    /\ pc' = [pc EXCEPT ![p] = "taken"]
    /\ UNCHANGED <<live, dirty, taken, cancelled, failures, failed, interrupted>>

\* Variant of Resume: the flag is cleared after the save.
ResumeClears(p) ==
    /\ pc[p] = "taken" /\ Uncancelled(p)
    /\ dirty' = FALSE
    /\ pc' = [pc EXCEPT ![p] = Done(p)]
    /\ failed' = FALSE
    /\ UNCHANGED <<live, stored, taken, cancelled, failures, interrupted>>

\* _do_save returns and the loop goes on.
Resume(p) ==
    /\ pc[p] = "taken" /\ Uncancelled(p)
    /\ LoopHead(p)
    /\ failed' = FALSE
    /\ UNCHANGED <<live, stored, cancelled, failures, interrupted>>

\* Variant of SaveFails: the flag is not restored.
SaveFailsClean(p) ==
    /\ pc[p] = "saving" /\ Uncancelled(p)
    /\ failures < MaxFailures
    /\ failures' = failures + 1
    /\ failed' = TRUE
    /\ pc' = [pc EXCEPT ![p] = Done(p)]
    /\ UNCHANGED <<live, stored, dirty, taken, cancelled, interrupted>>

\* The save raises or returns False: the flag comes back and the loop ends;
\* the next change, or flush(), tries again.
SaveFails(p) ==
    /\ pc[p] = "saving" /\ Uncancelled(p)
    /\ failures < MaxFailures
    /\ failures' = failures + 1
    /\ failed' = TRUE
    /\ dirty' = TRUE
    /\ pc' = [pc EXCEPT ![p] = Done(p)]
    /\ UNCHANGED <<live, stored, taken, cancelled, interrupted>>

\* Variant of Flush: the task runs on.
FlushUncancelled ==
    /\ Running
    /\ LoopHead("shutdown")
    /\ UNCHANGED <<live, stored, cancelled, failures, failed, interrupted>>

\* flush(): cancels the task if it is not done, then runs _flush itself up to
\* its first suspension.  The lifespan calls it when requests have ended.
Flush ==
    /\ Running
    /\ cancelled' = (pc["task"] # "idle")
    /\ LoopHead("shutdown")
    /\ UNCHANGED <<live, stored, failures, failed, interrupted>>

\* The cancellation is delivered: the task ends where it stands.  No handler
\* of _flush catches it, so the flag stays as the save left it.
Cancel ==
    /\ cancelled
    /\ cancelled' = FALSE
    /\ interrupted' = (interrupted \/ pc["task"] = "saving")
    /\ pc' = [pc EXCEPT !["task"] = "idle"]
    /\ UNCHANGED <<live, stored, dirty, taken, failures, failed>>

SaveStep(p) == Store(p) \/ SaveFails(p) \/ Resume(p)

SaverNext ==
    \/ Change
    \/ Wake
    \/ \E p \in Savers : SaveStep(p)
    \/ Flush
    \/ Cancel

SaverSpec == SaverInit /\ [][SaverNext]_saverVars

\* The loop runs every ready coroutine and a save always ends, well or badly.
Fairness ==
    /\ WF_saverVars(Wake)
    /\ WF_saverVars(Cancel)
    /\ \A p \in Savers : WF_saverVars(SaveStep(p))

FairSpec == SaverSpec /\ Fairness

-----------------------------------------------------------------------------
SaverTypeOK ==
    /\ live \in 0..MaxChanges
    /\ stored \in 0..MaxChanges
    /\ dirty \in BOOLEAN
    /\ pc \in [Savers -> States]
    /\ taken \in [Savers -> 0..MaxChanges]
    /\ cancelled \in BOOLEAN
    /\ failures \in 0..MaxFailures
    /\ failed \in BOOLEAN
    /\ interrupted \in BOOLEAN
    /\ pc["task"] # "closed" /\ pc["shutdown"] # "pause"
    /\ cancelled => pc["task"] # "idle" /\ ~ Running

InFlight == \E p \in Savers : pc[p] = "saving" /\ Uncancelled(p) /\ taken[p] = live

\* No change is forgotten: data that the storage does not have is marked
\* dirty or on its way, changes made during a save and saves that failed
\* included; only a save cut short by flush() escapes.
ChangesTracked ==
    stored # live =>
       \/ dirty \/ InFlight \/ interrupted
       \/ cancelled /\ pc["task"] = "saving"

\* The storage never goes back to older data.
StoredForward == [][stored' >= stored]_saverVars

\* What a completed flush() is good for: everything is stored, unless the
\* save failed or the flush itself cut a save short.
FlushStores ==
    pc["shutdown"] = "closed" /\ ~ cancelled => stored = live \/ failed \/ interrupted

\* flush(): "取消挂起的定时器并立即落盘未保存改动" (debounced_saver.py:71): what
\* it leaves unsaved can only be what the storage refused.
FlushStoresAll ==
    pc["shutdown"] = "closed" /\ ~ cancelled => stored = live \/ failed

\* Every change reaches the storage without waiting for another change,
\* unless a save of it fails or the process shuts down first.
ChangesStored ==
    \A n \in 1..MaxChanges : live = n ~> (stored >= n \/ failed \/ ~ Running)
=============================================================================
