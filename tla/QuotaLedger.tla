----------------------------- MODULE QuotaLedger -----------------------------
(***************************************************************************)
(* What the daily quota of src/src/stats/unified_stats.py promises,        *)
(* without the reservation table: each upstream key has an account that    *)
(* counts the successful calls of the day and the calls in flight.  A call *)
(* is admitted only while the two together stay below the limit.  A call   *)
(* that outlives its reservation is lost from sight: the account may take  *)
(* one more call for each.  The counter of the day may go back to zero at  *)
(* any step (daily reset, admin reset, deletion of the entry).             *)
(***************************************************************************)
EXTENDS Naturals

CONSTANTS
    Accounts,   \* the upstream keys that own a quota
    Limits      \* the limits an account can be given

VARIABLES
    used,       \* used[a]: successful calls counted since the last reset
    inflight,   \* inflight[a]: calls admitted and not yet finished
    overdraft,  \* overdraft[a]: admitted calls that were lost from sight
    limit       \* limit[a]: the limit in force

ledger == <<used, inflight, overdraft, limit>>

Init ==
    /\ used = [a \in Accounts |-> 0]
    /\ inflight = [a \in Accounts |-> 0]
    /\ overdraft = [a \in Accounts |-> 0]
    /\ limit \in [Accounts -> Limits]

\* The count a step starts from: today's, or zero when the day has turned.
Usage(a) == {used[a], 0}

\* A call is let through: the only step that takes on more work.
Admit(a) ==
    \E u \in Usage(a) :
        /\ u + inflight[a] < limit[a] + overdraft[a]
        /\ used' = [used EXCEPT ![a] = u]
        /\ inflight' = [inflight EXCEPT ![a] = @ + 1]
        /\ UNCHANGED <<overdraft, limit>>

\* An admitted call succeeds and is counted.
Commit(a) ==
    \E u \in Usage(a) :
        /\ inflight[a] > 0
        /\ used' = [used EXCEPT ![a] = u + 1]
        /\ inflight' = [inflight EXCEPT ![a] = @ - 1]
        /\ UNCHANGED <<overdraft, limit>>

\* An admitted call ends without being counted.
Abort(a) ==
    \E u \in Usage(a) :
        /\ inflight[a] > 0
        /\ used' = [used EXCEPT ![a] = u]
        /\ inflight' = [inflight EXCEPT ![a] = @ - 1]
        /\ UNCHANGED <<overdraft, limit>>

\* Resets and changes of limits, of any number of accounts at once.
Administer ==
    /\ used' \in [Accounts -> Nat]
    /\ \A a \in Accounts : used'[a] \in Usage(a)
    /\ limit' \in [Accounts -> Limits]
    /\ UNCHANGED <<inflight, overdraft>>

\* Time passes: calls in flight are lost from sight, no more than there are.
Lapse ==
    /\ overdraft' \in [Accounts -> Nat]
    /\ \A a \in Accounts : overdraft'[a] \in overdraft[a]..overdraft[a] + inflight[a]
    /\ UNCHANGED <<used, inflight, limit>>

Next ==
    \/ \E a \in Accounts : Admit(a) \/ Commit(a) \/ Abort(a)
    \/ Administer
    \/ Lapse

Spec == Init /\ [][Next]_ledger
=============================================================================
