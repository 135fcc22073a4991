------------------------------ MODULE LossyStore ------------------------------
(***************************************************************************)
(* What the storage layer promises to the components above it: every       *)
(* operation takes effect at one instant, and a crash loses at most the    *)
(* last writes, never one in the middle and never one field of several.    *)
(***************************************************************************)
EXTENDS Naturals, Sequences

CONSTANTS
    Names,      \* configuration names
    Clients     \* coroutines that read and write

VARIABLES
    log,        \* the writes in the order they took effect
    reply       \* what each client read last

store == <<log, reply>>

Entries == [name : Names, del : BOOLEAN]

\* The value of n after the writes of l: the position of the write that set
\* it, 0 if there is none.
Latest(l, n) ==
    LET writes == {k \in 1..Len(l) : l[k].name = n}
        last == CHOOSE k \in writes : \A j \in writes : j <= k
    IN  IF writes = {} \/ l[last].del THEN 0 ELSE last

Contents(l) == [n \in Names |-> Latest(l, n)]

Init ==
    /\ log = <<>>
    /\ reply = [c \in Clients |-> 0]

Write ==
    /\ \E e \in Entries : log' = Append(log, e)
    /\ UNCHANGED reply

Read(c) ==
    /\ \E n \in Names : reply' = [reply EXCEPT ![c] = Latest(log, n)]
    /\ UNCHANGED log

Crash ==
    /\ \E k \in 0..Len(log) : log' = SubSeq(log, 1, k)
    /\ UNCHANGED reply

Next == Write \/ Crash \/ \E c \in Clients : Read(c)

Spec == Init /\ [][Next]_store
=============================================================================
