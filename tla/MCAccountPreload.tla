---------------------------- MODULE MCAccountPreload ----------------------------
(* Instances of AccountPreload for TLC. *)
EXTENDS AccountPreload

CONSTANTS overview, cost

\* Two of the four kinds: one whose fetch needs the session, one whose fetch
\* always returns something.
MCKinds == <<overview, cost>>

\* Accounts are interchangeable.
Symmetry == Permutations(Accounts)
=============================================================================
