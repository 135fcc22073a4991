-------------------------- MODULE MCQuotaReservation --------------------------
(* Small instances of QuotaReservation. *)
EXTENDS QuotaReservation

CONSTANTS m1, m2

\* At most one call a day for m1, no limit for m2.
OneForM1 == {[m \in Models |-> IF m = m1 THEN 1 ELSE 0]}
NoModelLimits == {}
=============================================================================
