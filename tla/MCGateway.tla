------------------------------ MODULE MCGateway ------------------------------
(* Gateway for TLC: the requests that may come in, and the requests         *)
(* interchangeable.                                                         *)
EXTENDS Gateway, TLC

CONSTANTS m1, m2

MCModels == {m1, m2}
MCLists == {{m1, m2}, {m1}}
MCAsks == {[model |-> m1, fallbacks |-> {}, endpoint |-> "chat"],
           [model |-> m1, fallbacks |-> {m2}, endpoint |-> "messages"],
           [model |-> m2, fallbacks |-> {}, endpoint |-> "count"],
           NoAsk}
MCSymmetry == Permutations(Requests)
=============================================================================
