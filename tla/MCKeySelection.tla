--------------------------- MODULE MCKeySelection ---------------------------
EXTENDS KeySelection

Report(limit, remaining, reset) ==
    [limit |-> limit, remaining |-> remaining, reset |-> reset]

\* No headers; none left until the next tick; none left and no limit named.
MCReports == { Report(Missing, Missing, Missing), Report(1, 0, 1), Report(Missing, 0, 1) }

\* No caching, and the keys in one order.
MCAffinities == { <<>>, [i \in 1 .. N |-> N - i] }
=============================================================================
