---------------------------- MODULE MCUsageTraces ----------------------------
EXTENDS UsageTraces, TLC

Symmetry == Permutations(Requests) \cup Permutations(Keys)
=============================================================================
