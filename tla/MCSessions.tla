----------------------------- MODULE MCSessions -----------------------------
\* Symmetry for the runs of Sessions whose properties are not liveness.
EXTENDS Sessions, TLC

Interchangeable == Permutations(Workers) \cup Permutations(Pairs)
=============================================================================
