--------------------------- MODULE MCOrganizations ---------------------------
\* Symmetry for the runs of Organizations.
EXTENDS Organizations, TLC

Interchangeable == Permutations(Workers) \cup Permutations(Users)
=============================================================================
