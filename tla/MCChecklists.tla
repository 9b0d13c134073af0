--------------------------- MODULE MCChecklists ---------------------------
\* Symmetry for the run of Checklists.
EXTENDS Checklists, TLC

Interchangeable ==
    Permutations(Workers) \cup Permutations(Checklists) \cup Permutations(Items)
=============================================================================
