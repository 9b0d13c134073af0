---------------------------- MODULE MCComments ----------------------------
\* Symmetry for the runs of Comments.
EXTENDS Comments, TLC

Interchangeable ==
    Permutations(Workers) \cup Permutations(Users) \cup Permutations(Cards)
        \cup Permutations(Comments)
=============================================================================
