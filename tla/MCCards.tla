------------------------------ MODULE MCCards ------------------------------
\* Symmetry for the run of Cards.
EXTENDS Cards, TLC

Interchangeable ==
    Permutations(Workers) \cup Permutations(Boards) \cup Permutations(Lists)
        \cup Permutations(Cards)
=============================================================================
