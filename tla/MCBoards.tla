------------------------------ MODULE MCBoards ------------------------------
\* Symmetry for the runs of Boards.
EXTENDS Boards, TLC

Interchangeable ==
    Permutations(Workers) \cup Permutations(Users) \cup Permutations(Boards)
    \cup Permutations(Orgs)
=============================================================================
