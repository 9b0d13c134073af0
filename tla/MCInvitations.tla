--------------------------- MODULE MCInvitations ---------------------------
\* Symmetry for the runs of Invitations.
EXTENDS Invitations, TLC

Interchangeable == Permutations(Workers) \cup Permutations(Users \ {Owner})
=============================================================================
