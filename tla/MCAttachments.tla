--------------------------- MODULE MCAttachments ---------------------------
\* Symmetry for the run of Attachments.
EXTENDS Attachments, TLC

Interchangeable ==
    Permutations(Workers) \cup Permutations(Cards) \cup Permutations(Attachments)
=============================================================================
