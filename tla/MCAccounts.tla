----------------------------- MODULE MCAccounts -----------------------------
\* Symmetry for the runs of Accounts.
EXTENDS Accounts, TLC

Interchangeable == Permutations(Workers) \cup Permutations(Rows) \cup Permutations(Passwords)
=============================================================================
