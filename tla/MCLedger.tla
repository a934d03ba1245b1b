------------------------------- MODULE MCLedger -------------------------------
EXTENDS Ledger, TLC

\* Handlers and accounts are told apart by nothing.
Symmetry == Permutations(Workers) \cup Permutations(Accounts)
=============================================================================
