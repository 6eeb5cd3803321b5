----------------------------- MODULE MCAccounts -----------------------------
(* Instances of Accounts for TLC.                                          *)
EXTENDS Accounts, TLC

\* Calls are interchangeable.
Symm == Permutations(Calls)
=============================================================================
