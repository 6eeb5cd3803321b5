----------------------------- MODULE MCBindings -----------------------------
(* Instances of Bindings for TLC.                                          *)
EXTENDS Bindings, TLC

\* Devices are interchangeable when no agent runs, and so are calls.
Symm == Permutations(Devices) \cup Permutations(Calls)
=============================================================================
