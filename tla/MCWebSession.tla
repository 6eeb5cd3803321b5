---------------------------- MODULE MCWebSession ----------------------------
(* Instances of WebSession for TLC.                                        *)
EXTENDS WebSession, TLC

Symmetry == Permutations(Tabs) \union Permutations(Users)
=============================================================================
