---------------------------- MODULE MCDesktopAuth ----------------------------
(* An instance of DesktopAuth for TLC.                                     *)
EXTENDS DesktopAuth, TLC

\* Users are interchangeable, and so are operations.
Symm == Permutations(Users) \cup Permutations(Ops)
=============================================================================
