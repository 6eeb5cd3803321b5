--------------------------- MODULE MCDesktopClient ---------------------------
(* Instances of DesktopClient for TLC.                                      *)
EXTENDS DesktopClient, TLC

Symmetry == Permutations(Calls) \cup Permutations(Ports)
              \cup Permutations(Procs)
=============================================================================
