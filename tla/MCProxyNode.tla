---------------------------- MODULE MCProxyNode ----------------------------
(* Instances of ProxyNode for TLC.                                         *)
EXTENDS ProxyNode, TLC

Symm == Permutations(Conns)
=============================================================================
