-------------------------- MODULE MCDomainVerifier --------------------------
(* Instances of DomainVerifier for TLC.                                    *)
EXTENDS DomainVerifier
=============================================================================
