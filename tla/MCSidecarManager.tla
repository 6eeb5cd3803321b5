-------------------------- MODULE MCSidecarManager --------------------------
(* Instances of SidecarManager for TLC.                                    *)
EXTENDS SidecarManager
=============================================================================
