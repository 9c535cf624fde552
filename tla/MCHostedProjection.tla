------------------------- MODULE MCHostedProjection -------------------------
(***************************************************************************)
(* Small instances of HostedProjection for TLC.                            *)
(***************************************************************************)
EXTENDS HostedProjection
=============================================================================
