-------------------------- MODULE MCLifecycleRecord --------------------------
(***************************************************************************)
(* A small instance of LifecycleRecord for TLC.                            *)
(***************************************************************************)
EXTENDS LifecycleRecord, TLC

Symmetry == Permutations(Packages) \cup Permutations(Digests)
=============================================================================
