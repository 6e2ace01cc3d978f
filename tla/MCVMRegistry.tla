---------------------------- MODULE MCVMRegistry ----------------------------
(***************************************************************************)
(* Instances of VMRegistry for TLC.                                        *)
(***************************************************************************)
EXTENDS VMRegistry

CONSTANTS a, b, c, o1, o2, o3, p1, p2
=============================================================================
