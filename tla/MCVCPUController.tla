-------------------------- MODULE MCVCPUController --------------------------
(***************************************************************************)
(* Instances of VCPUController for TLC; the constants are in the cfgs.     *)
(***************************************************************************)
EXTENDS VCPUController
=============================================================================
