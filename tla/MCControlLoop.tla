--------------------------- MODULE MCControlLoop ----------------------------
(***************************************************************************)
(* Instances of ControlLoop for TLC; the constants are in the cfgs.        *)
(***************************************************************************)
EXTENDS ControlLoop

CONSTANTS a, b
=============================================================================
