---------------------------- MODULE MCVCPUMarket ----------------------------
(***************************************************************************)
(* Instances of VCPUMarket for TLC.                                        *)
(***************************************************************************)
EXTENDS VCPUMarket, TLC

CONSTANTS big, small

\* Three vcpus in two VMs; the first VM has two of them and one account.
ThreeVmOf == 1 :> big @@ 2 :> big @@ 3 :> small
ThreeNominal == 1 :> 2 @@ 2 :> 3 @@ 3 :> 3
=============================================================================
