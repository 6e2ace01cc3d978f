---------------------------- MODULE MCHungryVCPUs ---------------------------
(* Two VMs of one vcpu that together may use all of their host. *)
EXTENDS HungryVCPUs, TLC

CONSTANTS big, small

TwoVmOf == 1 :> big @@ 2 :> small
TwoNominal == 1 :> 20 @@ 2 :> 16
=============================================================================
