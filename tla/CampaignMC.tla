----------------------------- MODULE CampaignMC -----------------------------
(***************************************************************************)
(* Campaign for TLC: processes are interchangeable.                        *)
(***************************************************************************)
EXTENDS CampaignDelivery, TLC

ProcSymmetry == Permutations(Procs)
=============================================================================
