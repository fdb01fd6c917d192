---------------------------- MODULE DelegationMC ----------------------------
(***************************************************************************)
(* Delegation for TLC: processes are interchangeable.                      *)
(***************************************************************************)
EXTENDS DelegationAccount, TLC

ProcSymmetry == Permutations(Procs)
=============================================================================
