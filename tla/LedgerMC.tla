------------------------------ MODULE LedgerMC ------------------------------
(***************************************************************************)
(* Ledger for TLC: processes are interchangeable.                          *)
(***************************************************************************)
EXTENDS Ledger, TLC

ProcSymmetry == Permutations(Procs)
=============================================================================
