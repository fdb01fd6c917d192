------------------------- MODULE DelegationAccount --------------------------
(***************************************************************************)
(* Delegations, one command at a time, as an implementation of Account.  A *)
(* charge is open while a patch command has BUDGET_SPENT in the ledger and *)
(* no snapshot with it.                                                    *)
(***************************************************************************)
EXTENDS Delegation

Saved == IF snapshots = <<>> THEN 0 ELSE Latest.spend_count
Open ==
  Cardinality({p \in Procs : /\ pc[p] \in {"request", "run", "validate", "stamp", "insert"}
                             /\ deal[p] \in Charged("patch")})

Books ==
  INSTANCE Account WITH
    MaxLost <- MaxCrashes,
    saved <- Saved,
    open <- Open,
    lost <- Cardinality(Charged("patch")) - Saved - Open

(* Commands that run one at a time keep the account of Account: whatever   *)
(* is denied, halted, failed or not a valid diff, each charge of a patch   *)
(* delegation reaches the saved wallet exactly once, or its command died.  *)
ImplementsAccount == Books!Spec
=============================================================================
