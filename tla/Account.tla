------------------------------ MODULE Account -------------------------------
(***************************************************************************)
(* What patch propose promises whoever pays for it: a delegation is        *)
(* charged once, one at a time, and every charge ends up in the saved      *)
(* wallet, unless the command dies first.  Nothing saved is ever undone.   *)
(***************************************************************************)
EXTENDS Naturals

CONSTANT MaxLost  \* commands that die

VARIABLES saved, open, lost  \* charges in the wallet, not yet in it, never in it

account == <<saved, open, lost>>

Init == saved = 0 /\ open = 0 /\ lost = 0

Charge ==
  /\ open = 0
  /\ open' = 1
  /\ UNCHANGED <<saved, lost>>

Save ==
  /\ open = 1
  /\ saved' = saved + 1
  /\ open' = 0
  /\ UNCHANGED lost

Lose ==
  /\ open = 1
  /\ lost < MaxLost
  /\ lost' = lost + 1
  /\ open' = 0
  /\ UNCHANGED saved

Next == Charge \/ Save \/ Lose

(* An open charge is settled. *)
Spec == Init /\ [][Next]_account /\ WF_account(Save \/ Lose)
=============================================================================
