------------------------------ MODULE Delivery ------------------------------
(***************************************************************************)
(* What a campaign promises whoever ordered it: stages are delivered one   *)
(* after another, each by a deliverable of its own; rework goes back to a  *)
(* stage already reached, takes back everything delivered from there on,   *)
(* and is done a bounded number of times; a halted campaign stays halted   *)
(* until it is reworked.                                                   *)
(***************************************************************************)
EXTENDS Naturals

CONSTANTS NumStages, MaxRevisions, Deliverables, None

VARIABLES status, cursor, delivered, revisions

contract == <<status, cursor, delivered, revisions>>

Init ==
  /\ status = "active"
  /\ cursor = 0
  /\ delivered = [s \in 1..NumStages |-> None]
  /\ revisions = 0

Delivering == {delivered[s] : s \in 1..NumStages}

(* The next stage is delivered, by something not delivered already. *)
Deliver(d) ==
  /\ status = "active"
  /\ cursor < NumStages
  /\ d \notin Delivering
  /\ delivered' = [delivered EXCEPT ![cursor + 1] = d]
  /\ cursor' = cursor + 1
  /\ status' = IF cursor' = NumStages THEN "completed" ELSE "active"
  /\ UNCHANGED revisions

Halt ==
  /\ status = "active"
  /\ status' = "paused"
  /\ UNCHANGED <<cursor, delivered, revisions>>

Rework(s) ==
  /\ s <= cursor + 1
  /\ revisions < MaxRevisions
  /\ revisions' = revisions + 1
  /\ cursor' = s - 1
  /\ delivered' = [t \in 1..NumStages |-> IF t < s THEN delivered[t] ELSE None]
  /\ status' = "active"

Next ==
  \/ \E d \in Deliverables : Deliver(d)
  \/ Halt
  \/ \E s \in 1..NumStages : Rework(s)

Spec == Init /\ [][Next]_contract
=============================================================================
