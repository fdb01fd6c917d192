-------------------------- MODULE CampaignDelivery --------------------------
(***************************************************************************)
(* The engine as an implementation of Delivery.  A stage counts as         *)
(* delivered once the projected cursor is past it and its reference is to  *)
(* a deliverable accepted for it: accepting it is still a silent step, the *)
(* event that advances the cursor delivers it.                             *)
(***************************************************************************)
EXTENDS Campaign

DeliveredOf(s) ==
  LET d == stored.stages[s].deliverable_id IN
  IF s <= stored.cursor /\ AcceptedFor(d, s) THEN d ELSE NoDeliverable

Contract ==
  INSTANCE Delivery WITH
    Deliverables <- 1..(MaxCommands * MaxTicks),
    None <- NoDeliverable,
    status <- stored.status,
    cursor <- stored.cursor,
    delivered <- [s \in Stages |-> DeliveredOf(s)],
    revisions <- revised

(* A campaign driven by one command at a time, each of which may die       *)
(* between two commits, keeps the promise of Delivery: no crash loses a    *)
(* delivered stage, skips one, or spends more than the revision budget.    *)
ImplementsDelivery == Contract!Spec
=============================================================================
