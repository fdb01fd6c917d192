----------------------------- MODULE AutonomyMC -----------------------------
(***************************************************************************)
(* AutonomyScope for TLC: a capability that may be granted, one that never *)
(* may, and floors on either.                                              *)
(***************************************************************************)
EXTENDS AutonomyScope, TLC

MCCapabilities == {"web_read", "trading"}

MCFloors == {<<>>, "web_read" :> "alert", "trading" :> "decision"}
=============================================================================
