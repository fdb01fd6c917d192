--------------------------- MODULE AutonomyScope ---------------------------
(***************************************************************************)
(* One campaign under one envelope while its allowance is used up: the     *)
(* human grants a boundary and sets the policy's floors once, counters     *)
(* only grow, and every tick puts new facts before decide().               *)
(***************************************************************************)
EXTENDS Autonomy

CONSTANTS
  Capabilities,  \* permission labels that are granted or asked for
  Floors,        \* values of InterruptionPolicy.permission_floor
  MaxLimit       \* bound: largest ceiling, and largest count

ASSUME CapabilitiesAssumption == NoPermission \notin Capabilities
ASSUME FloorsAssumption ==
  \A f \in Floors : DOMAIN f \subseteq Capabilities
                    /\ \A c \in DOMAIN f : f[c] \in InterruptionLevel
ASSUME MaxLimitAssumption == MaxLimit \in Nat

VARIABLES env, usage, tick, policy

vars == <<env, usage, tick, policy>>

Counters == {"ticks_used", "worker_runs_used", "revisions_used",
             "revisits_used", "cost_used"}

(* The facts of a tick, as the arguments of decide(). *)
Ticks ==
  [required_permission : Capabilities \cup {NoPermission}, soul_blocker : BOOLEAN,
   validation_passed : BOOLEAN, is_final_stage : BOOLEAN]

(* The forbidden set is the default one: it holds whatever is granted. *)
Granted ==
  [max_ticks : 0..MaxLimit, max_worker_runs : 0..MaxLimit,
   max_revisions : 0..MaxLimit, max_revisits : 0..MaxLimit,
   max_cost : 0..MaxLimit,
   allowed_permissions : SUBSET Capabilities,
   forbidden : {IrreversiblePermissions}]

Init ==
  /\ env \in Granted
  /\ usage = [counter \in Counters |-> 0]
  /\ tick \in Ticks
  /\ \E f \in Floors : policy = [DefaultPolicy EXCEPT !.permission_floor = f]

(* A tick, a worker run, a revision, a revisit or its cost is counted. *)
Use(counter) ==
  /\ usage[counter] < MaxLimit
  /\ usage' = [usage EXCEPT ![counter] = @ + 1]
  /\ UNCHANGED <<env, tick, policy>>

NewFacts ==
  /\ tick' \in Ticks
  /\ UNCHANGED <<env, usage, policy>>

Next == (\E counter \in Counters : Use(counter)) \/ NewFacts

Spec == Init /\ [][Next]_vars

Decision == Decide(env, usage, tick, policy)

-----------------------------------------------------------------------------
(* Every decision is a verdict, a level and a retry budget the envelope    *)
(* really has left, also when counters have overrun it.                    *)
TypeOK ==
  /\ env \in Granted
  /\ usage \in [Counters -> 0..MaxLimit]
  /\ tick \in Ticks
  /\ policy \in {[DefaultPolicy EXCEPT !.permission_floor = f] : f \in Floors}
  /\ Decision \in [verdict : Verdict, interruption : InterruptionLevel,
                   retry_budget : [remaining_revisions : 0..env.max_revisions,
                                   remaining_revisits : 0..env.max_revisits]]

(* Using up the allowance never calms the system down: with the same facts *)
(* before it, a campaign that has spent more disturbs the human no less.   *)
NeverMilder ==
  [][tick' = tick => Rank[Decision.interruption] <= Rank[Decision'.interruption]]_vars

(* A capability that is irreversible, even one that was granted, or that   *)
(* was never granted, halts the campaign for the human, whatever the gate  *)
(* and the Soul say and however much allowance is left.                    *)
BoundaryBlocks ==
  LET asked == tick.required_permission IN
  asked # NoPermission /\ (asked \in IrreversiblePermissions
                           \/ asked \notin env.allowed_permissions)
    => /\ Decision.verdict \in {"pause", "ask_human"}
       /\ Blocks(Decision.interruption)

(* A Soul blocker is never silenced: nothing is accepted over it, and the  *)
(* human at least hears of it, with a failed gate and an exhausted budget  *)
(* alike.                                                                  *)
SoulBlockerHeard ==
  tick.soul_blocker => /\ Decision.verdict \in {"revise", "ask_human", "pause"}
                       /\ Rank[Decision.interruption] >= Rank["alert"]
=============================================================================
