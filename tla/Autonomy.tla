------------------------------ MODULE Autonomy ------------------------------
(***************************************************************************)
(* will/autonomy: the pure decision function that collapses the facts of   *)
(* one campaign tick into a verdict and an interruption level, with the    *)
(* envelope (circuit breaker, permission boundary) and the interruption    *)
(* policy it consults.                                                     *)
(*                                                                         *)
(* Money and cost are whole numbers of the smallest unit the code uses.    *)
(* Reasons, evidence references and instructions are wording and left out. *)
(***************************************************************************)
EXTENDS Naturals

(* Interruption levels, from least to most disruptive. *)
InterruptionLevel == {"silent", "digest", "alert", "approval", "decision"}

Rank == [silent |-> 0, digest |-> 1, alert |-> 2, approval |-> 3, decision |-> 4]

Escalate(a, b) == IF Rank[a] >= Rank[b] THEN a ELSE b

Blocks(level) == Rank[level] >= Rank["approval"]

Verdict == {"continue", "accept", "revise", "revisit",
            "ask_human", "pause", "block", "finalize"}

(* No capability is asked for (required_permission is None). *)
NoPermission == "none"

IrreversiblePermissions ==
  {"trading", "credential_access", "paid_data", "remote_write", "commit_push_deploy"}

(* An envelope and its usage are records that hold the facts of            *)
(* AutonomyEnvelope and EnvelopeUsage, under their own names.              *)
(* Mutant: what is forbidden may be granted. *)
PermitsGranted(env, permission) == permission \in env.allowed_permissions

Permits(env, permission) ==
  permission \in env.allowed_permissions \ env.forbidden

RequiresApproval(env, permission) == ~Permits(env, permission)

(* The global ceilings that have been reached; the retry budgets are not   *)
(* among them.                                                             *)
TrippedLimits(usage, env) ==
  {limit \in {"max_ticks", "max_worker_runs", "max_cost"} :
     \/ limit = "max_ticks" /\ usage.ticks_used >= env.max_ticks
     \/ limit = "max_worker_runs" /\ usage.worker_runs_used >= env.max_worker_runs
     \/ limit = "max_cost" /\ usage.cost_used >= env.max_cost}

(* The default levels of InterruptionPolicy, with no per-permission floor. *)
DefaultPolicy ==
  [routine_revise_level |-> "silent", accept_level |-> "digest",
   finalize_level |-> "digest", revisit_level |-> "digest",
   soul_blocker_level |-> "alert", approval_level |-> "approval",
   exhausted_level |-> "decision", stuck_level |-> "decision",
   permission_floor |-> [p \in {} |-> "silent"]]

Ruling(verdict, level) == [verdict |-> verdict, interruption |-> level]

(* Mutants of Route: a failed gate is looked at before the Soul's concern; *)
(* a stage is revisited before it is revised.                              *)
RouteGateFirst(env, usage, tick, policy) ==
  IF TrippedLimits(usage, env) # {}
  THEN Ruling("pause", policy.exhausted_level)
  ELSE IF tick.required_permission # NoPermission
          /\ RequiresApproval(env, tick.required_permission)
  THEN Ruling("ask_human", policy.approval_level)
  ELSE IF ~tick.validation_passed /\ usage.revisions_used < env.max_revisions
  THEN Ruling("revise", policy.routine_revise_level)
  ELSE IF tick.soul_blocker \/ ~tick.validation_passed
  THEN Ruling("ask_human", policy.stuck_level)
  ELSE Ruling("accept", policy.accept_level)

RouteRevisitFirst(env, usage, tick, policy) ==
  IF TrippedLimits(usage, env) # {}
  THEN Ruling("pause", policy.exhausted_level)
  ELSE IF ~tick.validation_passed
  THEN IF usage.revisits_used < env.max_revisits
       THEN Ruling("revisit", policy.revisit_level)
       ELSE IF usage.revisions_used < env.max_revisions
       THEN Ruling("revise", policy.routine_revise_level)
       ELSE Ruling("ask_human", policy.stuck_level)
  ELSE Ruling("accept", policy.accept_level)

(* The rules of decide(), first match wins. *)
Route(env, usage, tick, policy) ==
  IF TrippedLimits(usage, env) # {}
  THEN Ruling("pause", policy.exhausted_level)
  ELSE IF tick.required_permission # NoPermission
          /\ RequiresApproval(env, tick.required_permission)
  THEN Ruling("ask_human", policy.approval_level)
  ELSE IF tick.soul_blocker
  THEN IF usage.revisions_used < env.max_revisions
       THEN Ruling("revise", policy.soul_blocker_level)
       ELSE Ruling("ask_human", policy.stuck_level)
  ELSE IF ~tick.validation_passed
  THEN IF usage.revisions_used < env.max_revisions
       THEN Ruling("revise", policy.routine_revise_level)
       ELSE IF usage.revisits_used < env.max_revisits
       THEN Ruling("revisit", policy.revisit_level)
       ELSE Ruling("ask_human", policy.stuck_level)
  ELSE IF tick.is_final_stage
  THEN Ruling("finalize", policy.finalize_level)
  ELSE Ruling("accept", policy.accept_level)

(* Mutant: what is left may go below zero. *)
RetryBudgetUnclamped(env, usage) ==
  [remaining_revisions |-> env.max_revisions - usage.revisions_used,
   remaining_revisits |-> env.max_revisits - usage.revisits_used]

(* What the envelope still allows, recorded on every decision. *)
RetryBudget(env, usage) ==
  LET left(max, used) == IF used < max THEN max - used ELSE 0
  IN  [remaining_revisions |-> left(env.max_revisions, usage.revisions_used),
       remaining_revisits |-> left(env.max_revisits, usage.revisits_used)]

(* decide(): the routed verdict, its level raised to the floor the policy  *)
(* sets for the capability asked for, and the retry budget left.           *)
Decide(env, usage, tick, policy) ==
  LET ruling == Route(env, usage, tick, policy)
      level == IF tick.required_permission \in DOMAIN policy.permission_floor
               THEN Escalate(ruling.interruption,
                             policy.permission_floor[tick.required_permission])
               ELSE ruling.interruption
  IN  [verdict |-> ruling.verdict,
       interruption |-> level,
       retry_budget |-> RetryBudget(env, usage)]
=============================================================================
