--------------------------- MODULE AutonomyProofs ---------------------------
(***************************************************************************)
(* Proofs about AutonomyScope, for every set of capabilities, every        *)
(* permission floors and every limit.                                      *)
(***************************************************************************)
EXTENDS AutonomyScope, TLAPS

USE CapabilitiesAssumption, FloorsAssumption, MaxLimitAssumption

-----------------------------------------------------------------------------
(* Lemmas about levels. *)
LEMMA RankIsNat == \A level \in InterruptionLevel : Rank[level] \in 0..4
  BY DEF InterruptionLevel, Rank

(* Raising to a floor gives a level, at least as disruptive as either.     *)
LEMMA EscalateRaises ==
  ASSUME NEW a \in InterruptionLevel, NEW b \in InterruptionLevel
  PROVE  /\ Escalate(a, b) \in InterruptionLevel
         /\ Rank[Escalate(a, b)] >= Rank[a]
         /\ Rank[Escalate(a, b)] >= Rank[b]
  BY RankIsNat DEF Escalate

(* Raising keeps the order of levels. *)
LEMMA EscalateMonotone ==
  ASSUME NEW a \in InterruptionLevel, NEW b \in InterruptionLevel,
         NEW f \in InterruptionLevel, Rank[a] <= Rank[b]
  PROVE  Rank[Escalate(a, f)] <= Rank[Escalate(b, f)]
  BY RankIsNat DEF Escalate

-----------------------------------------------------------------------------
(* The routed verdict and level, before the floor.                         *)
Routed == Route(env, usage, tick, policy)

(* The variables without what depends on decide(). *)
ScopeTypes ==
  /\ env \in Granted
  /\ usage \in [Counters -> 0..MaxLimit]
  /\ tick \in Ticks
  /\ policy \in {[DefaultPolicy EXCEPT !.permission_floor = f] : f \in Floors}

(* The levels of the policy are the default ones, its floors are levels.   *)
LEMMA PolicyLevels ==
  ASSUME ScopeTypes
  PROVE  /\ policy.routine_revise_level = "silent"
         /\ policy.accept_level = "digest"
         /\ policy.finalize_level = "digest"
         /\ policy.revisit_level = "digest"
         /\ policy.soul_blocker_level = "alert"
         /\ policy.approval_level = "approval"
         /\ policy.exhausted_level = "decision"
         /\ policy.stuck_level = "decision"
         /\ \A c \in DOMAIN policy.permission_floor :
              policy.permission_floor[c] \in InterruptionLevel
<1>1. PICK f \in Floors : policy = [DefaultPolicy EXCEPT !.permission_floor = f]
  BY DEF ScopeTypes
<1> QED
  BY <1>1 DEF DefaultPolicy

(* Every way decide() may go. *)
LEMMA RouteCases ==
  ASSUME ScopeTypes
  PROVE  \/ Routed = Ruling("pause", "decision")
         \/ Routed = Ruling("ask_human", "approval")
         \/ Routed = Ruling("ask_human", "decision")
         \/ Routed = Ruling("revise", "alert")
         \/ ~tick.soul_blocker /\ Routed \in {Ruling("revise", "silent"),
                                             Ruling("revisit", "digest"),
                                             Ruling("finalize", "digest"),
                                             Ruling("accept", "digest")}
  BY PolicyLevels DEF Routed, Route

(* A decision is the routed verdict, no milder than the routed level.      *)
LEMMA DecisionOfRouted ==
  ASSUME ScopeTypes
  PROVE  /\ Decision.verdict = Routed.verdict
         /\ Decision.verdict \in Verdict
         /\ Decision.interruption \in InterruptionLevel
         /\ Routed.interruption \in InterruptionLevel
         /\ Rank[Decision.interruption] >= Rank[Routed.interruption]
<1>1. Routed.verdict \in Verdict /\ Routed.interruption \in InterruptionLevel
  BY RouteCases DEF Ruling, Verdict, InterruptionLevel
<1>2. /\ Decision.verdict = Routed.verdict
      /\ Decision.interruption =
           IF tick.required_permission \in DOMAIN policy.permission_floor
           THEN Escalate(Routed.interruption,
                         policy.permission_floor[tick.required_permission])
           ELSE Routed.interruption
  BY DEF Decision, Decide, Routed
<1>3. CASE tick.required_permission \in DOMAIN policy.permission_floor
  BY <1>1, <1>2, <1>3, PolicyLevels, EscalateRaises
<1>4. CASE tick.required_permission \notin DOMAIN policy.permission_floor
  BY <1>1, <1>2, <1>4, RankIsNat
<1> QED
  BY <1>3, <1>4

-----------------------------------------------------------------------------
(* The types. *)
LEMMA RetryBudgetType ==
  ASSUME ScopeTypes
  PROVE  RetryBudget(env, usage) \in [remaining_revisions : 0..env.max_revisions,
                                      remaining_revisits : 0..env.max_revisits]
<1>1. /\ env.max_revisions \in Nat /\ env.max_revisits \in Nat
      /\ usage.revisions_used \in Nat /\ usage.revisits_used \in Nat
  BY DEF ScopeTypes, Granted, Counters
<1> QED
  BY <1>1 DEF RetryBudget

LEMMA TypesFollow == ScopeTypes => TypeOK
<1> SUFFICES ASSUME ScopeTypes PROVE TypeOK
  OBVIOUS
<1>1. Decision = [verdict |-> Decision.verdict, interruption |-> Decision.interruption,
                  retry_budget |-> RetryBudget(env, usage)]
  BY DEF Decision, Decide
<1> QED
  BY <1>1, DecisionOfRouted, RetryBudgetType DEF TypeOK, ScopeTypes

LEMMA ScopeTyped == Spec => []ScopeTypes
<1>1. Init => ScopeTypes
  BY DEF Init, ScopeTypes
<1>2. ScopeTypes /\ [Next]_vars => ScopeTypes'
  <2> SUFFICES ASSUME ScopeTypes, [Next]_vars PROVE ScopeTypes'
    OBVIOUS
  <2>1. ASSUME NEW counter \in Counters, Use(counter) PROVE ScopeTypes'
    <3>1. usage[counter] + 1 \in 0..MaxLimit
      BY <2>1 DEF Use, ScopeTypes
    <3> QED
      BY <2>1, <3>1 DEF Use, ScopeTypes
  <2>2. CASE NewFacts
    BY <2>2 DEF NewFacts, ScopeTypes
  <2>3. CASE UNCHANGED vars
    BY <2>3 DEF vars, ScopeTypes
  <2> QED
    BY <2>1, <2>2, <2>3 DEF Next
<1> QED
  BY <1>1, <1>2, PTL DEF Spec

(* Every decision is well formed, and its retry budget is really left.     *)
THEOREM TypesHold == Spec => []TypeOK
  BY ScopeTyped, TypesFollow, PTL

-----------------------------------------------------------------------------
(* What was never granted, or is irreversible, halts the campaign.         *)
THEOREM BoundaryHolds == Spec => []BoundaryBlocks
<1>1. ScopeTypes => BoundaryBlocks
  <2> SUFFICES ASSUME ScopeTypes, tick.required_permission # NoPermission,
                      \/ tick.required_permission \in IrreversiblePermissions
                      \/ tick.required_permission \notin env.allowed_permissions
               PROVE  /\ Decision.verdict \in {"pause", "ask_human"}
                      /\ Blocks(Decision.interruption)
    BY DEF BoundaryBlocks
  <2>1. RequiresApproval(env, tick.required_permission)
    BY DEF ScopeTypes, Granted, RequiresApproval, Permits
  <2>2. Routed \in {Ruling("pause", "decision"), Ruling("ask_human", "approval")}
    BY <2>1, PolicyLevels DEF Routed, Route
  <2> QED
    BY <2>2, DecisionOfRouted, RankIsNat DEF Ruling, Blocks, Rank
<1> QED
  BY <1>1, ScopeTyped, PTL

(* A Soul blocker is never accepted over, and never silenced.              *)
THEOREM SoulIsHeard == Spec => []SoulBlockerHeard
<1>1. ScopeTypes => SoulBlockerHeard
  <2> SUFFICES ASSUME ScopeTypes, tick.soul_blocker
               PROVE  /\ Decision.verdict \in {"revise", "ask_human", "pause"}
                      /\ Rank[Decision.interruption] >= Rank["alert"]
    BY DEF SoulBlockerHeard
  <2>1. Routed \in {Ruling("pause", "decision"), Ruling("ask_human", "approval"),
                    Ruling("ask_human", "decision"), Ruling("revise", "alert")}
    BY RouteCases
  <2> QED
    BY <2>1, DecisionOfRouted, RankIsNat DEF Ruling, Rank
<1> QED
  BY <1>1, ScopeTyped, PTL

-----------------------------------------------------------------------------
(* Using up the allowance: the policy and the facts stay, counters grow.   *)
UsesUp ==
  /\ UNCHANGED <<env, tick, policy>>
  /\ \A counter \in Counters : usage[counter] <= usage'[counter]

(* The breaker, once tripped, stays tripped, and the retry budgets, once   *)
(* spent, stay spent.                                                      *)
LEMMA SpentStaysSpent ==
  ASSUME ScopeTypes, ScopeTypes', UsesUp
  PROVE  /\ TrippedLimits(usage, env) # {} => TrippedLimits(usage', env) # {}
         /\ usage'.revisions_used < env.max_revisions => usage.revisions_used < env.max_revisions
         /\ usage'.revisits_used < env.max_revisits => usage.revisits_used < env.max_revisits
<1>1. /\ env.max_ticks \in Nat /\ env.max_worker_runs \in Nat /\ env.max_cost \in Nat
      /\ env.max_revisions \in Nat /\ env.max_revisits \in Nat
  BY DEF ScopeTypes, Granted
<1>2. \A counter \in Counters : usage[counter] \in Nat /\ usage'[counter] \in Nat
  BY DEF ScopeTypes
<1>3. /\ usage.ticks_used <= usage'.ticks_used
      /\ usage.worker_runs_used <= usage'.worker_runs_used
      /\ usage.revisions_used <= usage'.revisions_used
      /\ usage.revisits_used <= usage'.revisits_used
      /\ usage.cost_used <= usage'.cost_used
  BY DEF UsesUp, Counters
<1>4. /\ usage.ticks_used \in Nat /\ usage'.ticks_used \in Nat
      /\ usage.worker_runs_used \in Nat /\ usage'.worker_runs_used \in Nat
      /\ usage.revisions_used \in Nat /\ usage'.revisions_used \in Nat
      /\ usage.revisits_used \in Nat /\ usage'.revisits_used \in Nat
      /\ usage.cost_used \in Nat /\ usage'.cost_used \in Nat
  BY <1>2 DEF Counters
<1>5. TrippedLimits(usage, env) \subseteq TrippedLimits(usage', env)
  BY <1>1, <1>3, <1>4 DEF TrippedLimits
<1> QED
  BY <1>1, <1>3, <1>4, <1>5

(* So the routed level never falls. *)
LEMMA RouteNeverMilder ==
  ASSUME ScopeTypes, ScopeTypes', UsesUp
  PROVE  Rank[Routed.interruption] <= Rank[Routed'.interruption]
<1>1. Routed' = Route(env, usage', tick, policy)
  BY DEF UsesUp, Routed
<1> QED
  BY <1>1, SpentStaysSpent, PolicyLevels DEF Routed, Route, Ruling, Rank

(* The routed level is one, now and after a step. *)
LEMMA RoutedLevel == ScopeTypes => Routed.interruption \in InterruptionLevel
  BY DecisionOfRouted

(* With the same facts, more use never makes for a milder interruption.    *)
THEOREM MoreUseNeverMilder == Spec => NeverMilder
<1>1. ScopeTypes /\ ScopeTypes' /\ [Next]_vars =>
        [tick' = tick => Rank[Decision.interruption] <= Rank[Decision'.interruption]]_vars
  <2> SUFFICES ASSUME ScopeTypes, ScopeTypes', [Next]_vars, tick' = tick
               PROVE  Rank[Decision.interruption] <= Rank[Decision'.interruption]
    OBVIOUS
  <2>1. UsesUp
    <3>1. CASE UNCHANGED usage
      BY <3>1 DEF UsesUp, Next, Use, NewFacts, vars, ScopeTypes
    <3>2. ASSUME NEW counter \in Counters, Use(counter) PROVE UsesUp
      BY <3>2 DEF UsesUp, Use, ScopeTypes
    <3> QED
      BY <3>1, <3>2 DEF Next, NewFacts, vars
  <2>2. Rank[Routed.interruption] <= Rank[Routed'.interruption]
    BY <2>1, RouteNeverMilder
  <2>3. /\ Routed.interruption \in InterruptionLevel
        /\ (Routed.interruption \in InterruptionLevel)'
    BY RoutedLevel, PTL
  <2> DEFINE asked == tick.required_permission
             floor == policy.permission_floor
  <2>4. /\ Decision.interruption = IF asked \in DOMAIN floor
                                  THEN Escalate(Routed.interruption, floor[asked])
                                  ELSE Routed.interruption
        /\ Decision'.interruption = IF asked \in DOMAIN floor
                                   THEN Escalate(Routed'.interruption, floor[asked])
                                   ELSE Routed'.interruption
    BY <2>1 DEF Decision, Decide, Routed, UsesUp
  <2>5. CASE asked \in DOMAIN floor
    BY <2>2, <2>3, <2>4, <2>5, PolicyLevels, EscalateMonotone
  <2>6. CASE asked \notin DOMAIN floor
    BY <2>2, <2>4, <2>6
  <2> QED
    BY <2>5, <2>6
<1> QED
  BY <1>1, ScopeTyped, PTL DEF Spec, NeverMilder
=============================================================================
