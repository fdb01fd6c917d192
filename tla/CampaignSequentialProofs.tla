---------------------- MODULE CampaignSequentialProofs ----------------------
(***************************************************************************)
(* Proofs about Campaign when one command works on the campaign at a time, *)
(* whatever the number of stages, quotas, bounds and crashes: what an      *)
(* interrupted command leaves behind is repaired by the next ones.         *)
(***************************************************************************)
EXTENDS CampaignDelivery, CampaignProofs

USE NumStagesAssumption, QuotaAssumption, BoundsAssumption
 DEF Stages, NoDeliverable, NoTask

(* One command at a time, on a campaign that is created once. *)
OneCommand == (\A p, q \in Procs : p = q) /\ MaxCreates = 0

-----------------------------------------------------------------------------
(* Memory in step with the ledger.                                         *)

(* Two campaigns that differ in what they count of task runs and cost.     *)
Twins(c, d) ==
  /\ c.status = d.status
  /\ c.cursor = d.cursor
  /\ c.revisions_used = d.revisions_used
  /\ c.stages = d.stages

(* Where a tick has nothing in memory that it has not committed. *)
Settled == {"tick", "request", "execute", "produce", "decide", "route"}

LEMMA CampaignsHave ==
  ASSUME Invariant
  PROVE  /\ stored \in Campaigns
         /\ \A p \in Procs : mem[p] \in Campaigns
         /\ runs \in Seq(TaskRuns)
         /\ \A p \in Procs : Good(runs, mem[p]) /\ Owns(p) /\ Works(p)
         /\ Good(runs, stored)
         /\ LocalTypes
  BY Regroup DEF Regrouped, Good, LedgerSound

LEMMA SettledMeans ==
  ASSUME Invariant, MemoryInStep, NEW p \in Procs, pc[p] \in Settled
  PROVE  Twins(mem[p], stored)
<1>1. TickInStep(p) /\ pc[p] # "advance"
  BY DEF MemoryInStep, Settled
<1>2. \A s \in Stages : mem[p].stages[s] = stored.stages[s]
  BY <1>1 DEF TickInStep
<1>3. mem[p].stages = stored.stages
  BY <1>2, CampaignsHave DEF Campaigns
<1> QED
  BY <1>1, <1>3 DEF TickInStep, Twins

LEMMA TwinsInStep ==
  ASSUME OneCommand, NEW p \in Procs, pc'[p] \in Settled, Twins(mem'[p], stored')
  PROVE  MemoryInStep'
<1>1. TickInStep(p)' /\ pc'[p] # "revisit"
  BY DEF TickInStep, Twins, Settled
<1> QED
  BY <1>1 DEF MemoryInStep, OneCommand

LEMMA IdleInStep ==
  ASSUME OneCommand, NEW p \in Procs, pc'[p] = "idle"
  PROVE  MemoryInStep'
  BY DEF MemoryInStep, OneCommand

(* A process about to exit. *)
LEMMA ExitInStep ==
  ASSUME OneCommand, Invariant, NEW p \in Procs, Exit(p)
  PROVE  MemoryInStep' /\ pc'[p] = "idle"
<1>1. pc'[p] = "idle"
  BY CampaignsHave DEF LocalTypes, Exit
<1> QED
  BY <1>1, IdleInStep

(* A loop that goes on takes what it was given to the next tick. *)
LEMMA NextTickInStep ==
  ASSUME OneCommand, Invariant, NEW p \in Procs, NEW c \in Campaigns, NextTick(p, c),
         Twins(c, stored')
  PROVE  MemoryInStep' /\ pc'[p] \in {"idle", "tick"}
<1>1. CASE ticks[p] > 1
  <2>1. pc'[p] = "tick" /\ mem'[p] = c
    BY <1>1, CampaignsHave DEF NextTick, LocalTypes
  <2> QED
    BY <2>1, TwinsInStep DEF Settled
<1>2. CASE ~(ticks[p] > 1)
  BY <1>2, ExitInStep DEF NextTick
<1> QED
  BY <1>1, <1>2

-----------------------------------------------------------------------------
(* What a step may make of the projection.                                 *)

(* No task run becomes an accepted one. *)
NoneAccepted ==
  \A d \in DOMAIN runs' : runs'[d].phase = "accepted" => d \in DOMAIN runs /\ runs'[d] = runs[d]

HeadKept ==
  /\ stored'.status = stored.status
  /\ stored'.cursor = stored.cursor
  /\ stored'.revisions_used = stored.revisions_used
  /\ revised' = revised

(* Nothing, or the next stage becomes the active one. *)
Rests ==
  /\ HeadKept
  /\ \A t \in Stages :
       /\ stored'.stages[t].deliverable_id = stored.stages[t].deliverable_id
       /\ t # stored.cursor + 1 => stored'.stages[t] = stored.stages[t]
  /\ NoneAccepted
  /\ superseded \subseteq superseded'

Halts ==
  /\ stored.status = "active"
  /\ stored'.status = "paused"
  /\ stored'.cursor = stored.cursor
  /\ stored'.revisions_used = stored.revisions_used
  /\ stored'.stages = stored.stages
  /\ UNCHANGED <<runs, superseded, revised>>

(* The stage under the cursor gets deliverable d; what it had is superseded. *)
Accepts(s, d) ==
  /\ s = stored.cursor + 1
  /\ HeadKept
  /\ stored.stages[s].deliverable_id \in superseded \cup {NoDeliverable}
  /\ stored'.stages[s].deliverable_id = d
  /\ \A t \in Stages : t # s => stored'.stages[t] = stored.stages[t]
  /\ runs[d].stage = s
  /\ runs[d].phase = "decided"
  /\ runs'[d].stage = s
  /\ runs'[d].phase = "accepted"
  /\ DOMAIN runs' = DOMAIN runs
  /\ \A e \in DOMAIN runs : e # d => runs'[e] = runs[e]
  /\ UNCHANGED superseded

(* The cursor passes stage s. *)
Advances(s) ==
  /\ stored.status = "active"
  /\ s = stored.cursor + 1
  /\ stored'.cursor = s
  /\ stored'.status = IF s = NumStages THEN "completed" ELSE "active"
  /\ stored'.revisions_used = stored.revisions_used
  /\ stored.stages[s].deliverable_id \in DOMAIN runs
  /\ stored'.stages[s] = [status |-> "accepted",
                          deliverable_id |-> stored.stages[s].deliverable_id]
  /\ \A t \in Stages : t # s => stored'.stages[t] = stored.stages[t]
  /\ UNCHANGED <<runs, superseded, revised>>

(* The campaign is back at stage s, from where on everything is superseded. *)
GoesBack(s) ==
  /\ stored'.status = "active"
  /\ stored'.cursor = s - 1
  /\ stored'.revisions_used = stored.revisions_used + 1
  /\ \A t \in Stages : IF t < s
       THEN stored'.stages[t] = stored.stages[t]
       ELSE /\ stored'.stages[t] = Untouched
            /\ stored.stages[t].deliverable_id \in superseded \cup {NoDeliverable}
  /\ revised' = revised + 1
  /\ UNCHANGED <<runs, superseded>>

ProjectionStep ==
  \/ Rests
  \/ Halts
  \/ \E s \in Stages, d \in DOMAIN runs : Accepts(s, d)
  \/ \E s \in Stages : Advances(s)
  \/ \E p \in Procs, s \in Stages :
       pc[p] = "revisit" /\ mem[p].cursor = s - 1 /\ GoesBack(s)

LEMMA StoredRests ==
  ASSUME UNCHANGED <<stored, revised>>, NoneAccepted, superseded \subseteq superseded'
  PROVE  Rests
  BY DEF Rests, HeadKept

LEMMA SameRunsNoneAccepted == ASSUME UNCHANGED runs PROVE NoneAccepted
  BY DEF NoneAccepted

(* Writing to a run in progress accepts none, unless it says so. *)
LEMMA OwnRunNotAccepted ==
  ASSUME Invariant, NEW p \in Procs, HasTask(p),
         NEW r, r.phase # "accepted", runs' = [runs EXCEPT ![task[p]] = r]
  PROVE  NoneAccepted
  BY CampaignsHave DEF NoneAccepted, Owns

LEMMA PhaseNotAccepted ==
  ASSUME Invariant, NEW p \in Procs, HasTask(p), NEW ph \in Phases \ {"accepted"},
         RecordRun(p, ph)
  PROVE  NoneAccepted
<1>1. runs[task[p]] \in TaskRuns
  BY CampaignsHave DEF Owns
<1>2. PICK r : r = [runs[task[p]] EXCEPT !.phase = ph]
  OBVIOUS
<1>3. r.phase # "accepted"
  BY <1>1, <1>2 DEF TaskRuns
<1>4. runs' = [runs EXCEPT ![task[p]] = r]
  BY <1>2 DEF RecordRun
<1> QED
  BY <1>3, <1>4, OwnRunNotAccepted

-----------------------------------------------------------------------------
(* Each action keeps memory in step and makes one of these steps.          *)
Moved == MemoryInStep' /\ ProjectionStep

LEMMA StartRunMoves ==
  ASSUME OneCommand, Invariant, NEW p \in Procs, NEW w \in Workers,
         NEW n \in 1..MaxTicks, StartRun(p, w, n)
  PROVE  Moved
<1>1. pc'[p] = "tick" /\ mem'[p] = stored
  BY CampaignsHave DEF StartRun, LocalTypes
<1>2. UNCHANGED <<stored, revised, runs, superseded>>
  BY DEF StartRun, ledger
<1>3. MemoryInStep'
  BY <1>1, <1>2, TwinsInStep DEF Settled, Twins
<1> QED
  BY <1>2, <1>3, StoredRests, SameRunsNoneAccepted DEF Moved, ProjectionStep

(* What a revisit starts from. *)
LEMMA ReopenedMeans ==
  ASSUME NEW c \in Campaigns, NEW s \in Stages, NEW d, d = ReopenedAt(c, s)
  PROVE  /\ d.status = "active" /\ d.cursor = s - 1
         /\ d.revisions_used = c.revisions_used + 1
         /\ d.stages = c.stages
  BY DEF ReopenedAt, Campaigns

LEMMA StartRevisitMoves ==
  ASSUME OneCommand, Invariant, NEW p \in Procs, NEW s \in Stages, StartRevisit(p, s)
  PROVE  Moved /\ pc'[p] = "revisit" /\ mem'[p].cursor = s - 1
<1>1. pc'[p] = "revisit" /\ mem'[p] = ReopenedAt(stored, s) /\ idx'[p] = s
  BY CampaignsHave DEF StartRevisit, LocalTypes
<1>2. UNCHANGED <<stored, revised, runs, superseded>>
  BY DEF StartRevisit, ledger
<1>3. /\ mem'[p].cursor = s - 1
      /\ mem'[p].revisions_used = stored.revisions_used + 1
      /\ mem'[p].stages = stored.stages
  BY <1>1, CampaignsHave, ReopenedMeans
<1>4. ResetSoFar(p)' = {}
  BY <1>1, <1>3 DEF ResetSoFar
<1>5. RevisitInStep(p)'
  BY <1>1, <1>2, <1>3, <1>4 DEF RevisitInStep
<1>6. MemoryInStep'
  BY <1>1, <1>5 DEF MemoryInStep, OneCommand
<1> QED
  BY <1>1, <1>2, <1>3, <1>6, StoredRests, SameRunsNoneAccepted DEF Moved, ProjectionStep

(* A campaign paused in memory and committed. *)
LEMMA PausedHalts ==
  ASSUME Invariant, MemoryInStep, NEW p \in Procs, pc[p] \in Settled,
         mem[p].status = "active", stored' = [mem[p] EXCEPT !.status = "paused"],
         UNCHANGED <<runs, superseded, revised>>
  PROVE  Halts
<1>1. Twins(mem[p], stored)
  BY SettledMeans
<1>2. /\ stored'.status = "paused" /\ stored'.cursor = mem[p].cursor
      /\ stored'.revisions_used = mem[p].revisions_used
      /\ stored'.stages = mem[p].stages
  BY CampaignsHave DEF Campaigns
<1> QED
  BY <1>1, <1>2 DEF Halts, Twins

LEMMA StopAtGuardMoves ==
  ASSUME OneCommand, Invariant, MemoryInStep, NEW p \in Procs, StopAtGuard(p)
  PROVE  Moved
<1>1. MemoryInStep' /\ UNCHANGED <<runs, superseded, revised>>
  BY ExitInStep DEF StopAtGuard
<1>2. TickGuard(mem[p]) \in {"not_active", "paused"}
  <2>1. mem[p] \in Campaigns /\ Finished(mem[p])
    BY CampaignsHave DEF Good
  <2>2. mem[p].cursor >= NumStages => mem[p].status # "active"
    BY <2>1 DEF Campaigns, Finished
  <2> QED
    BY <2>2 DEF StopAtGuard, TickGuard
<1>3. CASE TickGuard(mem[p]) = "not_active"
  <2>1. UNCHANGED stored
    BY <1>3 DEF StopAtGuard, AppendIgnored
  <2> QED
    BY <1>1, <2>1, StoredRests, SameRunsNoneAccepted DEF Moved, ProjectionStep
<1>4. CASE TickGuard(mem[p]) = "paused"
  <2>1. mem[p].status = "active" /\ stored' = [mem[p] EXCEPT !.status = "paused"]
    BY <1>4 DEF StopAtGuard, AppendSnapshot, TickGuard
  <2>2. pc[p] \in Settled
    BY DEF StopAtGuard, Settled
  <2>3. Halts
    BY <1>1, <2>1, <2>2, PausedHalts
  <2> QED
    BY <1>1, <2>3 DEF Moved, ProjectionStep
<1> QED
  BY <1>2, <1>3, <1>4

LEMMA PauseCampaignMoves ==
  ASSUME OneCommand, Invariant, MemoryInStep, NEW p \in Procs, PauseCampaign(p)
  PROVE  Moved
<1>1. MemoryInStep' /\ UNCHANGED <<runs, superseded, revised>>
  BY ExitInStep DEF PauseCampaign
<1>2. pc[p] \in Settled /\ mem[p].status = "active"
  BY CampaignsHave DEF PauseCampaign, Settled, Works, HasTask, PhaseAt
<1>3. stored' = [mem[p] EXCEPT !.status = "paused"]
  BY DEF PauseCampaign, AppendSnapshot
<1>4. Halts
  BY <1>1, <1>2, <1>3, PausedHalts
<1> QED
  BY <1>1, <1>4 DEF Moved, ProjectionStep

LEMMA StartStageMoves ==
  ASSUME OneCommand, Invariant, MemoryInStep, NEW p \in Procs, StartStage(p)
  PROVE  Moved
<1>1. /\ pc[p] = "tick" /\ UNCHANGED <<runs, superseded, revised>>
      /\ Twins(mem[p], stored)
  BY SettledMeans DEF StartStage, Settled
<1>2. PICK s : s = ActiveStage(mem[p])
  OBVIOUS
<1>3. PICK st : st = [mem[p].stages[s] EXCEPT !.status = "active"]
  OBVIOUS
<1>4. PICK c : c = WithStage(mem[p], s, st)
  OBVIOUS
<1>5. c = [mem[p] EXCEPT !.stages[s].status = "active"]
  BY <1>3, <1>4 DEF WithStage
<1>6. s \in Stages /\ mem[p] \in Campaigns
  BY <1>2, CampaignsHave, GoMeans, ActiveStageIn DEF StartStage
<1>7. /\ st \in StageRecords
      /\ st.deliverable_id = mem[p].stages[s].deliverable_id
  <2>1. mem[p].stages[s] \in StageRecords
    BY <1>6 DEF Campaigns, StageRecords
  <2> QED
    BY <1>3, <2>1 DEF StageRecords, StageStatus
<1>8. /\ c.status = mem[p].status /\ c.cursor = mem[p].cursor
      /\ c.revisions_used = mem[p].revisions_used
      /\ c.stages[s] = st
      /\ \A t \in Stages : t # s => c.stages[t] = mem[p].stages[t]
  BY <1>4, <1>6, <1>7, StageReplaced
<1>9. stored' = c /\ mem'[p] = c /\ pc'[p] = "request"
  BY <1>2, <1>5, CampaignsHave DEF StartStage, AppendSnapshot, Goto, LocalTypes
<1>10. MemoryInStep'
  BY <1>9, TwinsInStep DEF Twins, Settled
<1>11. s = stored.cursor + 1
  BY <1>1, <1>2 DEF Twins, ActiveStage
<1>12. Rests
  BY <1>1, <1>7, <1>8, <1>9, <1>11, SameRunsNoneAccepted DEF Rests, HeadKept, Twins
<1> QED
  BY <1>10, <1>12 DEF Moved, ProjectionStep

LEMMA RequestTaskMoves ==
  ASSUME OneCommand, Invariant, MemoryInStep, NEW p \in Procs, RequestTask(p)
  PROVE  Moved
<1>1. pc[p] \in {"request", "tick"} /\ UNCHANGED <<stored, superseded, revised>>
  BY DEF RequestTask, AppendIgnored
<1>2. Twins(mem[p], stored)
  BY <1>1, SettledMeans DEF Settled
<1>3. PICK c : c = [mem[p] EXCEPT !.task_runs_used = mem[p].task_runs_used + 1,
                                  !.worker_cost_used = mem[p].worker_cost_used + TaskCost]
  OBVIOUS
<1>4. Twins(c, mem[p])
  BY <1>3, CampaignsHave DEF Campaigns, Twins
<1>5. mem'[p] = c /\ pc'[p] = "execute"
  BY <1>3, CampaignsHave DEF RequestTask, Goto, LocalTypes
<1>6. MemoryInStep'
  BY <1>1, <1>2, <1>4, <1>5, TwinsInStep DEF Twins, Settled
<1>7. NoneAccepted
  <2>1. PICK r : r = [stage |-> ActiveStage(mem[p]), phase |-> "requested", passed |-> FALSE,
                      verdict |-> Undecided, interruption |-> Undecided]
    OBVIOUS
  <2>2. runs' = Append(runs, r)
    BY <2>1 DEF RequestTask
  <2>3. runs \in Seq(TaskRuns)
    BY CampaignsHave
  <2> QED
    BY <2>1, <2>2, <2>3 DEF NoneAccepted
<1> QED
  BY <1>1, <1>6, <1>7, StoredRests DEF Moved, ProjectionStep

LEMMA DenyTaskMoves ==
  ASSUME OneCommand, Invariant, NEW p \in Procs, DenyTask(p) PROVE Moved
<1>1. HasTask(p) /\ RecordRun(p, "failed") /\ "failed" \in Phases \ {"accepted"}
  BY DEF DenyTask, HasTask, PhaseAt, Phases
<1>2. NoneAccepted
  BY <1>1, PhaseNotAccepted
<1>3. MemoryInStep' /\ UNCHANGED <<stored, superseded, revised>>
  BY ExitInStep DEF DenyTask, AppendIgnored
<1> QED
  BY <1>2, <1>3, StoredRests DEF Moved, ProjectionStep

LEMMA RejectDeliverableMoves ==
  ASSUME OneCommand, Invariant, NEW p \in Procs, RejectDeliverable(p) PROVE Moved
<1>1. HasTask(p) /\ RecordRun(p, "rejected") /\ "rejected" \in Phases \ {"accepted"}
  BY DEF RejectDeliverable, HasTask, PhaseAt, Phases
<1>2. NoneAccepted
  BY <1>1, PhaseNotAccepted
<1>3. MemoryInStep' /\ UNCHANGED <<stored, superseded, revised>>
  BY ExitInStep DEF RejectDeliverable, AppendIgnored
<1> QED
  BY <1>2, <1>3, StoredRests DEF Moved, ProjectionStep

LEMMA FailTaskMoves ==
  ASSUME OneCommand, Invariant, MemoryInStep, NEW p \in Procs, FailTask(p) PROVE Moved
<1>1. /\ HasTask(p) /\ RecordRun(p, "failed") /\ "failed" \in Phases \ {"accepted"}
      /\ pc[p] \in Settled
      /\ NextTick(p, mem[p]) /\ UNCHANGED <<stored, superseded, revised>>
  BY DEF FailTask, AppendIgnored, HasTask, PhaseAt, Phases, Settled
<1>2. NoneAccepted
  BY <1>1, PhaseNotAccepted
<1>3. Twins(mem[p], stored')
  BY <1>1, SettledMeans
<1>4. MemoryInStep'
  BY <1>1, <1>3, CampaignsHave, NextTickInStep
<1> QED
  BY <1>1, <1>2, <1>4, StoredRests DEF Moved, ProjectionStep

(* A step that moves the run on and leaves the campaign alone. *)
LEMMA RunMovesOnMoves ==
  ASSUME OneCommand, Invariant, MemoryInStep, NEW p \in Procs, pc[p] \in Settled,
         NEW q \in Settled, Goto(p, q), NoneAccepted,
         UNCHANGED <<stored, superseded, revised, mem>>
  PROVE  Moved
<1>1. pc'[p] \in Settled
  BY CampaignsHave DEF Goto, LocalTypes
<1>2. MemoryInStep'
  BY <1>1, SettledMeans, TwinsInStep
<1> QED
  BY <1>2, StoredRests DEF Moved, ProjectionStep

LEMMA CompleteTaskMoves ==
  ASSUME OneCommand, Invariant, MemoryInStep, NEW p \in Procs, CompleteTask(p)
  PROVE  Moved
<1>1. HasTask(p) /\ RecordRun(p, "completed") /\ "completed" \in Phases \ {"accepted"}
  BY DEF CompleteTask, HasTask, PhaseAt, Phases
<1>2. NoneAccepted
  BY <1>1, PhaseNotAccepted
<1>3. /\ pc[p] \in Settled /\ "produce" \in Settled
      /\ Goto(p, "produce") /\ UNCHANGED <<stored, superseded, revised, mem>>
  BY DEF CompleteTask, AppendIgnored, Settled
<1> QED
  BY <1>2, <1>3, RunMovesOnMoves

LEMMA ProduceDeliverableMoves ==
  ASSUME OneCommand, Invariant, MemoryInStep, NEW p \in Procs, NEW passed \in BOOLEAN,
         ProduceDeliverable(p, passed)
  PROVE  Moved
<1>1. HasTask(p) /\ runs[task[p]] \in TaskRuns
  BY CampaignsHave DEF ProduceDeliverable, HasTask, PhaseAt, Owns
<1>2. PICK r : r = [runs[task[p]] EXCEPT !.phase = "produced", !.passed = passed]
  OBVIOUS
<1>3. r.phase # "accepted" /\ runs' = [runs EXCEPT ![task[p]] = r]
  BY <1>1, <1>2 DEF ProduceDeliverable, TaskRuns
<1>4. NoneAccepted
  BY <1>1, <1>3, OwnRunNotAccepted
<1>5. /\ pc[p] \in Settled /\ "decide" \in Settled
      /\ Goto(p, "decide") /\ UNCHANGED <<stored, superseded, revised, mem>>
  BY DEF ProduceDeliverable, AppendIgnored, Settled
<1> QED
  BY <1>4, <1>5, RunMovesOnMoves

LEMMA DecideStageMoves ==
  ASSUME OneCommand, Invariant, MemoryInStep, NEW p \in Procs, DecideStage(p)
  PROVE  Moved
<1>1. HasTask(p) /\ runs[task[p]] \in TaskRuns
  BY CampaignsHave DEF DecideStage, HasTask, PhaseAt, Owns
<1>2. PICK ruling : ruling = Judge(mem[p], runs[task[p]].passed)
  OBVIOUS
<1>3. PICK r : r = [runs[task[p]] EXCEPT !.phase = "decided",
                                         !.verdict = ruling.verdict,
                                         !.interruption = ruling.interruption]
  OBVIOUS
<1>4. r.phase # "accepted"
  BY <1>1, <1>3 DEF TaskRuns
<1>5. runs' = [runs EXCEPT ![task[p]] = r]
  BY <1>2, <1>3 DEF DecideStage
<1>6. NoneAccepted
  BY <1>1, <1>4, <1>5, OwnRunNotAccepted
<1>7. /\ pc[p] \in Settled /\ "route" \in Settled
      /\ Goto(p, "route") /\ UNCHANGED <<stored, superseded, revised, mem>>
  BY DEF DecideStage, AppendIgnored, Settled
<1> QED
  BY <1>6, <1>7, RunMovesOnMoves

LEMMA SupersedeOldMoves ==
  ASSUME OneCommand, Invariant, MemoryInStep, NEW p \in Procs, SupersedeOld(p)
  PROVE  Moved
<1>1. /\ pc[p] \in Settled /\ UNCHANGED <<stored, runs, revised, mem>>
      /\ superseded' = superseded \cup {mem[p].stages[ActiveStage(mem[p])].deliverable_id}
  BY DEF SupersedeOld, AppendIgnored, Settled
<1>2. pc'[p] = "accept"
  BY CampaignsHave DEF SupersedeOld, Goto, LocalTypes
<1>3. Twins(mem[p], stored)
  BY <1>1, SettledMeans
<1>4. ActiveStage(mem[p])' = ActiveStage(mem[p])
  BY <1>1 DEF ActiveStage
<1>5. TickInStep(p)'
  BY <1>1, <1>2, <1>3, <1>4 DEF TickInStep, Twins
<1>6. MemoryInStep'
  BY <1>2, <1>5 DEF MemoryInStep, OneCommand
<1> QED
  BY <1>1, <1>6, StoredRests, SameRunsNoneAccepted DEF Moved, ProjectionStep

LEMMA AcceptDeliverableMoves ==
  ASSUME OneCommand, Invariant, MemoryInStep, NEW p \in Procs, AcceptDeliverable(p)
  PROVE  Moved /\ Accepts(ActiveStage(mem[p]), task[p]) /\ task[p] \in DOMAIN runs
<1>1. PICK s : s = ActiveStage(mem[p])
  OBVIOUS
<1>2. pc[p] \in {"accept", "route"} /\ UNCHANGED <<superseded, revised, task>>
  BY DEF AcceptDeliverable
<1>3. /\ mem[p].status = stored.status /\ mem[p].cursor = stored.cursor
      /\ mem[p].revisions_used = stored.revisions_used
      /\ \A t \in Stages : mem[p].stages[t] = stored.stages[t]
      /\ pc[p] = "accept" => mem[p].stages[s].deliverable_id \in superseded
  BY <1>1, <1>2 DEF MemoryInStep, TickInStep
<1>4. s \in Stages /\ s = stored.cursor + 1 /\ mem[p] \in Campaigns /\ stored \in Campaigns
  BY <1>1, <1>2, <1>3, CampaignsHave, ActiveStageIn
  DEF Works, HasTask, PhaseAt, ActiveStage
<1>5. stored.stages[s].deliverable_id \in superseded \cup {NoDeliverable}
  BY <1>1, <1>3, <1>4 DEF AcceptDeliverable
<1>6. /\ task[p] \in DOMAIN runs /\ task[p] \in Nat
      /\ runs[task[p]] \in TaskRuns
      /\ runs[task[p]].stage = s
      /\ runs[task[p]].phase = "decided"
  BY <1>1, <1>2, CampaignsHave DEF Owns, HasTask, PhaseAt, LocalTypes
<1>7. /\ runs'[task[p]].stage = s
      /\ runs'[task[p]].phase = "accepted"
      /\ DOMAIN runs' = DOMAIN runs
      /\ \A e \in DOMAIN runs : e # task[p] => runs'[e] = runs[e]
  <2>1. PICK r : r = [runs[task[p]] EXCEPT !.phase = "accepted"]
    OBVIOUS
  <2>2. r.stage = s /\ r.phase = "accepted"
    BY <1>6, <2>1 DEF TaskRuns
  <2>3. runs' = [runs EXCEPT ![task[p]] = r]
    BY <2>1 DEF AcceptDeliverable, RecordRun
  <2> QED
    BY <1>6, <2>2, <2>3, CampaignsHave
<1>8. /\ HeadKept
      /\ stored'.stages[s].deliverable_id = task[p]
      /\ \A t \in Stages : t # s => stored'.stages[t] = stored.stages[t]
  <2>1. PICK st : st = [stored.stages[s] EXCEPT !.deliverable_id = task[p]]
    OBVIOUS
  <2>2. stored' = WithStage(stored, s, st)
    BY <1>1, <2>1 DEF WithStage, AcceptDeliverable, AppendAccepted
  <2>3. stored.stages[s] \in StageRecords
    BY <1>4 DEF Campaigns, StageRecords
  <2>4. st \in StageRecords /\ st.deliverable_id = task[p]
    BY <1>6, <2>1, <2>3 DEF StageRecords
  <2> QED
    BY <1>2, <1>4, <2>2, <2>4, StageReplaced DEF HeadKept
<1>9. Accepts(s, task[p])
  BY <1>2, <1>4, <1>5, <1>6, <1>7, <1>8 DEF Accepts
<1>10. PICK c : c = WithStage(mem[p], s, [status |-> "accepted", deliverable_id |-> task[p]])
  OBVIOUS
<1>11. /\ c.status = mem[p].status /\ c.cursor = mem[p].cursor
       /\ c.revisions_used = mem[p].revisions_used
       /\ c.stages[s] = [status |-> "accepted", deliverable_id |-> task[p]]
       /\ \A t \in Stages : t # s => c.stages[t] = mem[p].stages[t]
  <2>1. [status |-> "accepted", deliverable_id |-> task[p]] \in StageRecords
    BY <1>6 DEF StageRecords, StageStatus
  <2> QED
    BY <1>4, <1>10, <2>1, StageReplaced
<1>12. mem'[p] = c /\ pc'[p] = "advance"
  BY <1>1, <1>10, CampaignsHave
  DEF AcceptDeliverable, AcceptedWith, WithStage, Goto, LocalTypes
<1>13. ActiveStage(mem[p])' = s
  BY <1>1, <1>11, <1>12 DEF ActiveStage
<1>14. TickInStep(p)'
  BY <1>2, <1>3, <1>8, <1>11, <1>12, <1>13 DEF TickInStep, HeadKept
<1>15. MemoryInStep'
  BY <1>12, <1>14 DEF MemoryInStep, OneCommand
<1> QED
  BY <1>1, <1>4, <1>6, <1>9, <1>15 DEF Moved, ProjectionStep

LEMMA AdvanceMoves ==
  ASSUME OneCommand, Invariant, MemoryInStep, NEW p \in Procs, Advance(p) PROVE Moved
<1>1. PICK s : s = ActiveStage(mem[p])
  OBVIOUS
<1>2. /\ pc[p] = "advance" /\ mem[p].status = "active" /\ mem[p].cursor < NumStages
      /\ mem[p] \in Campaigns /\ task[p] \in DOMAIN runs
      /\ UNCHANGED <<runs, superseded, revised>>
  BY CampaignsHave DEF Advance, Works, Owns, HasTask, PhaseAt
<1>3. s \in Stages /\ s = mem[p].cursor + 1
  BY <1>1, <1>2, ActiveStageIn DEF ActiveStage
<1>4. TickInStep(p)
  BY <1>2 DEF MemoryInStep
<1>5. PICK past \in 0..NumStages : past = mem[p].cursor + 1
  BY <1>2 DEF Campaigns
<1>6. PICK st \in CampaignStatus :
        st = IF past >= NumStages THEN "completed" ELSE "active"
  BY DEF CampaignStatus
<1>7. PICK c : c = [mem[p] EXCEPT !.cursor = past, !.status = st]
  OBVIOUS
<1>8. /\ c \in Campaigns /\ c.stages = mem[p].stages
      /\ c.status = st /\ c.cursor = past
      /\ c.revisions_used = mem[p].revisions_used
  BY <1>2, <1>7 DEF Campaigns
<1>9. c = Advanced(mem[p])
  BY <1>2, <1>5, <1>6, <1>7 DEF Advanced
<1>10. stored' = c
  BY <1>9 DEF Advance, AppendSnapshot
<1>11. MemoryInStep'
  <2>1. Twins(c, stored')
    BY <1>10 DEF Twins
  <2>2. Exit(p) \/ NextTick(p, c)
    BY <1>9 DEF Advance
  <2> QED
    BY <1>8, <2>1, <2>2, ExitInStep, NextTickInStep
<1>12. Advances(s)
  <2>1. past >= NumStages <=> s = NumStages
    BY <1>3, <1>5
  <2>2. /\ stored.status = "active" /\ s = stored.cursor + 1
        /\ stored'.cursor = s
        /\ stored'.status = IF s = NumStages THEN "completed" ELSE "active"
        /\ stored'.revisions_used = stored.revisions_used
    BY <1>2, <1>3, <1>4, <1>5, <1>6, <1>8, <1>10, <2>1 DEF TickInStep
  <2>3. /\ stored.stages[s].deliverable_id = task[p]
        /\ stored'.stages[s] = [status |-> "accepted", deliverable_id |-> task[p]]
        /\ \A t \in Stages : t # s => stored'.stages[t] = stored.stages[t]
    <3>1. \A t \in Stages :
            IF t = s
            THEN /\ mem[p].stages[t] = [status |-> "accepted", deliverable_id |-> task[p]]
                 /\ stored.stages[t].deliverable_id = task[p]
            ELSE mem[p].stages[t] = stored.stages[t]
      BY <1>1, <1>2, <1>4 DEF TickInStep
    <3>2. stored'.stages = mem[p].stages
      BY <1>8, <1>10
    <3> QED
      BY <1>3, <3>1, <3>2
  <2> QED
    BY <1>2, <2>2, <2>3 DEF Advances
<1> QED
  BY <1>3, <1>11, <1>12 DEF Moved, ProjectionStep

(* What one more stage reset makes of a revisit. *)
LEMMA RevisitStageDoes ==
  ASSUME Invariant, MemoryInStep, NEW p \in Procs, RevisitStage(p)
  PROVE  /\ idx[p] \in Stages
         /\ pc[p] = "revisit" /\ pc'[p] = "revisit"
         /\ UNCHANGED <<stored, runs, revised>>
         /\ mem'[p].cursor = mem[p].cursor
         /\ mem'[p].revisions_used = mem[p].revisions_used
         /\ mem'[p].stages[idx[p]] = Untouched
         /\ \A t \in Stages : t # idx[p] => mem'[p].stages[t] = mem[p].stages[t]
         /\ idx'[p] = idx[p] + 1
         /\ superseded' = SupersededWith(mem[p].stages[idx[p]].deliverable_id)
<1>1. pc[p] = "revisit" /\ UNCHANGED <<stored, runs, revised, pc>>
  BY DEF RevisitStage, AppendIgnored
<1>2. idx[p] \in Stages /\ mem[p] \in Campaigns
  BY <1>1, CampaignsHave DEF Works, RevisitStage
<1>3. PICK c : c = WithStage(mem[p], idx[p], Untouched)
  OBVIOUS
<1>4. Untouched \in StageRecords
  BY DEF Untouched, StageRecords, StageStatus
<1>5. /\ c.cursor = mem[p].cursor
      /\ c.revisions_used = mem[p].revisions_used
      /\ c.stages[idx[p]] = Untouched
      /\ \A t \in Stages : t # idx[p] => c.stages[t] = mem[p].stages[t]
  BY <1>2, <1>3, <1>4, StageReplaced
<1>6. mem' = [mem EXCEPT ![p] = c] /\ idx' = [idx EXCEPT ![p] = idx[p] + 1]
  BY <1>3 DEF RevisitStage, Reset, Untouched, WithStage
<1>7. mem'[p] = c /\ idx'[p] = idx[p] + 1
  BY <1>6, CampaignsHave DEF LocalTypes
<1> QED
  BY <1>1, <1>2, <1>5, <1>7 DEF RevisitStage

LEMMA RevisitStageMoves ==
  ASSUME OneCommand, Invariant, MemoryInStep, NEW p \in Procs, RevisitStage(p)
  PROVE  Moved
<1>1. /\ pc[p] = "revisit" /\ pc'[p] = "revisit" /\ idx[p] \in Stages
      /\ UNCHANGED <<stored, runs, revised>>
      /\ superseded' = SupersededWith(mem[p].stages[idx[p]].deliverable_id)
  BY RevisitStageDoes
<1>2. RevisitInStep(p)
  BY <1>1 DEF MemoryInStep
<1>3. superseded \subseteq superseded'
  BY <1>1 DEF SupersededWith
<1>4. mem'[p].revisions_used = stored'.revisions_used + 1 /\ mem'[p].cursor < idx'[p]
  <2>1. mem[p].cursor \in Nat /\ idx[p] \in Nat
    BY <1>1, CampaignsHave DEF Campaigns
  <2> QED
    BY <1>1, <1>2, <2>1, RevisitStageDoes DEF RevisitInStep
<1>5. ASSUME NEW s \in Stages
      PROVE  IF s \in ResetSoFar(p)'
             THEN /\ mem'[p].stages[s] = Untouched
                  /\ stored'.stages[s].deliverable_id \in superseded' \cup {NoDeliverable}
             ELSE mem'[p].stages[s] = stored'.stages[s]
  <2>1. mem[p].cursor \in Nat /\ idx[p] \in Nat /\ mem[p].cursor < idx[p]
    <3>1. mem[p].cursor \in Nat /\ idx[p] \in Nat
      BY <1>1, CampaignsHave DEF Campaigns
    <3> QED
      BY <1>2, <3>1 DEF RevisitInStep
  <2>2. s \in ResetSoFar(p)' <=> s \in ResetSoFar(p) \/ s = idx[p]
    BY <1>1, <2>1, RevisitStageDoes DEF ResetSoFar
  <2>3. idx[p] \notin ResetSoFar(p)
    BY <2>1 DEF ResetSoFar
  <2>4. CASE s = idx[p]
    <3>1. mem[p].stages[s] = stored.stages[s]
      BY <1>2, <2>3, <2>4 DEF RevisitInStep
    <3> QED
      BY <1>1, <2>2, <2>4, <3>1, RevisitStageDoes DEF SupersededWith
  <2>5. CASE s # idx[p]
    BY <1>1, <1>2, <1>3, <2>2, <2>5, RevisitStageDoes DEF RevisitInStep
  <2> QED
    BY <2>4, <2>5
<1>6. MemoryInStep'
  BY <1>1, <1>4, <1>5 DEF RevisitInStep, MemoryInStep, OneCommand
<1> QED
  BY <1>1, <1>3, <1>6, StoredRests, SameRunsNoneAccepted DEF Moved, ProjectionStep

LEMMA FinishRevisitMoves ==
  ASSUME OneCommand, Invariant, MemoryInStep, NEW p \in Procs, FinishRevisit(p)
  PROVE  Moved
<1>1. /\ pc[p] = "revisit" /\ idx[p] > NumStages /\ stored' = mem[p]
      /\ revised' = revised + 1 /\ UNCHANGED <<runs, superseded>>
      /\ MemoryInStep'
  BY ExitInStep DEF FinishRevisit, AppendSnapshot
<1>2. /\ mem[p] \in Campaigns /\ mem[p].status = "active" /\ mem[p].cursor < NumStages
      /\ idx[p] \in Nat
  BY <1>1, CampaignsHave DEF Works, LocalTypes
<1>3. RevisitInStep(p)
  BY <1>1 DEF MemoryInStep
<1>4. PICK s \in Stages : s = mem[p].cursor + 1
  BY <1>2 DEF Campaigns
<1>5. mem[p].cursor = s - 1
  BY <1>2, <1>4 DEF Campaigns
<1>6. \A t \in Stages : t \in ResetSoFar(p) <=> ~(t < s)
  BY <1>1, <1>2, <1>5 DEF ResetSoFar
<1>7. GoesBack(s)
  BY <1>1, <1>2, <1>3, <1>5, <1>6 DEF GoesBack, RevisitInStep
<1> QED
  BY <1>1, <1>5, <1>7 DEF Moved, ProjectionStep

LEMMA CrashMoves ==
  ASSUME OneCommand, Invariant, NEW p \in Procs, Crash(p) PROVE Moved
<1>1. MemoryInStep' /\ UNCHANGED <<stored, runs, superseded, revised>>
  BY ExitInStep DEF Crash, ledger
<1> QED
  BY <1>1, StoredRests, SameRunsNoneAccepted DEF Moved, ProjectionStep

(* Nobody creates the campaign again. *)
LEMMA NoCreate == ASSUME OneCommand, Invariant PROVE ~CreateAgain
<1>1. used.creates \in Nat /\ MaxCreates = 0
  BY DEF Invariant, TypeOK, OneCommand
<1> QED
  BY <1>1 DEF CreateAgain

LEMMA StutterMoves == ASSUME MemoryInStep, UNCHANGED vars PROVE Moved
<1>1. UNCHANGED <<stored, runs, superseded, revised, pc, mem, task, idx>>
  BY DEF vars, ledger, local
<1>2. MemoryInStep'
  BY <1>1 DEF MemoryInStep, TickInStep, RevisitInStep, ResetSoFar, ActiveStage
<1> QED
  BY <1>1, <1>2, StoredRests, SameRunsNoneAccepted DEF Moved, ProjectionStep

LEMMA StepMoves ==
  ASSUME OneCommand, Invariant, MemoryInStep, [Next]_vars PROVE Moved
<1>1. CASE UNCHANGED vars
  BY <1>1, StutterMoves
<1>2. CASE CreateAgain
  BY <1>2, NoCreate
<1>3. ASSUME NEW p \in Procs, NEW w \in Workers, NEW n \in 1..MaxTicks, StartRun(p, w, n)
      PROVE  Moved
  BY <1>3, StartRunMoves
<1>4. ASSUME NEW p \in Procs, NEW s \in Stages, StartRevisit(p, s) PROVE Moved
  BY <1>4, StartRevisitMoves
<1>5. ASSUME NEW p \in Procs, Tick(p) PROVE Moved
  BY <1>5, StopAtGuardMoves, StartStageMoves, RequestTaskMoves, DenyTaskMoves,
     FailTaskMoves, CompleteTaskMoves, ProduceDeliverableMoves, DecideStageMoves,
     PauseCampaignMoves, RejectDeliverableMoves, SupersedeOldMoves,
     AcceptDeliverableMoves, AdvanceMoves DEF Tick
<1>6. ASSUME NEW p \in Procs, Revisit(p) \/ Crash(p) PROVE Moved
  BY <1>6, RevisitStageMoves, FinishRevisitMoves, CrashMoves DEF Revisit
<1> QED
  BY <1>1, <1>2, <1>3, <1>4, <1>5, <1>6 DEF Next

-----------------------------------------------------------------------------
(* The theorems.                                                           *)

(* With one command at a time, its memory is always in step with the       *)
(* ledger (Campaign!MemoryInStep), also after a crash.                     *)
THEOREM InStep == ASSUME OneCommand PROVE Spec => []MemoryInStep
<1>1. Init => MemoryInStep
  BY DEF Init, MemoryInStep
<1>2. Invariant /\ MemoryInStep /\ [Next]_vars => MemoryInStep'
  BY StepMoves DEF Moved
<1> QED
  BY <1>1, <1>2, Safety, PTL DEF Spec

(* and the projection moves in one of the five ways of ProjectionStep.     *)
LEMMA ProjectionMoves == ASSUME OneCommand PROVE Spec => [][ProjectionStep]_vars
<1>1. Invariant /\ MemoryInStep /\ [Next]_vars => [ProjectionStep]_vars
  BY StepMoves DEF Moved
<1> QED
  BY <1>1, InStep, Safety, PTL DEF Spec

(* An accepted run nothing has superseded is one the step found so, unless *)
(* it is the one accepted.                                                 *)
LEMMA LiveBefore ==
  ASSUME NoneAccepted, superseded \subseteq superseded', NEW d \in DOMAIN runs', Live(d)'
  PROVE  d \in DOMAIN runs /\ Live(d) /\ runs'[d] = runs[d]
  BY DEF NoneAccepted, Live

LEMMA LiveStaysReferenced ==
  ASSUME Invariant, LiveIsReferenced, ProjectionStep
  PROVE  LiveIsReferenced'
<1> SUFFICES ASSUME NEW d \in DOMAIN runs', Live(d)'
             PROVE  stored'.stages[runs'[d].stage].deliverable_id = d
  BY DEF LiveIsReferenced
<1>1. /\ \A e \in DOMAIN runs : runs[e].stage \in Stages /\ e # NoDeliverable
      /\ \A e \in DOMAIN runs : Live(e) => stored.stages[runs[e].stage].deliverable_id = e
  <2>1. \A e \in DOMAIN runs : runs[e] \in TaskRuns /\ e # NoDeliverable
    BY CampaignsHave
  <2> QED
    BY <2>1 DEF LiveIsReferenced, TaskRuns
<1>2. CASE Rests
  BY <1>1, <1>2, LiveBefore DEF Rests
<1>3. CASE Halts
  BY <1>1, <1>3, LiveBefore, SameRunsNoneAccepted DEF Halts
<1>4. ASSUME NEW s \in Stages, NEW a \in DOMAIN runs, Accepts(s, a)
      PROVE  stored'.stages[runs'[d].stage].deliverable_id = d
  <2>1. CASE d = a
    BY <1>4, <2>1 DEF Accepts
  <2>2. CASE d # a
    <3>1. d \in DOMAIN runs /\ runs'[d] = runs[d] /\ Live(d)
      BY <1>4, <2>2 DEF Accepts, Live
    <3>2. stored.stages[runs[d].stage].deliverable_id = d
      BY <1>1, <3>1
    <3>3. runs[d].stage # s
      BY <1>1, <1>4, <3>1, <3>2 DEF Accepts, Live
    <3> QED
      BY <1>1, <1>4, <3>1, <3>2, <3>3 DEF Accepts
  <2> QED
    BY <2>1, <2>2
<1>5. ASSUME NEW s \in Stages, Advances(s)
      PROVE  stored'.stages[runs'[d].stage].deliverable_id = d
  <2>1. \A t \in Stages : stored'.stages[t].deliverable_id = stored.stages[t].deliverable_id
    BY <1>5 DEF Advances
  <2>2. d \in DOMAIN runs /\ Live(d) /\ runs'[d] = runs[d]
    BY <1>5, LiveBefore, SameRunsNoneAccepted DEF Advances
  <2> QED
    BY <1>1, <2>1, <2>2
<1>6. ASSUME NEW s \in Stages, GoesBack(s)
      PROVE  stored'.stages[runs'[d].stage].deliverable_id = d
  <2>1. d \in DOMAIN runs /\ Live(d) /\ runs'[d] = runs[d]
    BY <1>6, LiveBefore, SameRunsNoneAccepted DEF GoesBack
  <2>2. stored.stages[runs[d].stage].deliverable_id \notin superseded \cup {NoDeliverable}
    BY <1>1, <2>1 DEF Live
  <2> QED
    BY <1>1, <1>6, <2>1, <2>2 DEF GoesBack
<1> QED
  BY <1>2, <1>3, <1>4, <1>5, <1>6 DEF ProjectionStep

(* A live deliverable is never lost: the projection refers to it.          *)
THEOREM LiveReferenced == ASSUME OneCommand PROVE Spec => []LiveIsReferenced
<1>1. Init => LiveIsReferenced
  BY DEF Init, LiveIsReferenced
<1>2. Invariant /\ MemoryInStep /\ LiveIsReferenced /\ [Next]_vars => LiveIsReferenced'
  BY StepMoves, LiveStaysReferenced DEF Moved
<1> QED
  BY <1>1, <1>2, InStep, Safety, PTL DEF Spec

(* At most one deliverable of a stage is live. *)
THEOREM OneLive == ASSUME OneCommand PROVE Spec => []OneLivePerStage
<1>1. LiveIsReferenced => OneLivePerStage
  BY DEF LiveIsReferenced, OneLivePerStage
<1> QED
  BY <1>1, LiveReferenced, PTL

-----------------------------------------------------------------------------
(* The frontier: users revisit only what the cursor has reached.           *)

(* A revisit under way goes back from where the projection still is.       *)
Behind == \A p \in Procs : pc[p] = "revisit" => mem[p].cursor <= stored.cursor

LEMMA TickIsNoRevisit ==
  ASSUME Invariant, NEW p \in Procs, Tick(p) PROVE pc'[p] # "revisit"
<1>1. \E q \in PCs \ {"revisit"} : pc' = [pc EXCEPT ![p] = q]
  BY DEF Tick, StopAtGuard, StartStage, RequestTask, DenyTask, FailTask, CompleteTask,
         ProduceDeliverable, DecideStage, PauseCampaign, RejectDeliverable, SupersedeOld,
         AcceptDeliverable, Advance, Exit, NextTick, Goto, PCs
<1> QED
  BY <1>1, CampaignsHave DEF LocalTypes

LEMMA BehindKept ==
  ASSUME OneCommand, ~ForwardRevisits, Invariant, MemoryInStep, Behind, [Next]_vars
  PROVE  Behind'
<1> SUFFICES ASSUME NEW p \in Procs, pc'[p] = "revisit"
             PROVE  mem'[p].cursor <= stored'.cursor
  BY DEF Behind
<1>1. CASE UNCHANGED vars
  BY <1>1 DEF Behind, vars, ledger, local
<1>2. CASE CreateAgain
  BY <1>2, NoCreate
<1>3. ASSUME NEW s \in Stages, StartRevisit(p, s)
      PROVE  mem'[p].cursor <= stored'.cursor
  <2>1. s <= stored.cursor + 1 /\ UNCHANGED stored
    BY <1>3 DEF StartRevisit, ActiveStage, ledger
  <2>2. mem'[p].cursor = s - 1
    BY <1>3, StartRevisitMoves
  <2>3. stored.cursor \in Nat
    BY CampaignsHave DEF Campaigns
  <2> QED
    BY <2>1, <2>2, <2>3
<1>4. CASE RevisitStage(p)
  BY <1>4, RevisitStageDoes DEF Behind
<1>5. CASE \/ \E w \in Workers, n \in 1..MaxTicks : StartRun(p, w, n)
           \/ FinishRevisit(p) \/ Crash(p)
  <2>1. \E q \in {"tick", "idle"} : pc' = [pc EXCEPT ![p] = q]
    BY <1>5 DEF StartRun, FinishRevisit, Crash, Exit
  <2> QED
    BY <2>1, CampaignsHave DEF LocalTypes
<1>6. CASE Tick(p)
  BY <1>6, TickIsNoRevisit
<1>7. \A q \in Procs : q = p
  BY DEF OneCommand
<1> QED
  BY <1>1, <1>2, <1>3, <1>4, <1>5, <1>6, <1>7 DEF Next, Revisit

LEMMA FrontierKept ==
  ASSUME Invariant, Behind, Frontier, ProjectionStep
  PROVE  Frontier'
<1>1. stored.cursor \in Nat /\ \A d \in DOMAIN runs : d # NoDeliverable
  BY CampaignsHave DEF Campaigns
<1> SUFFICES ASSUME NEW t \in Stages
             PROVE  /\ t <= stored'.cursor => /\ stored'.stages[t].status = "accepted"
                                              /\ stored'.stages[t].deliverable_id # NoDeliverable
                    /\ t > stored'.cursor + 1 => stored'.stages[t] = Untouched
  BY DEF Frontier, Untouched
<1>2. /\ t <= stored.cursor => /\ stored.stages[t].status = "accepted"
                               /\ stored.stages[t].deliverable_id # NoDeliverable
      /\ t > stored.cursor + 1 => stored.stages[t] = Untouched
  BY DEF Frontier
<1>3. CASE Rests
  BY <1>1, <1>2, <1>3 DEF Rests, HeadKept
<1>4. CASE Halts
  BY <1>2, <1>4 DEF Halts
<1>5. CASE \E s \in Stages, d \in DOMAIN runs : Accepts(s, d)
  BY <1>1, <1>2, <1>5 DEF Accepts, HeadKept
<1>6. CASE \E s \in Stages : Advances(s)
  BY <1>1, <1>2, <1>6 DEF Advances
<1>7. ASSUME NEW p \in Procs, NEW s \in Stages,
             pc[p] = "revisit", mem[p].cursor = s - 1, GoesBack(s)
      PROVE  /\ t <= stored'.cursor => /\ stored'.stages[t].status = "accepted"
                                       /\ stored'.stages[t].deliverable_id # NoDeliverable
             /\ t > stored'.cursor + 1 => stored'.stages[t] = Untouched
  <2>1. s - 1 <= stored.cursor
    BY <1>7 DEF Behind
  <2> QED
    BY <1>1, <1>2, <1>7, <2>1 DEF GoesBack
<1> QED
  BY <1>3, <1>4, <1>5, <1>6, <1>7 DEF ProjectionStep

LEMMA BehindAndFrontier ==
  ASSUME OneCommand, ~ForwardRevisits PROVE Spec => [](Behind /\ Frontier)
<1>1. Init => Behind /\ Frontier
  BY DEF Init, Behind, Frontier, FreshCampaign, Untouched
<1>2. Invariant /\ MemoryInStep /\ (Behind /\ Frontier) /\ [Next]_vars => (Behind /\ Frontier)'
  BY StepMoves, BehindKept, FrontierKept DEF Moved
<1> QED
  BY <1>1, <1>2, InStep, Safety, PTL DEF Spec

(* Every stage before the cursor of the projection is accepted and has a   *)
(* deliverable, every stage after it is untouched.                         *)
THEOREM FrontierHolds == ASSUME OneCommand, ~ForwardRevisits PROVE Spec => []Frontier
  BY BehindAndFrontier, PTL

-----------------------------------------------------------------------------
(* Commands that run to their end leave no reference to what they          *)
(* superseded.                                                             *)

(* d is live after the step. *)
LiveNext(d) == d \in DOMAIN runs' /\ runs'[d].phase = "accepted" /\ d \notin superseded'

(* An accepted run stays as it is. *)
LEMMA AcceptedStays ==
  ASSUME Invariant, StoryStep, NEW d \in DOMAIN runs, runs[d].phase = "accepted"
  PROVE  d \in DOMAIN runs' /\ runs'[d].phase = "accepted"
<1>1. NextPhases[runs[d].phase] = {}
  BY DEF NextPhases
<1> QED
  BY <1>1 DEF StoryStep, Continues

(* References stay live if a step of p drops what it supersedes, and has   *)
(* replaced what it no longer drops.                                       *)
LEMMA LiveKept ==
  ASSUME OneCommand, Invariant, NoneDangling, StoryStep, NEW p \in Procs,
         \A s \in Stages : Dropping(p, s) =>
           LET d == stored'.stages[s].deliverable_id IN
           Dropping(p, s)' \/ d = NoDeliverable \/ LiveNext(d),
         \A s \in Stages : LET d == stored.stages[s].deliverable_id IN
           d \in superseded' \ superseded => Dropping(p, s)',
         \A s \in Stages : LET d == stored'.stages[s].deliverable_id IN
           d \in {NoDeliverable, stored.stages[s].deliverable_id} \/ LiveNext(d)
  PROVE  NoneDangling'
<1> SUFFICES ASSUME NEW s \in Stages, NEW d, d = stored'.stages[s].deliverable_id,
                    d # NoDeliverable, ~LiveNext(d)
             PROVE  Dropping(p, s)'
  BY DEF NoneDangling, Live, LiveNext
<1>1. d = stored.stages[s].deliverable_id
  OBVIOUS
<1>2. CASE Live(d)
  <2>1. d \in DOMAIN runs' /\ runs'[d].phase = "accepted"
    BY <1>2, AcceptedStays DEF Live
  <2> QED
    BY <1>1, <1>2, <2>1 DEF Live, LiveNext
<1>3. CASE ~Live(d)
  <2>1. \E q \in Procs : Dropping(q, s)
    BY <1>1, <1>3 DEF NoneDangling
  <2>2. Dropping(p, s)
    BY <2>1 DEF OneCommand
  <2> QED
    BY <2>2
<1> QED
  BY <1>2, <1>3

(* What a step of ProjectionStep makes of the references. *)
LEMMA ReferencesMove ==
  ASSUME Invariant, ProjectionStep, NEW s \in Stages,
         NEW d, d = stored'.stages[s].deliverable_id
  PROVE  d \in {NoDeliverable, stored.stages[s].deliverable_id} \/ LiveNext(d)
<1>1. CASE Rests
  BY <1>1 DEF Rests
<1>2. CASE Halts
  BY <1>2 DEF Halts
<1>3. ASSUME NEW t \in Stages, NEW e \in DOMAIN runs, Accepts(t, e)
      PROVE  d = stored.stages[s].deliverable_id \/ LiveNext(d)
  <2>1. e \notin superseded
    BY <1>3, Regroup DEF Accepts, Regrouped, LedgerSound
  <2>2. s = t => LiveNext(d)
    BY <1>3, <2>1 DEF Accepts, LiveNext
  <2> QED
    BY <1>3, <2>2 DEF Accepts
<1>4. CASE \E t \in Stages : Advances(t)
  BY <1>4 DEF Advances
<1>5. CASE \E t \in Stages : GoesBack(t)
  <2>1. PICK t \in Stages : GoesBack(t)
    BY <1>5
  <2>2. d = NoDeliverable \/ d = stored.stages[s].deliverable_id
    BY <2>1 DEF GoesBack, Untouched
  <2> QED
    BY <2>2
<1> QED
  BY <1>1, <1>2, <1>3, <1>4, <1>5 DEF ProjectionStep

(* A step from where nothing is being dropped, which supersedes nothing.   *)
LEMMA QuietKeepsLive ==
  ASSUME OneCommand, Invariant, NoneDangling, StoryStep, ProjectionStep,
         NEW p \in Procs, pc[p] \notin {"accept", "revisit"}, UNCHANGED superseded
  PROVE  NoneDangling'
<1>1. \A s \in Stages : ~Dropping(p, s)
  BY DEF Dropping
<1> QED
  BY <1>1, ReferencesMove, LiveKept

LEMMA SupersedeOldKeepsLive ==
  ASSUME OneCommand, Invariant, MemoryInStep, NoneDangling, StoryStep, ProjectionStep,
         NEW p \in Procs, SupersedeOld(p)
  PROVE  NoneDangling'
<1>1. PICK a : a = ActiveStage(mem[p])
  OBVIOUS
<1>2. /\ pc[p] = "route" /\ UNCHANGED <<stored, mem>>
      /\ superseded' = superseded \cup {mem[p].stages[a].deliverable_id}
      /\ mem[p].stages[a].deliverable_id # NoDeliverable
  BY <1>1 DEF SupersedeOld, AppendIgnored
<1>3. pc'[p] = "accept" /\ ActiveStage(mem[p])' = a
  BY <1>1, <1>2, CampaignsHave DEF SupersedeOld, Goto, LocalTypes, ActiveStage
<1>4. a \in Stages
  BY <1>1, <1>2, CampaignsHave, ActiveStageIn DEF Works, HasTask, PhaseAt
<1>5. mem[p].stages[a].deliverable_id = stored.stages[a].deliverable_id
  BY <1>2, SettledMeans DEF Settled, Twins
<1>6. ASSUME NEW s \in Stages,
             stored.stages[s].deliverable_id \in superseded' \ superseded
      PROVE  Dropping(p, s)'
  <2>1. stored.stages[s].deliverable_id = stored.stages[a].deliverable_id
    BY <1>2, <1>5, <1>6
  <2>2. s = a
    BY <1>2, <1>4, <1>5, <2>1, CampaignsHave DEF Good, Refers
  <2> QED
    BY <1>3, <2>2 DEF Dropping
<1>7. \A s \in Stages : ~Dropping(p, s)
  BY <1>2 DEF Dropping
<1> QED
  BY <1>6, <1>7, ReferencesMove, LiveKept

LEMMA AcceptKeepsLive ==
  ASSUME OneCommand, Invariant, MemoryInStep, NoneDangling, StoryStep, ProjectionStep,
         NEW p \in Procs, AcceptDeliverable(p)
  PROVE  NoneDangling'
<1>1. PICK a : a = ActiveStage(mem[p])
  OBVIOUS
<1>2. Accepts(a, task[p]) /\ task[p] \in DOMAIN runs
  BY <1>1, AcceptDeliverableMoves
<1>3. task[p] \notin superseded
  BY <1>2, Regroup DEF Accepts, Regrouped, LedgerSound
<1>4. LiveNext(stored'.stages[a].deliverable_id)
  BY <1>2, <1>3 DEF Accepts, LiveNext
<1>5. \A s \in Stages : Dropping(p, s) => s = a
  BY <1>1 DEF Dropping, AcceptDeliverable
<1>6. UNCHANGED superseded
  BY DEF AcceptDeliverable
<1> QED
  BY <1>4, <1>5, <1>6, ReferencesMove, LiveKept

LEMMA RevisitStageKeepsLive ==
  ASSUME OneCommand, Invariant, MemoryInStep, NoneDangling, StoryStep, ProjectionStep,
         NEW p \in Procs, RevisitStage(p)
  PROVE  NoneDangling'
<1>1. PICK a : a = idx[p]
  OBVIOUS
<1>2. /\ pc[p] = "revisit" /\ pc'[p] = "revisit" /\ a \in Stages
      /\ UNCHANGED stored
      /\ superseded' = SupersededWith(mem[p].stages[a].deliverable_id)
      /\ mem'[p].cursor = mem[p].cursor /\ idx'[p] = a + 1
  BY <1>1, RevisitStageDoes
<1>3. RevisitInStep(p) /\ mem[p].cursor \in Nat
  BY <1>2, CampaignsHave DEF MemoryInStep, Campaigns
<1>4. ResetSoFar(p)' = ResetSoFar(p) \cup {a}
  BY <1>1, <1>2, <1>3 DEF ResetSoFar, RevisitInStep
<1>5. mem[p].stages[a].deliverable_id = stored.stages[a].deliverable_id
  BY <1>1, <1>2, <1>3 DEF RevisitInStep, ResetSoFar
<1>6. ASSUME NEW s \in Stages,
             stored.stages[s].deliverable_id \in superseded' \ superseded
      PROVE  Dropping(p, s)'
  <2>1. /\ stored.stages[s].deliverable_id = stored.stages[a].deliverable_id
        /\ stored.stages[s].deliverable_id # NoDeliverable
    BY <1>2, <1>5, <1>6 DEF SupersededWith
  <2>2. s = a
    BY <1>2, <2>1, CampaignsHave DEF Good, Refers
  <2> QED
    BY <1>2, <1>4, <2>2 DEF Dropping
<1>7. \A s \in Stages : Dropping(p, s) => Dropping(p, s)'
  BY <1>2, <1>4 DEF Dropping
<1> QED
  BY <1>6, <1>7, ReferencesMove, LiveKept

LEMMA FinishRevisitKeepsLive ==
  ASSUME OneCommand, Invariant, MemoryInStep, NoneDangling, StoryStep, ProjectionStep,
         NEW p \in Procs, FinishRevisit(p)
  PROVE  NoneDangling'
<1>1. pc[p] = "revisit" /\ stored' = mem[p] /\ UNCHANGED superseded
  BY DEF FinishRevisit, AppendSnapshot
<1>2. \A s \in ResetSoFar(p) : mem[p].stages[s] = Untouched
  BY <1>1 DEF MemoryInStep, RevisitInStep, ResetSoFar
<1>3. \A s \in Stages : Dropping(p, s) =>
        stored'.stages[s].deliverable_id = NoDeliverable
  BY <1>1, <1>2 DEF Dropping, Untouched
<1> QED
  BY <1>1, <1>3, ReferencesMove, LiveKept

(* Deaths are counted, and never forgotten.                                *)
LEMMA DeathsCount ==
  ASSUME TypeOK, [Next]_vars, used'.crashes = 0
  PROVE  used.crashes = 0 /\ \A p \in Procs : ~Crash(p)
<1>1. used \in [commands : Nat, creates : Nat, crashes : Nat]
  BY DEF TypeOK
<1>2. ASSUME NEW p \in Procs PROVE ~Crash(p)
  BY <1>1 DEF Crash
<1>3. used'.crashes = used.crashes
  <2>1. CASE UNCHANGED used
    BY <2>1
  <2>2. CASE CreateAgain
    BY <1>1, <2>2 DEF CreateAgain
  <2>3. ASSUME NEW p \in Procs,
               \/ \E w \in Workers, n \in 1..MaxTicks : StartRun(p, w, n)
               \/ \E s \in Stages : StartRevisit(p, s)
        PROVE  used'.crashes = used.crashes
    BY <1>1, <2>3 DEF StartRun, StartRevisit, UseCommand
  <2>4. ASSUME NEW p \in Procs, Tick(p) \/ Revisit(p)
        PROVE  UNCHANGED used
    BY <2>4 DEF Tick, StopAtGuard, StartStage, RequestTask, DenyTask, FailTask, CompleteTask,
       ProduceDeliverable, DecideStage, PauseCampaign, RejectDeliverable, SupersedeOld,
       AcceptDeliverable, Advance, Revisit, RevisitStage, FinishRevisit
  <2> QED
    BY <1>2, <2>1, <2>2, <2>3, <2>4 DEF Next, vars
<1> QED
  BY <1>2, <1>3

LEMMA NextKeepsLive ==
  ASSUME OneCommand, Invariant, MemoryInStep, NoneDangling, [Next]_vars,
         \A p \in Procs : ~Crash(p)
  PROVE  NoneDangling'
<1>1. StoryStep
  BY StepContinues
<1>2. ProjectionStep
  BY StepMoves DEF Moved
<1>3. CASE UNCHANGED vars
  BY <1>3 DEF NoneDangling, Live, Dropping, ResetSoFar, ActiveStage, vars, ledger, local
<1>4. CASE CreateAgain
  BY <1>4, NoCreate
<1>5. ASSUME NEW p \in Procs,
             \/ \E w \in Workers, n \in 1..MaxTicks : StartRun(p, w, n)
             \/ \E s \in Stages : StartRevisit(p, s)
      PROVE  NoneDangling'
  <2>1. pc[p] \notin {"accept", "revisit"} /\ UNCHANGED superseded
    BY <1>5 DEF StartRun, StartRevisit, ledger
  <2> QED
    BY <1>1, <1>2, <2>1, QuietKeepsLive
<1>6. ASSUME NEW p \in Procs, Tick(p), ~SupersedeOld(p), ~AcceptDeliverable(p)
      PROVE  NoneDangling'
  <2>1. pc[p] \notin {"accept", "revisit"} /\ UNCHANGED superseded
    BY <1>6 DEF Tick, StopAtGuard, StartStage, RequestTask, DenyTask, FailTask,
       CompleteTask, ProduceDeliverable, DecideStage, PauseCampaign, RejectDeliverable,
       Advance
  <2> QED
    BY <1>1, <1>2, <2>1, QuietKeepsLive
<1>7. ASSUME NEW p \in Procs, SupersedeOld(p) \/ AcceptDeliverable(p) \/ Revisit(p)
      PROVE  NoneDangling'
  BY <1>1, <1>2, <1>7, SupersedeOldKeepsLive, AcceptKeepsLive, RevisitStageKeepsLive,
     FinishRevisitKeepsLive DEF Revisit
<1> QED
  BY <1>3, <1>4, <1>5, <1>6, <1>7 DEF Next

(* As long as no command has died, whatever the campaign refers to is      *)
(* live, but for what the command is dropping.                             *)
THEOREM ReferencesStayLive ==
  ASSUME OneCommand PROVE Spec => []ReferencesLive
<1>1. Init => ReferencesLive
  BY DEF Init, ReferencesLive, NoneDangling, FreshCampaign
<1>2. Invariant /\ MemoryInStep /\ ReferencesLive /\ [Next]_vars => ReferencesLive'
  <2> SUFFICES ASSUME Invariant, MemoryInStep, ReferencesLive, [Next]_vars, used'.crashes = 0
               PROVE  NoneDangling'
    BY DEF ReferencesLive
  <2>1. used.crashes = 0 /\ \A p \in Procs : ~Crash(p)
    BY DeathsCount DEF Invariant
  <2> QED
    BY <2>1, NextKeepsLive DEF ReferencesLive
<1> QED
  BY <1>1, <1>2, InStep, Safety, PTL DEF Spec

(* As long as no command has died, a worker is briefed with the current    *)
(* accepted artifact of every earlier stage.                               *)
THEOREM BriefsAreCurrent ==
  ASSUME OneCommand, ~ForwardRevisits PROVE Spec => []BriefIsCurrent
<1>1. Invariant /\ MemoryInStep /\ ReferencesLive /\ Frontier => BriefIsCurrent
  <2> SUFFICES ASSUME Invariant, MemoryInStep, NoneDangling, Frontier,
                      NEW p \in Procs, pc[p] = "execute", NEW s \in 1..mem[p].cursor
               PROVE  Live(mem[p].stages[s].deliverable_id)
    BY DEF BriefIsCurrent, ReferencesLive
  <2>1. Twins(mem[p], stored)
    BY SettledMeans DEF Settled
  <2>2. s \in Stages
    BY CampaignsHave DEF Campaigns
  <2>3. stored.stages[s].deliverable_id # NoDeliverable
    BY <2>1, <2>2 DEF Twins, Frontier
  <2>4. \A q \in Procs : ~Dropping(q, s)
    BY DEF Dropping, OneCommand
  <2> QED
    BY <2>1, <2>2, <2>3, <2>4 DEF NoneDangling, Twins
<1> QED
  BY <1>1, Safety, InStep, ReferencesStayLive, FrontierHolds, PTL

-----------------------------------------------------------------------------
(* How many task runs there can be.                                        *)

(* What commands so far may have requested; a tick that has not requested  *)
(* its task run yet has one to spare.                                      *)
Room == used.commands * MaxTicks

Bounded ==
  /\ used.commands <= MaxCommands
  /\ Len(runs) <= Room
  /\ \A p \in Procs :
       /\ pc[p] \notin {"idle", "revisit"} => ticks[p] >= 1
       /\ pc[p] \in {"tick", "request"} => Len(runs) + ticks[p] <= Room
       /\ HasTask(p) => Len(runs) + ticks[p] <= Room + 1

LEMMA SameLength ==
  ASSUME NEW rs \in Seq(TaskRuns), NEW i, NEW r, NEW new, new = [rs EXCEPT ![i] = r]
  PROVE  Len(new) = Len(rs)
  OBVIOUS

LEMMA SamePhaseLength ==
  ASSUME Invariant, NEW p \in Procs, NEW ph, RecordRun(p, ph)
  PROVE  Len(runs') = Len(runs)
  BY CampaignsHave, SameLength DEF RecordRun

(* A command past its last tick is over, otherwise one tick is used up.    *)
LEMMA NextTickCounts ==
  ASSUME Invariant, NEW p \in Procs, NEW c, Exit(p) \/ NextTick(p, c)
  PROVE  \/ pc'[p] = "idle"
         \/ pc'[p] = "tick" /\ ticks[p] > 1 /\ ticks'[p] = ticks[p] - 1
<1>1. CASE ticks[p] > 1 /\ NextTick(p, c)
  BY <1>1, CampaignsHave DEF NextTick, LocalTypes
<1>2. CASE Exit(p)
  BY <1>2, CampaignsHave DEF Exit, LocalTypes
<1> QED
  BY <1>1, <1>2 DEF NextTick

(* What a step of a tick does to the counts. *)
LEMMA TickCounts ==
  ASSUME Invariant, NEW p \in Procs, Tick(p)
  PROVE  /\ UNCHANGED used
         /\ \/ pc'[p] = "idle" /\ Len(runs') = Len(runs)
            \/ /\ pc'[p] = "tick" /\ HasTask(p) /\ Len(runs') = Len(runs)
               /\ ticks[p] > 1 /\ ticks'[p] = ticks[p] - 1
            \/ /\ pc'[p] = "request" /\ pc[p] = "tick" /\ Len(runs') = Len(runs)
               /\ ticks'[p] = ticks[p]
            \/ /\ HasTask(p)' /\ pc[p] \in {"tick", "request"} /\ Len(runs') = Len(runs) + 1
               /\ ticks'[p] = ticks[p]
            \/ /\ HasTask(p)' /\ HasTask(p) /\ Len(runs') = Len(runs)
               /\ ticks'[p] = ticks[p]
<1>0. LocalTypes /\ runs \in Seq(TaskRuns)
  BY CampaignsHave
<1>1. CASE StopAtGuard(p) \/ PauseCampaign(p)
  BY <1>0, <1>1 DEF StopAtGuard, PauseCampaign, Exit, LocalTypes
<1>2. CASE DenyTask(p) \/ RejectDeliverable(p)
  BY <1>0, <1>2, SamePhaseLength DEF DenyTask, RejectDeliverable, Exit, LocalTypes
<1>3. CASE StartStage(p)
  BY <1>0, <1>3 DEF StartStage, Goto, LocalTypes
<1>4. CASE RequestTask(p)
  <2>1. PICK r : runs' = Append(runs, r)
    BY <1>4 DEF RequestTask
  <2>2. Len(runs') = Len(runs) + 1
    BY <1>0, <2>1
  <2>3. pc'[p] = "execute" /\ ticks'[p] = ticks[p] /\ pc[p] \in {"tick", "request"}
    BY <1>0, <1>4 DEF RequestTask, Goto, LocalTypes
  <2>4. HasTask(p)'
    BY <2>3 DEF HasTask, PhaseAt
  <2> QED
    BY <1>4, <2>2, <2>3, <2>4 DEF RequestTask
<1>5. CASE FailTask(p) \/ Advance(p)
  <2>1. HasTask(p) /\ UNCHANGED used /\ Len(runs') = Len(runs)
    BY <1>5, SamePhaseLength DEF FailTask, Advance, HasTask, PhaseAt
  <2>2. Exit(p) \/ \E c : NextTick(p, c)
    BY <1>5 DEF FailTask, Advance
  <2> QED
    BY <2>1, <2>2, NextTickCounts
<1>6. CASE \/ CompleteTask(p) \/ (\E passed \in BOOLEAN : ProduceDeliverable(p, passed))
           \/ DecideStage(p) \/ SupersedeOld(p) \/ AcceptDeliverable(p)
  <2>1. \E q \in DOMAIN PhaseAt : Goto(p, q)
    BY <1>6 DEF CompleteTask, ProduceDeliverable, DecideStage, SupersedeOld,
                AcceptDeliverable, PhaseAt
  <2>2. HasTask(p)' /\ ticks'[p] = ticks[p]
    BY <1>0, <2>1 DEF Goto, LocalTypes, HasTask
  <2>3. HasTask(p) /\ UNCHANGED used
    BY <1>6 DEF CompleteTask, ProduceDeliverable, DecideStage, SupersedeOld,
                AcceptDeliverable, HasTask, PhaseAt
  <2>4. Len(runs') = Len(runs)
    <3>1. CASE CompleteTask(p) \/ AcceptDeliverable(p) \/ SupersedeOld(p)
      BY <3>1, SamePhaseLength DEF CompleteTask, AcceptDeliverable, SupersedeOld
    <3>2. CASE (\E passed \in BOOLEAN : ProduceDeliverable(p, passed)) \/ DecideStage(p)
      <4>1. \E r : runs' = [runs EXCEPT ![task[p]] = r]
        BY <3>2 DEF ProduceDeliverable, DecideStage
      <4> QED
        BY <1>0, <4>1, SameLength
    <3> QED
      BY <1>6, <3>1, <3>2
  <2> QED
    BY <2>2, <2>3, <2>4
<1> QED
  BY <1>1, <1>2, <1>3, <1>4, <1>5, <1>6 DEF Tick

LEMMA BoundedKept ==
  ASSUME OneCommand, Invariant, Bounded, [Next]_vars PROVE Bounded'
<1>0. /\ \A p \in Procs : ticks[p] \in Nat /\ pc[p] \in PCs
      /\ Len(runs) \in Nat /\ used.commands \in Nat /\ Room \in Nat
  <2>1. used.commands \in Nat
    BY DEF Invariant, TypeOK
  <2> QED
    BY <2>1, CampaignsHave DEF LocalTypes, Room
<1>1. CASE UNCHANGED vars
  BY <1>1 DEF Bounded, Room, HasTask, vars, ledger, local
<1>2. CASE CreateAgain
  BY <1>2, NoCreate
<1>3. ASSUME NEW p \in Procs,
             \/ \E w \in Workers, n \in 1..MaxTicks : StartRun(p, w, n)
             \/ \E s \in Stages : StartRevisit(p, s)
      PROVE  Bounded'
  <2>1. /\ used.commands < MaxCommands /\ used'.commands = used.commands + 1
        /\ UNCHANGED runs
    <3>1. used \in [commands : Nat, creates : Nat, crashes : Nat]
      BY DEF Invariant, TypeOK
    <3> QED
      BY <1>3, <3>1 DEF StartRun, StartRevisit, UseCommand, ledger
  <2>2. Room' = Room + MaxTicks
    BY <1>0, <2>1 DEF Room
  <2>3. \/ pc'[p] = "tick" /\ ticks'[p] \in 1..MaxTicks
        \/ pc'[p] = "revisit"
    BY <1>3, CampaignsHave DEF StartRun, StartRevisit, LocalTypes
  <2>4. ~HasTask(p)'
    BY <2>3 DEF HasTask, PhaseAt
  <2>5. used.commands + 1 <= MaxCommands /\ Len(runs) <= Room
    BY <1>0, <2>1 DEF Bounded
  <2> QED
    BY <1>0, <2>1, <2>2, <2>3, <2>4, <2>5 DEF Bounded, OneCommand
<1>4. ASSUME NEW p \in Procs, Tick(p) PROVE Bounded'
  <2>1. UNCHANGED Room
    BY <1>4, TickCounts DEF Room
  <2>2. pc'[p] \in {"idle", "tick", "request"} => ~HasTask(p)'
    BY DEF HasTask, PhaseAt
  <2>3. HasTask(p)' => pc'[p] \notin {"idle", "revisit", "tick", "request"}
    BY DEF HasTask, PhaseAt
  <2>4. HasTask(p) => pc[p] \notin {"idle", "revisit"}
    BY DEF HasTask, PhaseAt
  <2>5. /\ used.commands <= MaxCommands /\ Len(runs) <= Room
        /\ pc[p] \notin {"idle", "revisit"} => ticks[p] >= 1
        /\ pc[p] \in {"tick", "request"} => Len(runs) + ticks[p] <= Room
        /\ HasTask(p) => Len(runs) + ticks[p] <= Room + 1
    BY DEF Bounded
  <2>6. UNCHANGED used
    BY <1>4, TickCounts
  <2>7. /\ Len(runs') <= Room
        /\ pc'[p] \notin {"idle", "revisit"} => ticks'[p] >= 1
        /\ pc'[p] \in {"tick", "request"} => Len(runs') + ticks'[p] <= Room
        /\ HasTask(p)' => Len(runs') + ticks'[p] <= Room + 1
    <3>1. CASE pc'[p] = "idle" /\ Len(runs') = Len(runs)
      BY <2>2, <2>5, <3>1
    <3>2. CASE /\ pc'[p] = "tick" /\ HasTask(p) /\ Len(runs') = Len(runs)
               /\ ticks[p] > 1 /\ ticks'[p] = ticks[p] - 1
      BY <1>0, <2>2, <2>5, <3>2
    <3>3. CASE /\ pc'[p] = "request" /\ pc[p] = "tick" /\ Len(runs') = Len(runs)
               /\ ticks'[p] = ticks[p]
      BY <2>2, <2>5, <3>3
    <3>4. CASE /\ HasTask(p)' /\ pc[p] \in {"tick", "request"}
               /\ Len(runs') = Len(runs) + 1 /\ ticks'[p] = ticks[p]
      BY <1>0, <2>3, <2>5, <3>4
    <3>5. CASE /\ HasTask(p)' /\ HasTask(p) /\ Len(runs') = Len(runs)
               /\ ticks'[p] = ticks[p]
      BY <2>3, <2>4, <2>5, <3>5
    <3> QED
      BY <1>4, <3>1, <3>2, <3>3, <3>4, <3>5, TickCounts
  <2> QED
    BY <2>1, <2>5, <2>6, <2>7 DEF Bounded, OneCommand
<1>5. ASSUME NEW p \in Procs, Revisit(p) \/ Crash(p) PROVE Bounded'
  <2>0. used \in [commands : Nat, creates : Nat, crashes : Nat]
    BY DEF Invariant, TypeOK
  <2>1. pc'[p] \in {"idle", "revisit"} /\ UNCHANGED runs /\ used'.commands = used.commands
    BY <1>5, <2>0, CampaignsHave
    DEF Revisit, RevisitStage, FinishRevisit, Crash, Exit, LocalTypes, ledger
  <2>2. UNCHANGED Room /\ ~HasTask(p)'
    BY <2>1 DEF Room, HasTask, PhaseAt
  <2> QED
    BY <2>1, <2>2 DEF Bounded, OneCommand
<1> QED
  BY <1>1, <1>2, <1>3, <1>4, <1>5 DEF Next

-----------------------------------------------------------------------------
(* The engine implements Delivery.                                         *)

(* As the engine counts them, so does the contract. *)
Counted == revised = stored.revisions_used

LEMMA CountedKept == ASSUME Counted, Invariant, ProjectionStep PROVE Counted'
<1>1. CASE Rests \/ Halts
  BY <1>1 DEF Counted, Rests, Halts, HeadKept
<1>2. CASE \E s \in Stages, d \in DOMAIN runs : Accepts(s, d)
  BY <1>2 DEF Counted, Accepts, HeadKept
<1>3. CASE \E s \in Stages : Advances(s) \/ GoesBack(s)
  BY <1>3 DEF Counted, Advances, GoesBack
<1> QED
  BY <1>1, <1>2, <1>3 DEF ProjectionStep

(* Whatever the projection is past has been accepted, so what counts as    *)
(* delivered are the references before the cursor.                         *)
BeforeCursor(s) ==
  IF s <= stored.cursor THEN stored.stages[s].deliverable_id ELSE NoDeliverable

LEMMA DeliveredMeans ==
  Invariant /\ Frontier => \A s \in Stages : DeliveredOf(s) = BeforeCursor(s)
  BY DEF Invariant, ReferencesSound, RefersToAccepted, Frontier, DeliveredOf, BeforeCursor

(* What the contract sees of a step. *)
SameDelivered == \A t \in Stages : BeforeCursor(t)' = BeforeCursor(t)

LEMMA RestsStutters ==
  ASSUME Invariant, Rests \/ \E s \in Stages, d \in DOMAIN runs : Accepts(s, d)
  PROVE  HeadKept /\ SameDelivered
<1>1. stored.cursor \in Nat
  BY CampaignsHave DEF Campaigns
<1>2. CASE Rests
  BY <1>2 DEF Rests, HeadKept, SameDelivered, BeforeCursor
<1>3. ASSUME NEW s \in Stages, NEW d \in DOMAIN runs, Accepts(s, d)
      PROVE  HeadKept /\ SameDelivered
  BY <1>1, <1>3 DEF Accepts, HeadKept, SameDelivered, BeforeCursor
<1> QED
  BY <1>2, <1>3

LEMMA HaltsHalts ==
  ASSUME Halts PROVE SameDelivered
  BY DEF Halts, SameDelivered, BeforeCursor

(* The deliverable of the stage passed is delivered for it alone. *)
LEMMA AdvancesDelivers ==
  ASSUME Invariant, NEW s \in Stages, Advances(s), NEW d,
         d = stored.stages[s].deliverable_id
  PROVE  /\ \A t \in Stages : BeforeCursor(t)' = IF t = s THEN d ELSE BeforeCursor(t)
         /\ \A t \in Stages : BeforeCursor(t) # d
<1>1. stored.cursor \in Nat /\ d # NoDeliverable
  BY CampaignsHave DEF Campaigns, Advances
<1>2. \A t \in Stages : t # s => stored.stages[t].deliverable_id # d
  BY <1>1, CampaignsHave DEF Good, Refers
<1>3. \A t \in Stages : BeforeCursor(t) # d
  BY <1>1, <1>2 DEF BeforeCursor, Advances
<1>4. ASSUME NEW t \in Stages
      PROVE  BeforeCursor(t)' = IF t = s THEN d ELSE BeforeCursor(t)
  BY <1>1 DEF BeforeCursor, Advances
<1> QED
  BY <1>3, <1>4

LEMMA GoesBackReworks ==
  ASSUME Invariant, NEW s \in Stages, GoesBack(s), s - 1 <= stored.cursor
  PROVE  \A t \in Stages :
           BeforeCursor(t)' = IF t < s THEN BeforeCursor(t) ELSE NoDeliverable
<1>1. stored.cursor \in Nat
  BY CampaignsHave DEF Campaigns
<1> QED
  BY <1>1 DEF BeforeCursor, GoesBack, Untouched

(* The facts a step of the engine is matched with the contract from. *)
Matched ==
  Invariant /\ MemoryInStep /\ Behind /\ Frontier /\ Counted /\ Bounded

Delivered == [s \in Stages |-> BeforeCursor(s)]

LEMMA MatchedMeans == Matched => [s \in Stages |-> DeliveredOf(s)] = Delivered
  BY DeliveredMeans DEF Matched, Delivered

LEMMA InitMatches == Init => Contract!Init
<1> SUFFICES ASSUME Init PROVE Contract!Init
  OBVIOUS
<1>1. \A s \in Stages : DeliveredOf(s) = NoDeliverable
  BY DEF Init, FreshCampaign, DeliveredOf
<1> QED
  BY <1>1 DEF Init, FreshCampaign, Contract!Init

LEMMA StepMatches ==
  ASSUME OneCommand, Matched, Matched', ProjectionStep
  PROVE  [Contract!Next]_(Contract!contract)
<1>1. /\ [s \in Stages |-> DeliveredOf(s)] = Delivered
      /\ [s \in Stages |-> DeliveredOf(s)]' = Delivered'
  <2>1. Matched' => ([s \in Stages |-> DeliveredOf(s)] = Delivered)'
    BY MatchedMeans, PTL
  <2> QED
    BY <2>1, MatchedMeans
<1>2. stored.cursor \in Nat /\ Invariant
  BY CampaignsHave DEF Matched, Campaigns
<1>3. CASE Rests \/ Halts \/ \E s \in Stages, d \in DOMAIN runs : Accepts(s, d)
  <2>1. SameDelivered
    BY <1>2, <1>3, RestsStutters, HaltsHalts
  <2>2. Delivered' = Delivered
    BY <2>1 DEF SameDelivered, Delivered
  <2>3. CASE Halts
    BY <1>1, <2>2, <2>3 DEF Halts, Contract!Next, Contract!Halt
  <2>4. CASE ~Halts
    <3>1. HeadKept
      BY <1>2, <1>3, <2>4, RestsStutters
    <3> QED
      BY <1>1, <2>2, <3>1 DEF HeadKept, Contract!contract
  <2> QED
    BY <2>3, <2>4
<1>4. ASSUME NEW s \in Stages, Advances(s) PROVE Contract!Next
  <2>1. PICK d : d = stored.stages[s].deliverable_id
    OBVIOUS
  <2>2. d \in 1..(MaxCommands * MaxTicks)
    <3>1. used.commands \in Nat /\ used.commands <= MaxCommands /\ Len(runs) <= Room
      BY DEF Matched, Invariant, TypeOK, Bounded
    <3>2. PICK spare \in Nat : MaxCommands = used.commands + spare
      <4>1. MaxCommands - used.commands \in Nat
        BY <3>1
      <4> QED
        BY <3>1, <4>1
    <3>3. MaxCommands * MaxTicks = used.commands * MaxTicks + spare * MaxTicks
      BY <3>1, <3>2
    <3>4. Room \in Nat /\ spare * MaxTicks \in Nat
      BY <3>1, <3>2 DEF Room
    <3>5. Room <= MaxCommands * MaxTicks /\ MaxCommands * MaxTicks \in Nat
      BY <3>3, <3>4 DEF Room
    <3>6. d \in 1..Len(runs) /\ Len(runs) \in Nat
      BY <1>2, <1>4, <2>1, CampaignsHave DEF Advances
    <3> QED
      BY <3>1, <3>4, <3>5, <3>6
  <2>3. Delivered' = [Delivered EXCEPT ![s] = d]
    BY <1>2, <1>4, <2>1, AdvancesDelivers DEF Delivered
  <2>4. \A t \in Stages : Delivered[t] # d
    BY <1>2, <1>4, <2>1, AdvancesDelivers DEF Delivered
  <2>5. d \notin Contract!Delivering
    BY <1>1, <2>4 DEF Contract!Delivering
  <2>6. /\ stored.status = "active" /\ stored.cursor < NumStages
        /\ stored'.cursor = stored.cursor + 1
        /\ stored'.status = IF stored'.cursor = NumStages THEN "completed" ELSE "active"
        /\ revised' = revised
        /\ Delivered' = [Delivered EXCEPT ![stored.cursor + 1] = d]
    BY <1>2, <1>4, <2>3 DEF Advances
  <2>7. Contract!Deliver(d)
    BY <1>1, <2>5, <2>6 DEF Contract!Deliver
  <2> QED
    BY <2>2, <2>7 DEF Contract!Next
<1>5. ASSUME NEW p \in Procs, NEW s \in Stages,
             pc[p] = "revisit", mem[p].cursor = s - 1, GoesBack(s)
      PROVE  Contract!Next
  <2>1. s - 1 <= stored.cursor
    BY <1>5 DEF Matched, Behind
  <2>2. Delivered' = [t \in Stages |-> IF t < s THEN Delivered[t] ELSE NoDeliverable]
    BY <1>2, <1>5, <2>1, GoesBackReworks DEF Delivered
  <2>3. revised < MaxRevisions
    <3>1. stored'.revisions_used <= MaxRevisions
      BY DEF Matched, Invariant, QuotaHonoured, WithinQuota
    <3>2. revised = stored.revisions_used /\ stored.revisions_used \in Nat
      BY CampaignsHave DEF Matched, Counted, Campaigns
    <3> QED
      BY <1>5, <3>1, <3>2 DEF GoesBack
  <2>4. Contract!Rework(s)
    BY <1>1, <1>2, <1>5, <2>1, <2>2, <2>3 DEF GoesBack, Contract!Rework
  <2> QED
    BY <2>4 DEF Contract!Next
<1> QED
  BY <1>3, <1>4, <1>5 DEF ProjectionStep

(* The facts hold whatever the engine does. *)
LEMMA AlwaysMatched == ASSUME OneCommand, ~ForwardRevisits PROVE Spec => []Matched
<1>1. Init => Counted /\ Bounded
  <2> SUFFICES ASSUME Init PROVE Counted /\ Bounded
    OBVIOUS
  <2>1. Len(runs) = 0 /\ used.commands = 0 /\ Room = 0
    BY DEF Init, Room
  <2>2. \A p \in Procs : pc[p] = "idle" /\ ~HasTask(p)
    BY DEF Init, HasTask, PhaseAt
  <2> QED
    BY <2>1, <2>2 DEF Init, Counted, Bounded, FreshCampaign
<1>2. Invariant /\ MemoryInStep /\ (Counted /\ Bounded) /\ [Next]_vars
        => (Counted /\ Bounded)'
  BY StepMoves, CountedKept, BoundedKept DEF Moved
<1>3. Invariant /\ MemoryInStep /\ (Behind /\ Frontier) /\ (Counted /\ Bounded) => Matched
  BY DEF Matched
<1> QED
  BY <1>1, <1>2, <1>3, Safety, InStep, BehindAndFrontier, PTL DEF Spec

(* A campaign driven by one command at a time, each of which may die       *)
(* between two commits, keeps the contract of Delivery: stages are         *)
(* delivered in order and none is lost or skipped.                         *)
THEOREM DeliveryImplemented ==
  ASSUME OneCommand, ~ForwardRevisits PROVE Spec => ImplementsDelivery
<1>1. Init => Contract!Init
  BY InitMatches
<1>2. Matched /\ Matched' /\ [ProjectionStep]_vars => [Contract!Next]_(Contract!contract)
  <2> SUFFICES ASSUME Matched, Matched', [ProjectionStep]_vars
               PROVE  [Contract!Next]_(Contract!contract)
    OBVIOUS
  <2>1. CASE UNCHANGED vars
    <3>1. UNCHANGED <<stored, runs, revised>>
      BY <2>1 DEF vars, ledger
    <3> QED
      BY <3>1 DEF Contract!contract, DeliveredOf, AcceptedFor
  <2> QED
    BY <2>1, StepMatches
<1> QED
  BY <1>1, <1>2, AlwaysMatched, ProjectionMoves, PTL
  DEF Spec, ImplementsDelivery, Contract!Spec
=============================================================================
