------------------------------ MODULE Campaign ------------------------------
(***************************************************************************)
(* The campaign engine of will/campaigns: CLI commands (campaign run,      *)
(* campaign revisit, create-btc) working on one campaign through an        *)
(* append-only event ledger.                                               *)
(*                                                                         *)
(* Every command is an operating-system process that loads the campaign    *)
(* once, then works on its own in-memory copy.  append_event commits each  *)
(* event in a transaction of its own, so one action below is one commit    *)
(* together with the in-memory work around it: between two actions another *)
(* process may commit, or this one may die.                                *)
(*                                                                         *)
(* What the ledger says is kept in four variables: stored, the campaign    *)
(* load_campaign projects from the events so far; runs, one record per     *)
(* TASKRUN_REQUESTED event with what later events said of that task run    *)
(* and of the deliverable it produced; superseded, the deliverables some   *)
(* DELIVERABLE_SUPERSEDED event names; and revised, the CAMPAIGN_REVISED   *)
(* events since the last CAMPAIGN_STARTED.                                 *)
(***************************************************************************)
EXTENDS Naturals, Sequences

CONSTANTS
  Procs,            \* slots in which a CLI command may be running
  NumStages,        \* stages of the campaign
  MaxTaskRuns,      \* CampaignBudget.max_task_runs
  MaxRevisions,     \* CampaignBudget.max_revisions
  MaxWorkerCost,    \* CampaignBudget.max_worker_cost
  TaskCost,         \* TaskBudget.cost of every task run
  Workers,          \* values of --worker that users pass
  ForwardRevisits,  \* may users revisit a stage the cursor has not reached?
  MaxTicks,         \* bound: largest --max-ticks
  MaxCommands,      \* bound: commands started in a behaviour
  MaxCreates,       \* bound: create-btc repeated on the same id
  MaxCrashes        \* bound: processes that die between two commits

ASSUME NumStagesAssumption == NumStages \in Nat \ {0}
ASSUME QuotaAssumption == /\ MaxTaskRuns \in Nat
                          /\ MaxRevisions \in Nat
                          /\ MaxWorkerCost \in Nat
                          /\ TaskCost \in Nat
ASSUME WorkersAssumption == Workers \subseteq {"fake", "claude", "unknown"}
ASSUME BoundsAssumption == /\ MaxTicks \in Nat
                           /\ MaxCommands \in Nat
                           /\ MaxCreates \in Nat
                           /\ MaxCrashes \in Nat
                           /\ ForwardRevisits \in BOOLEAN

VARIABLES
  stored,      \* the campaign projected from the ledger
  runs,        \* the ledger's account of every task run
  superseded,  \* deliverables named by a DELIVERABLE_SUPERSEDED event
  revised,     \* CAMPAIGN_REVISED events since the last CAMPAIGN_STARTED
  pc,          \* where each process is
  mem,         \* its in-memory campaign
  ticks,       \* iterations its run loop has left, the current one included
  worker,      \* its --worker
  task,        \* its current task run and deliverable
  idx,         \* the stage its revisit loop is at
  used         \* how much of each bound has been used

ledger == <<stored, runs, superseded, revised>>
local == <<pc, mem, ticks, worker, task, idx>>
vars == <<ledger, local, used>>

Autonomy == INSTANCE Autonomy

Stages == 1..NumStages          \* CampaignStage.index; list position is index - 1
NoDeliverable == 0              \* deliverable_id is None
NoTask == 0

CampaignStatus == {"active", "paused", "completed"}
StageStatus == {"pending", "active", "accepted", "rejected"}
PCs == {"idle", "tick", "request", "execute", "produce", "decide",
        "route", "accept", "advance", "revisit"}

(* A task run as the ledger knows it: the last event about it (or about    *)
(* its deliverable), the gate's result and the decision recorded for it.   *)
Phases == {"requested", "failed", "completed", "produced", "decided",
           "accepted", "rejected"}
Undecided == "none"

TaskRuns == [stage : Stages, phase : Phases, passed : BOOLEAN,
             verdict : Autonomy!Verdict \cup {Undecided},
             interruption : Autonomy!InterruptionLevel \cup {Undecided}]

Campaigns == [status : CampaignStatus, cursor : 0..NumStages,
              stages : [Stages -> [status : StageStatus, deliverable_id : Nat]],
              task_runs_used : Nat, revisions_used : Nat, worker_cost_used : Nat]

(* build_btc_campaign *)
FreshCampaign ==
  [status |-> "active", cursor |-> 0,
   stages |-> [s \in Stages |-> [status |-> "pending", deliverable_id |-> NoDeliverable]],
   task_runs_used |-> 0, revisions_used |-> 0, worker_cost_used |-> 0]

(***************************************************************************)
(* What load_campaign makes of an appended event.                          *)
(***************************************************************************)
(* Mutant: only the stages of a carried campaign are taken over. *)
AppendStagesOnly(c) == stored' = [stored EXCEPT !.stages = c.stages]

(* CAMPAIGN_STARTED, _STAGE_STARTED, _STAGE_ADVANCED, _REVISED, _COMPLETED *)
(* and _PAUSED carry the whole campaign, which replaces what was folded.   *)
AppendSnapshot(c) == stored' = c

(* Mutant: DELIVERABLE_ACCEPTED is skipped like the rest. *)
AcceptedIgnored(s, d) == UNCHANGED stored

(* DELIVERABLE_ACCEPTED only sets the stage's reference.                   *)
AppendAccepted(s, d) ==
  stored' = [stored EXCEPT !.stages[s].deliverable_id = d]

(* Every other event is skipped, DELIVERABLE_SUPERSEDED, TASKRUN_FAILED    *)
(* and DELIVERABLE_REJECTED included.                                      *)
AppendIgnored == UNCHANGED stored

(***************************************************************************)
(* Helpers of campaign_tick.                                               *)
(***************************************************************************)
ActiveStage(c) == c.cursor + 1

(* Mutant: a quota that admits one run too many. *)
TickGuardLoose(c) ==
  IF c.status # "active" THEN "not_active"
  ELSE IF c.cursor >= NumStages THEN "completed"
  ELSE IF c.task_runs_used > MaxTaskRuns THEN "paused"
  ELSE "go"

(* The early returns of campaign_tick, in order, or "go" past them all.    *)
TickGuard(c) ==
  IF c.status # "active" THEN "not_active"
  ELSE IF c.cursor >= NumStages THEN "completed"
  ELSE IF c.task_runs_used >= MaxTaskRuns THEN "paused"
  ELSE "go"

(* Mutant: a cost that equals max_worker_cost trips the breaker. *)
EnvelopeTight ==
  [max_ticks |-> 24, max_worker_runs |-> MaxTaskRuns + 1,
   max_revisions |-> MaxRevisions, max_revisits |-> MaxRevisions,
   max_cost |-> MaxWorkerCost,
   allowed_permissions |-> {"web_read", "write_local_artifact", "run_local_backtest"},
   forbidden |-> Autonomy!IrreversiblePermissions]

(* The envelope and the usage campaign_tick hands to decide().             *)
Envelope ==
  [max_ticks |-> 24, max_worker_runs |-> MaxTaskRuns + 1,
   max_revisions |-> MaxRevisions, max_revisits |-> MaxRevisions,
   max_cost |-> MaxWorkerCost + 1,
   allowed_permissions |-> {"web_read", "write_local_artifact", "run_local_backtest"},
   forbidden |-> Autonomy!IrreversiblePermissions]

Usage(c) ==
  [ticks_used |-> 0, worker_runs_used |-> c.task_runs_used,
   revisions_used |-> c.revisions_used, revisits_used |-> c.revisions_used,
   cost_used |-> c.worker_cost_used]

(* Mutant: the gate's result is not handed on. *)
JudgeUngated(c, passed) ==
  Autonomy!Decide(Envelope, Usage(c),
    [required_permission |-> Autonomy!NoPermission, soul_blocker |-> FALSE,
     validation_passed |-> TRUE,
     is_final_stage |-> ActiveStage(c) = NumStages - 1],
    Autonomy!DefaultPolicy)

Judge(c, passed) ==
  Autonomy!Decide(Envelope, Usage(c),
    [required_permission |-> Autonomy!NoPermission, soul_blocker |-> FALSE,
     validation_passed |-> passed,
     is_final_stage |-> ActiveStage(c) = NumStages - 1],
    Autonomy!DefaultPolicy)

Accepting == {"accept", "finalize"}

(* The workers resolve_executor finds an executor for ("claude" stands for *)
(* codex too), and those whose task runs can fail: a delegation that is    *)
(* denied, unaffordable, failed or empty, a backtest without data.         *)
Resolved == {"fake", "claude"}
Fallible == {"claude"}

(* What validate_artifact may find of a worker's artifact.  The fake one   *)
(* writes every section and source the gate asks for.                      *)
GateResults(w) == IF w = "fake" THEN {TRUE} ELSE BOOLEAN

(* Mutant: the stage is left active. *)
AcceptedByReference(d) == [status |-> "active", deliverable_id |-> d]

(* What accepting deliverable d makes of its stage. *)
AcceptedWith(d) == [status |-> "accepted", deliverable_id |-> d]

(* Mutant: done one stage early. *)
AdvancedEarly(c) ==
  [c EXCEPT !.cursor = c.cursor + 1,
            !.status = IF c.cursor + 1 >= NumStages - 1 THEN "completed" ELSE c.status]

(* The campaign once its active stage is accepted: past the last stage it  *)
(* is completed.                                                           *)
Advanced(c) ==
  [c EXCEPT !.cursor = c.cursor + 1,
            !.status = IF c.cursor + 1 >= NumStages THEN "completed" ELSE c.status]

(***************************************************************************)
(* Helpers of revisit_stage.                                               *)
(***************************************************************************)
(* Mutant: one revisit too many. *)
MayRevisitLoose(c) == c.revisions_used <= MaxRevisions

MayRevisit(c) == c.revisions_used < MaxRevisions

(* Mutant: the cursor is taken for the stage's number. *)
ReopenedPast(c, s) ==
  [c EXCEPT !.cursor = s, !.status = "active", !.revisions_used = c.revisions_used + 1]

ReopenedAt(c, s) ==
  [c EXCEPT !.cursor = s - 1, !.status = "active", !.revisions_used = c.revisions_used + 1]

(* Mutants: a stage without a deliverable is superseded too; none is.      *)
SupersededAnyway(d) == superseded \cup {d}
SupersededNever(d) == superseded

(* The deliverables superseded once a stage that refers to d is reset. *)
SupersededWith(d) == IF d # NoDeliverable THEN superseded \cup {d} ELSE superseded

(* Mutant: the reference survives the reset. *)
ResetStatus(stage) == [stage EXCEPT !.status = "pending"]

Reset(stage) == [status |-> "pending", deliverable_id |-> NoDeliverable]

(***************************************************************************)
(* What a step does to the process that takes it.                          *)
(***************************************************************************)

(* The command returns to the shell: its memory is gone.                   *)
Exit(p) ==
  /\ pc' = [pc EXCEPT ![p] = "idle"]
  /\ mem' = [mem EXCEPT ![p] = FreshCampaign]
  /\ ticks' = [ticks EXCEPT ![p] = 0]
  /\ worker' = [worker EXCEPT ![p] = "fake"]
  /\ task' = [task EXCEPT ![p] = NoTask]
  /\ idx' = [idx EXCEPT ![p] = 0]

(* The tick returned a status the loop of campaign run carries on from.    *)
NextTick(p, c) ==
  IF ticks[p] > 1
  THEN /\ pc' = [pc EXCEPT ![p] = "tick"]
       /\ mem' = [mem EXCEPT ![p] = c]
       /\ ticks' = [ticks EXCEPT ![p] = @ - 1]
       /\ task' = [task EXCEPT ![p] = NoTask]
       /\ UNCHANGED <<worker, idx>>
  ELSE Exit(p)

Goto(p, where) ==
  /\ pc' = [pc EXCEPT ![p] = where]
  /\ UNCHANGED <<ticks, worker, idx>>

(* Mutant: the latest task run is taken for this process's. *)
RecordLatest(p, phase) == runs' = [runs EXCEPT ![Len(runs)].phase = phase]

RecordRun(p, phase) == runs' = [runs EXCEPT ![task[p]].phase = phase]

(***************************************************************************)
(* Starting a command.                                                     *)
(***************************************************************************)
UseCommand ==
  /\ used.commands < MaxCommands
  /\ used' = [used EXCEPT !.commands = @ + 1]

(* create-btc has run once: no other command finds a campaign before that. *)
Init ==
  /\ stored = FreshCampaign
  /\ runs = <<>>
  /\ superseded = {}
  /\ revised = 0
  /\ pc = [p \in Procs |-> "idle"]
  /\ mem = [p \in Procs |-> FreshCampaign]
  /\ ticks = [p \in Procs |-> 0]
  /\ worker = [p \in Procs |-> "fake"]
  /\ task = [p \in Procs |-> NoTask]
  /\ idx = [p \in Procs |-> 0]
  /\ used = [commands |-> 0, creates |-> 0, crashes |-> 0]

(* create-btc with the id of the existing campaign: CAMPAIGN_STARTED again. *)
CreateAgain ==
  /\ used.creates < MaxCreates
  /\ used' = [used EXCEPT !.creates = @ + 1]
  /\ AppendSnapshot(FreshCampaign)
  /\ revised' = 0
  /\ UNCHANGED <<runs, superseded, local>>

StartRun(p, w, n) ==
  /\ pc[p] = "idle"
  /\ UseCommand
  /\ pc' = [pc EXCEPT ![p] = "tick"]
  /\ mem' = [mem EXCEPT ![p] = stored]
  /\ ticks' = [ticks EXCEPT ![p] = n]
  /\ worker' = [worker EXCEPT ![p] = w]
  /\ UNCHANGED <<ledger, task, idx>>

(* A revisit past the revision budget raises before it changes anything.   *)
StartRevisit(p, s) ==
  /\ pc[p] = "idle"
  /\ UseCommand
  /\ ForwardRevisits \/ s <= ActiveStage(stored)
  /\ MayRevisit(stored)
  /\ pc' = [pc EXCEPT ![p] = "revisit"]
  /\ mem' = [mem EXCEPT ![p] = ReopenedAt(stored, s)]
  /\ idx' = [idx EXCEPT ![p] = s]
  /\ UNCHANGED <<ledger, ticks, worker, task>>

(***************************************************************************)
(* campaign_tick, one action per commit.                                   *)
(***************************************************************************)
(* Not active, past the last stage, or out of task runs: every one of      *)
(* these ends the command.                                                 *)
StopAtGuard(p) ==
  LET why == TickGuard(mem[p]) IN
  /\ pc[p] = "tick"
  /\ why # "go"
  /\ IF why = "not_active"
     THEN AppendIgnored
     ELSE AppendSnapshot([mem[p] EXCEPT !.status = why])
  /\ Exit(p)
  /\ UNCHANGED <<runs, superseded, revised, used>>

StartStage(p) ==
  LET s == ActiveStage(mem[p])
      c == [mem[p] EXCEPT !.stages[s].status = "active"] IN
  /\ pc[p] = "tick"
  /\ TickGuard(mem[p]) = "go"
  /\ mem[p].stages[s].status = "pending"
  /\ AppendSnapshot(c)
  /\ mem' = [mem EXCEPT ![p] = c]
  /\ Goto(p, "request")
  /\ UNCHANGED <<runs, superseded, revised, task, used>>

(* The event is committed first; the counters then move in memory only.    *)
RequestTask(p) ==
  LET s == ActiveStage(mem[p]) IN
  /\ \/ pc[p] = "request"
     \/ /\ pc[p] = "tick"
        /\ TickGuard(mem[p]) = "go"
        /\ mem[p].stages[s].status # "pending"
  /\ runs' = Append(runs, [stage |-> s, phase |-> "requested", passed |-> FALSE,
                           verdict |-> Undecided, interruption |-> Undecided])
  /\ task' = [task EXCEPT ![p] = Len(runs) + 1]
  /\ mem' = [mem EXCEPT ![p] =
               [mem[p] EXCEPT !.task_runs_used = mem[p].task_runs_used + 1,
                              !.worker_cost_used = mem[p].worker_cost_used + TaskCost]]
  /\ AppendIgnored
  /\ Goto(p, "execute")
  /\ UNCHANGED <<superseded, revised, used>>

(* resolve_executor knows no such worker.                                  *)
DenyTask(p) ==
  /\ pc[p] = "execute"
  /\ worker[p] \notin Resolved
  /\ RecordRun(p, "failed")
  /\ AppendIgnored
  /\ Exit(p)
  /\ UNCHANGED <<superseded, revised, used>>

(* Mutant: the failed task run itself is tried again. *)
FailTaskRetried(p) ==
  /\ pc[p] = "execute"
  /\ worker[p] \in Fallible
  /\ RecordRun(p, "failed")
  /\ AppendIgnored
  /\ Goto(p, "execute")
  /\ UNCHANGED <<superseded, revised, mem, task, used>>

(* A delegated or backtest run that fails; the loop goes on to retry.      *)
FailTask(p) ==
  /\ pc[p] = "execute"
  /\ worker[p] \in Fallible
  /\ RecordRun(p, "failed")
  /\ AppendIgnored
  /\ NextTick(p, mem[p])
  /\ UNCHANGED <<superseded, revised, used>>

CompleteTask(p) ==
  /\ pc[p] = "execute"
  /\ worker[p] \in Resolved
  /\ RecordRun(p, "completed")
  /\ AppendIgnored
  /\ Goto(p, "produce")
  /\ UNCHANGED <<superseded, revised, mem, task, used>>

(* validate_artifact, then DELIVERABLE_PRODUCED with its result. *)
ProduceDeliverable(p, passed) ==
  /\ pc[p] = "produce"
  /\ passed \in GateResults(worker[p])
  /\ runs' = [runs EXCEPT ![task[p]].phase = "produced",
                          ![task[p]].passed = passed]
  /\ AppendIgnored
  /\ Goto(p, "decide")
  /\ UNCHANGED <<superseded, revised, mem, task, used>>

DecideStage(p) ==
  LET ruling == Judge(mem[p], runs[task[p]].passed) IN
  /\ pc[p] = "decide"
  /\ runs' = [runs EXCEPT ![task[p]].phase = "decided",
                          ![task[p]].verdict = ruling.verdict,
                          ![task[p]].interruption = ruling.interruption]
  /\ AppendIgnored
  /\ Goto(p, "route")
  /\ UNCHANGED <<superseded, revised, mem, task, used>>

PauseCampaign(p) ==
  /\ pc[p] = "route"
  /\ runs[task[p]].verdict = "pause"
  /\ AppendSnapshot([mem[p] EXCEPT !.status = "paused"])
  /\ Exit(p)
  /\ UNCHANGED <<runs, superseded, revised, used>>

(* Mutant: asking a human waits for the answer. *)
RejectUnlessAsked(p) ==
  /\ pc[p] = "route"
  /\ runs[task[p]].verdict \in {"revise", "revisit", "block"}
  /\ RecordRun(p, "rejected")
  /\ AppendIgnored
  /\ Exit(p)
  /\ UNCHANGED <<superseded, revised, used>>

(* The stage is marked rejected in memory, and the event ends the command. *)
RejectDeliverable(p) ==
  /\ pc[p] = "route"
  /\ runs[task[p]].verdict \in {"revise", "revisit", "ask_human", "block"}
  /\ RecordRun(p, "rejected")
  /\ AppendIgnored
  /\ Exit(p)
  /\ UNCHANGED <<superseded, revised, used>>

SupersedeOld(p) ==
  LET old == mem[p].stages[ActiveStage(mem[p])].deliverable_id IN
  /\ pc[p] = "route"
  /\ runs[task[p]].verdict \in Accepting
  /\ old # NoDeliverable
  /\ superseded' = superseded \cup {old}
  /\ AppendIgnored
  /\ Goto(p, "accept")
  /\ UNCHANGED <<runs, revised, mem, task, used>>

AcceptDeliverable(p) ==
  LET s == ActiveStage(mem[p]) IN
  /\ \/ pc[p] = "accept"
     \/ /\ pc[p] = "route"
        /\ runs[task[p]].verdict \in Accepting
        /\ mem[p].stages[s].deliverable_id = NoDeliverable
  /\ RecordRun(p, "accepted")
  /\ AppendAccepted(s, task[p])
  /\ mem' = [mem EXCEPT ![p].stages[s] = AcceptedWith(task[p])]
  /\ Goto(p, "advance")
  /\ UNCHANGED <<superseded, revised, task, used>>

(* A completed campaign ends the command, an advanced one its tick. *)
Advance(p) ==
  LET c == Advanced(mem[p]) IN
  /\ pc[p] = "advance"
  /\ AppendSnapshot(c)
  /\ IF c.status = "completed" THEN Exit(p) ELSE NextTick(p, c)
  /\ UNCHANGED <<runs, superseded, revised, used>>

(***************************************************************************)
(* revisit_stage: the target and every later stage is superseded and reset *)
(* in turn, then one CAMPAIGN_REVISED event carries the result.            *)
(***************************************************************************)
RevisitStage(p) ==
  /\ pc[p] = "revisit"
  /\ idx[p] <= NumStages
  /\ superseded' = SupersededWith(mem[p].stages[idx[p]].deliverable_id)
  /\ mem' = [mem EXCEPT ![p].stages[idx[p]] = Reset(@)]
  /\ idx' = [idx EXCEPT ![p] = @ + 1]
  /\ AppendIgnored
  /\ UNCHANGED <<runs, revised, pc, ticks, worker, task, used>>

FinishRevisit(p) ==
  /\ pc[p] = "revisit"
  /\ idx[p] > NumStages
  /\ AppendSnapshot(mem[p])
  /\ revised' = revised + 1
  /\ Exit(p)
  /\ UNCHANGED <<runs, superseded, used>>

(* The process dies (signal, exception, power) after its last commit.      *)
Crash(p) ==
  /\ pc[p] # "idle"
  /\ used.crashes < MaxCrashes
  /\ used' = [used EXCEPT !.crashes = @ + 1]
  /\ Exit(p)
  /\ UNCHANGED ledger

(***************************************************************************)
(* The specification.                                                      *)
(***************************************************************************)
Tick(p) ==
  \/ StopAtGuard(p)
  \/ StartStage(p)
  \/ RequestTask(p)
  \/ DenyTask(p)
  \/ FailTask(p)
  \/ CompleteTask(p)
  \/ \E passed \in BOOLEAN : ProduceDeliverable(p, passed)
  \/ DecideStage(p)
  \/ PauseCampaign(p)
  \/ RejectDeliverable(p)
  \/ SupersedeOld(p)
  \/ AcceptDeliverable(p)
  \/ Advance(p)

Revisit(p) == RevisitStage(p) \/ FinishRevisit(p)

Next ==
  \/ CreateAgain
  \/ \E p \in Procs :
       \/ \E w \in Workers, n \in 1..MaxTicks : StartRun(p, w, n)
       \/ \E s \in Stages : StartRevisit(p, s)
       \/ Tick(p)
       \/ Revisit(p)
       \/ Crash(p)

Spec == Init /\ [][Next]_vars

(* A command that is running gets to its next commit: worker calls have a  *)
(* timeout and nothing else in it waits.                                   *)
FairSpec == Spec /\ \A p \in Procs : WF_vars(Tick(p) \/ Revisit(p))

-----------------------------------------------------------------------------
(***************************************************************************)
(* Properties that hold however commands interleave, crash and are         *)
(* repeated.                                                               *)
(***************************************************************************)
(* Every variable stays in its type. *)
TypeOK ==
  /\ stored \in Campaigns
  /\ runs \in Seq(TaskRuns)
  /\ superseded \subseteq DOMAIN runs
  /\ revised \in Nat
  /\ pc \in [Procs -> PCs]
  /\ mem \in [Procs -> Campaigns]
  /\ ticks \in [Procs -> Nat]
  /\ worker \in [Procs -> {"fake", "claude", "unknown"}]
  /\ task \in [Procs -> Nat]
  /\ idx \in [Procs -> Nat]
  /\ used \in [commands : Nat, creates : Nat, crashes : Nat]

(* No campaign, in memory or projected, has used more task runs or         *)
(* revisions than its budget allows, and the decision of a tick never sees *)
(* worker_runs_used at the envelope's ceiling.                             *)
WithinQuota(c) ==
  /\ c.task_runs_used <= MaxTaskRuns
  /\ c.revisions_used <= MaxRevisions
QuotaHonoured == WithinQuota(stored) /\ \A p \in Procs : WithinQuota(mem[p])

(* A campaign is completed exactly when its cursor is past the last stage; *)
(* so an active one always has a stage to work on, and the completing      *)
(* return at the top of campaign_tick is never taken.                      *)
Finished(c) == c.status = "completed" <=> c.cursor = NumStages
CompletedIffPastLastStage == Finished(stored) /\ \A p \in Procs : Finished(mem[p])

(* A stage only ever refers to a deliverable produced for that very stage, *)
(* which passed its gate, was decided upon, and is recorded as accepted.   *)
AcceptedFor(d, s) ==
  /\ d \in DOMAIN runs
  /\ runs[d].stage = s
  /\ runs[d].phase = "accepted"
  /\ runs[d].passed
  /\ runs[d].verdict \in Accepting
RefersToAccepted(c) ==
  \A s \in Stages : LET d == c.stages[s].deliverable_id IN
    d # NoDeliverable => AcceptedFor(d, s)
ReferencesSound ==
  RefersToAccepted(stored) /\ \A p \in Procs : RefersToAccepted(mem[p])

(* Only an accepted deliverable is ever superseded. *)
SupersededWasAccepted == \A d \in superseded : runs[d].phase = "accepted"

(* A task run in progress belongs to one process, works on the stage that  *)
(* process is at, and is in the ledger just as far as the process is.      *)
PhaseAt ==
  [execute |-> "requested", produce |-> "completed", decide |-> "produced",
   route |-> "decided", accept |-> "decided", advance |-> "accepted"]
HasTask(p) == pc[p] \in DOMAIN PhaseAt
RunsOwned ==
  /\ \A p \in Procs : HasTask(p) =>
       /\ task[p] \in DOMAIN runs
       /\ runs[task[p]].stage = ActiveStage(mem[p])
       /\ runs[task[p]].phase = PhaseAt[pc[p]]
       /\ pc[p] = "accept" => runs[task[p]].verdict \in Accepting
  /\ \A p, q \in Procs : HasTask(p) /\ HasTask(q) /\ task[p] = task[q] => p = q

(* A recorded decision accepts only what passed the gate, and is acted on. *)
DecidedOnGate ==
  \A d \in DOMAIN runs : runs[d].verdict \in Accepting =>
    runs[d].passed /\ runs[d].phase \in {"decided", "accepted"}

(* A process inside a tick, or resetting stages, has an active campaign    *)
(* with a stage under its cursor; one about to request a task run has one  *)
(* left.                                                                   *)
AtWork ==
  \A p \in Procs :
    /\ HasTask(p) \/ pc[p] \in {"request", "revisit"} =>
         mem[p].status = "active" /\ mem[p].cursor < NumStages
    /\ pc[p] = "request" => mem[p].task_runs_used < MaxTaskRuns
    /\ pc[p] = "revisit" => idx[p] \in 1..NumStages + 1

(* All of the above, the inductive invariant of the engine: a reference is *)
(* sound because the run it names was owned, and decided on its gate, when *)
(* it was accepted; quotas hold because a process checks them at the start *)
(* of a tick and AtWork carries the check to the commits that follow.      *)
Invariant ==
  /\ TypeOK
  /\ QuotaHonoured
  /\ CompletedIffPastLastStage
  /\ ReferencesSound
  /\ SupersededWasAccepted
  /\ RunsOwned
  /\ DecidedOnGate
  /\ AtWork

(* The ledger tells one story per task run: its phases come in order, a    *)
(* failed, accepted or rejected run is closed for good, and its stage and, *)
(* once produced, its gate result are never revised.                       *)
NextPhases ==
  [requested |-> {"failed", "completed"}, failed |-> {},
   completed |-> {"produced"}, produced |-> {"decided"},
   decided |-> {"accepted", "rejected"}, accepted |-> {}, rejected |-> {}]
OneStoryPerRun ==
  [][\A i \in DOMAIN runs :
       /\ i \in DOMAIN runs'
       /\ runs'[i].stage = runs[i].stage
       /\ \/ runs'[i] = runs[i]
          \/ runs'[i].phase \in NextPhases[runs[i].phase]
       /\ runs[i].phase \in {"produced", "decided", "accepted", "rejected"}
            => runs'[i].passed = runs[i].passed]_vars

(***************************************************************************)
(* Properties of a campaign driven by one command at a time.               *)
(***************************************************************************)
Live(d) == d \in DOMAIN runs /\ runs[d].phase = "accepted" /\ d \notin superseded

(* At most one deliverable of a stage is live (accepted and not            *)
(* superseded), although a crash may separate the event that accepts a     *)
(* deliverable from the one that advances the cursor, so that the stage is *)
(* run again.                                                              *)
OneLivePerStage ==
  \A d, e \in DOMAIN runs :
    Live(d) /\ Live(e) /\ runs[d].stage = runs[e].stage => d = e

(* A live deliverable is never lost: the projection refers to it, so that  *)
(* whatever replaces it or takes it back will supersede it.                *)
LiveIsReferenced ==
  \A d \in DOMAIN runs :
    Live(d) => stored.stages[runs[d].stage].deliverable_id = d

(* The projection has a frontier at its cursor: every stage before it is   *)
(* accepted and has a deliverable, every stage after it is untouched.      *)
Untouched == [status |-> "pending", deliverable_id |-> NoDeliverable]
Frontier ==
  \A s \in Stages :
    /\ s <= stored.cursor => /\ stored.stages[s].status = "accepted"
                             /\ stored.stages[s].deliverable_id # NoDeliverable
    /\ s > stored.cursor + 1 => stored.stages[s] = Untouched

(* A command's memory is in step with the ledger: but for its counters of  *)
(* task runs and cost it is what another process would load, and so is     *)
(* every stage but the one just accepted, or the ones a revisit has reset; *)
(* and what the command is about to drop has been superseded before.       *)
ResetSoFar(p) == {s \in Stages : mem[p].cursor < s /\ s < idx[p]}
TickInStep(p) ==
  /\ mem[p].status = stored.status
  /\ mem[p].cursor = stored.cursor
  /\ mem[p].revisions_used = stored.revisions_used
  /\ \A s \in Stages :
       IF pc[p] = "advance" /\ s = ActiveStage(mem[p])
       THEN /\ mem[p].stages[s] = [status |-> "accepted", deliverable_id |-> task[p]]
            /\ stored.stages[s].deliverable_id = task[p]
       ELSE mem[p].stages[s] = stored.stages[s]
  /\ pc[p] = "accept" =>
       mem[p].stages[ActiveStage(mem[p])].deliverable_id \in superseded
RevisitInStep(p) ==
  /\ mem[p].revisions_used = stored.revisions_used + 1
  /\ mem[p].cursor < idx[p]
  /\ \A s \in Stages :
       IF s \in ResetSoFar(p)
       THEN /\ mem[p].stages[s] = Untouched
            /\ stored.stages[s].deliverable_id \in superseded \cup {NoDeliverable}
       ELSE mem[p].stages[s] = stored.stages[s]
MemoryInStep ==
  \A p \in Procs :
    /\ pc[p] \notin {"idle", "revisit"} => TickInStep(p)
    /\ pc[p] = "revisit" => RevisitInStep(p)

(* As long as no command has died, whatever the campaign refers to is      *)
(* live, but for the deliverable a tick is replacing, and those of the     *)
(* stages a revisit has gone through.                                      *)
Dropping(p, s) ==
  \/ pc[p] = "accept" /\ s = ActiveStage(mem[p])
  \/ pc[p] = "revisit" /\ s \in ResetSoFar(p)
NoneDangling ==
  \A s \in Stages : LET d == stored.stages[s].deliverable_id IN
    d # NoDeliverable /\ ~Live(d) => \E p \in Procs : Dropping(p, s)
ReferencesLive == used.crashes = 0 => NoneDangling

(* As long as no command has died, the worker of a task run is briefed     *)
(* with the accepted artifacts of the earlier stages, one per stage, none  *)
(* of them replaced.                                                       *)
BriefIsCurrent ==
  used.crashes = 0 =>
    \A p \in Procs : pc[p] = "execute" =>
      \A s \in 1..mem[p].cursor : Live(mem[p].stages[s].deliverable_id)

(***************************************************************************)
(* Liveness, under FairSpec.                                               *)
(***************************************************************************)
(* Every command returns to the shell. *)
CommandsEnd == \A p \in Procs : pc[p] # "idle" ~> pc[p] = "idle"

(* A run of the fake worker with enough ticks and quota for the stages     *)
(* that are left delivers the campaign unless it dies itself, whatever     *)
(* commands that died before it left in the ledger.                        *)
CanDeliver(p) ==
  LET left == NumStages - mem[p].cursor IN
  /\ pc[p] = "tick"
  /\ worker[p] = "fake"
  /\ mem[p].status = "active"
  /\ ticks[p] >= left
  /\ mem[p].task_runs_used + left <= MaxTaskRuns
  /\ mem[p].worker_cost_used + left * TaskCost <= MaxWorkerCost
FakeRunDelivers ==
  \A p \in Procs, crashed \in 0..MaxCrashes :
    CanDeliver(p) /\ used.crashes = crashed ~>
      stored.status = "completed" \/ used.crashes > crashed

(***************************************************************************)
(* What the repository says and the code does not do.                      *)
(***************************************************************************)
(* A completed campaign has every stage accepted. *)
CompletedMeansAllAccepted ==
  stored.status = "completed" => \A s \in Stages : stored.stages[s].status = "accepted"

(* The task runs requested of workers stay within max_task_runs. *)
RequestsWithinQuota == Len(runs) <= MaxTaskRuns

(* A decision whose level blocks leaves the campaign halted for a human.   *)
BlockingDecisionHalts ==
  \A d \in DOMAIN runs :
    (/\ d = Len(runs)
     /\ runs[d].interruption # Undecided
     /\ Autonomy!Blocks(runs[d].interruption)
     /\ \A p \in Procs : pc[p] = "idle")
    => stored.status # "active"
=============================================================================
