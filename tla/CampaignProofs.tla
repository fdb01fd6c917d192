--------------------------- MODULE CampaignProofs ---------------------------
(***************************************************************************)
(* Proofs about Campaign, for every number of processes, stages, quotas    *)
(* and bounds.  Commands interleave, crash and repeat as they please.      *)
(***************************************************************************)
EXTENDS Campaign, TLAPS

USE NumStagesAssumption, QuotaAssumption, WorkersAssumption, BoundsAssumption
 DEF Stages, NoDeliverable, NoTask

-----------------------------------------------------------------------------
(* Lemmas about the decision function and about updating the ledger.       *)

(* decide() returns a verdict and a level of their types, and accepts only *)
(* what passed the gate.                                                   *)
LEMMA JudgeType ==
  ASSUME NEW c \in Campaigns, NEW passed \in BOOLEAN
  PROVE  /\ Judge(c, passed).verdict \in Autonomy!Verdict
         /\ Judge(c, passed).interruption \in Autonomy!InterruptionLevel
         /\ Judge(c, passed).verdict \in Accepting => passed
<1> DEFINE tick == [required_permission |-> Autonomy!NoPermission, soul_blocker |-> FALSE,
                    validation_passed |-> passed,
                    is_final_stage |-> ActiveStage(c) = NumStages - 1]
           ruling == Autonomy!Route(Envelope, Usage(c), tick, Autonomy!DefaultPolicy)
<1>1. /\ Judge(c, passed).verdict = ruling.verdict
      /\ Judge(c, passed).interruption = ruling.interruption
  BY DEF Judge, Autonomy!Decide, Autonomy!DefaultPolicy
<1>2. \/ ruling = Autonomy!Ruling("pause", "decision")
      \/ ruling = Autonomy!Ruling("revise", "silent")
      \/ ruling = Autonomy!Ruling("revisit", "digest")
      \/ ruling = Autonomy!Ruling("ask_human", "decision")
      \/ passed /\ ruling = Autonomy!Ruling("finalize", "digest")
      \/ passed /\ ruling = Autonomy!Ruling("accept", "digest")
  BY DEF Autonomy!Route, Autonomy!DefaultPolicy, Autonomy!NoPermission
<1> QED
  BY <1>1, <1>2 DEF Autonomy!Ruling, Autonomy!Verdict, Autonomy!InterruptionLevel, Accepting

(* Replacing one record of the ledger leaves every other one alone.        *)
LEMMA ReplaceRun ==
  ASSUME NEW rs \in Seq(TaskRuns), NEW i \in DOMAIN rs, NEW r \in TaskRuns,
         NEW new, new = [rs EXCEPT ![i] = r]
  PROVE  /\ new \in Seq(TaskRuns)
         /\ DOMAIN new = DOMAIN rs
         /\ new[i] = r
         /\ \A j \in DOMAIN rs : j # i => new[j] = rs[j]
  OBVIOUS

(* Appending a record leaves every other one alone.                        *)
LEMMA AppendRun ==
  ASSUME NEW rs \in Seq(TaskRuns), NEW r \in TaskRuns,
         NEW new, new = Append(rs, r)
  PROVE  /\ new \in Seq(TaskRuns)
         /\ DOMAIN new = DOMAIN rs \cup {Len(rs) + 1}
         /\ Len(rs) + 1 \notin DOMAIN rs
         /\ new[Len(rs) + 1] = r
         /\ \A j \in DOMAIN rs : new[j] = rs[j]
  OBVIOUS

-----------------------------------------------------------------------------
(* The parts of the invariant, with the ledger as a parameter, so that an  *)
(* old campaign can be judged against a new ledger.                        *)
Refers(rs, c) ==
  \A s \in Stages : LET d == c.stages[s].deliverable_id IN
    d # NoDeliverable => /\ d \in DOMAIN rs
                         /\ rs[d].stage = s
                         /\ rs[d].phase = "accepted"
                         /\ rs[d].passed
                         /\ rs[d].verdict \in Accepting

Good(rs, c) == c \in Campaigns /\ WithinQuota(c) /\ Finished(c) /\ Refers(rs, c)

CounterTypes ==
  /\ revised \in Nat
  /\ used \in [commands : Nat, creates : Nat, crashes : Nat]

LocalTypes ==
  /\ pc \in [Procs -> PCs]
  /\ mem \in [Procs -> Campaigns]
  /\ ticks \in [Procs -> Nat]
  /\ worker \in [Procs -> {"fake", "claude", "unknown"}]
  /\ task \in [Procs -> Nat]
  /\ idx \in [Procs -> Nat]

LedgerSound ==
  /\ runs \in Seq(TaskRuns)
  /\ DecidedOnGate
  /\ \A d \in superseded : d \in DOMAIN runs /\ runs[d].phase = "accepted"

Owns(p) ==
  HasTask(p) => /\ task[p] \in DOMAIN runs
                /\ runs[task[p]].stage = ActiveStage(mem[p])
                /\ runs[task[p]].phase = PhaseAt[pc[p]]
                /\ pc[p] = "accept" => runs[task[p]].verdict \in Accepting

Works(p) ==
  /\ HasTask(p) \/ pc[p] \in {"request", "revisit"} =>
       mem[p].status = "active" /\ mem[p].cursor < NumStages
  /\ pc[p] = "request" => mem[p].task_runs_used < MaxTaskRuns
  /\ pc[p] = "revisit" => idx[p] \in 1..NumStages + 1

Apart == \A p, q \in Procs : HasTask(p) /\ HasTask(q) /\ task[p] = task[q] => p = q

Regrouped ==
  /\ CounterTypes
  /\ LocalTypes
  /\ LedgerSound
  /\ Good(runs, stored)
  /\ \A p \in Procs : Good(runs, mem[p]) /\ Owns(p) /\ Works(p)
  /\ Apart

(* The invariant, regrouped: the ledger, every campaign, every process.    *)
LEMMA Regroup == Invariant <=> Regrouped
<1>1. \A c : RefersToAccepted(c) <=> Refers(runs, c)
  BY DEF RefersToAccepted, AcceptedFor, Refers
<1>2. RunsOwned <=> (\A p \in Procs : Owns(p)) /\ Apart
  BY DEF RunsOwned, Owns, Apart
<1>3. AtWork <=> \A p \in Procs : Works(p)
  BY DEF AtWork, Works
<1>4. TypeOK <=> /\ CounterTypes
                 /\ LocalTypes
                 /\ stored \in Campaigns
                 /\ runs \in Seq(TaskRuns)
                 /\ superseded \subseteq DOMAIN runs
  BY DEF TypeOK, CounterTypes, LocalTypes
<1>5. /\ LocalTypes => \A p \in Procs : mem[p] \in Campaigns
      /\ LedgerSound <=> /\ runs \in Seq(TaskRuns)
                         /\ superseded \subseteq DOMAIN runs
                         /\ DecidedOnGate
                         /\ SupersededWasAccepted
  BY DEF LocalTypes, LedgerSound, SupersededWasAccepted
<1> QED
  BY <1>1, <1>2, <1>3, <1>4, <1>5
  DEF Invariant, QuotaHonoured, CompletedIffPastLastStage, ReferencesSound, Good, Regrouped

(* A campaign stays good while the ledger grows and keeps what it says of  *)
(* accepted runs.                                                          *)
LEMMA GoodKept ==
  ASSUME NEW rs, NEW new, NEW c, Good(rs, c),
         \A d \in DOMAIN rs : d \in DOMAIN new /\ (rs[d].phase = "accepted" => new[d] = rs[d])
  PROVE  Good(new, c)
<1>1. Refers(rs, c)
  BY DEF Good
<1>2. Refers(new, c)
  <2> SUFFICES ASSUME NEW s \in Stages, NEW d, d = c.stages[s].deliverable_id,
                      d # NoDeliverable
               PROVE  /\ d \in DOMAIN new
                      /\ new[d].stage = s
                      /\ new[d].phase = "accepted"
                      /\ new[d].passed
                      /\ new[d].verdict \in Accepting
    BY DEF Refers
  <2>1. /\ d \in DOMAIN rs
        /\ rs[d].stage = s
        /\ rs[d].phase = "accepted"
        /\ rs[d].passed
        /\ rs[d].verdict \in Accepting
    BY <1>1 DEF Refers
  <2>2. d \in DOMAIN new /\ new[d] = rs[d]
    BY <2>1
  <2> QED
    BY <2>1, <2>2
<1> QED
  BY <1>2 DEF Good

(* A campaign that differs from a good one in its counters only. *)
LEMMA GoodCounters ==
  ASSUME NEW rs, NEW c, Good(rs, c), NEW d \in Campaigns, d.stages = c.stages,
         WithinQuota(d), Finished(d)
  PROVE  Good(rs, d)
  BY DEF Good, Refers

(* So does a campaign that refers to less. *)
LEMMA RefersLess ==
  ASSUME NEW rs, NEW c, Refers(rs, c), NEW d,
         \A t \in Stages : d.stages[t].deliverable_id \in
                            {c.stages[t].deliverable_id, NoDeliverable}
  PROVE  Refers(rs, d)
  BY DEF Refers

(* What replacing one stage of a campaign makes of it. *)
StageRecords == [status : StageStatus, deliverable_id : Nat]
WithStage(c, s, st) == [c EXCEPT !.stages[s] = st]

LEMMA StageReplaced ==
  ASSUME NEW c \in Campaigns, NEW s \in Stages, NEW st \in StageRecords,
         NEW d, d = WithStage(c, s, st)
  PROVE  /\ d \in Campaigns
         /\ d.status = c.status /\ d.cursor = c.cursor
         /\ d.task_runs_used = c.task_runs_used
         /\ d.revisions_used = c.revisions_used
         /\ d.stages[s] = st
         /\ \A t \in Stages : t # s => d.stages[t] = c.stages[t]
<1>1. PICK ss : ss = [c.stages EXCEPT ![s] = st]
  OBVIOUS
<1>2. c.stages \in [Stages -> StageRecords]
  BY DEF Campaigns, StageRecords
<1>3. /\ ss \in [Stages -> StageRecords]
      /\ ss[s] = st
      /\ \A t \in Stages : t # s => ss[t] = c.stages[t]
  BY <1>1, <1>2
<1>4. d = [c EXCEPT !.stages = ss]
  BY <1>1 DEF WithStage
<1> QED
  BY <1>3, <1>4 DEF Campaigns, StageRecords

(* A campaign as create-btc builds it is good. *)
LEMMA FreshIsGood == ASSUME NEW rs PROVE Good(rs, FreshCampaign)
  BY DEF Good, Refers, FreshCampaign, Campaigns, CampaignStatus, StageStatus,
         WithinQuota, Finished

(* A process that ran to the end, or died, needs nothing. *)
LEMMA IdleIsFine ==
  ASSUME NEW p \in Procs, pc[p] = "idle"
  PROVE  ~HasTask(p) /\ Owns(p) /\ Works(p)
  BY DEF HasTask, PhaseAt, Owns, Works

(* A step of p leaves what other processes remember alone. *)
Alone(p) ==
  \A q \in Procs : q # p => /\ pc'[q] = pc[q] /\ mem'[q] = mem[q]
                            /\ task'[q] = task[q] /\ idx'[q] = idx[q]

(* A step of one process preserves the invariant if it leaves the ledger,  *)
(* the projection and that process in order, touches in the ledger only    *)
(* the run that process owns, and leaves the other processes alone.        *)
LEMMA OneProcessMoves ==
  ASSUME Invariant, NEW p \in Procs,
         CounterTypes', LocalTypes', LedgerSound', Alone(p),
         Good(runs', stored'), Good(runs', mem'[p]), Owns(p)', Works(p)',
         \A d \in DOMAIN runs : /\ d \in DOMAIN runs'
                                /\ runs[d].phase = "accepted" => runs'[d] = runs[d]
                                /\ runs'[d] = runs[d] \/ (HasTask(p) /\ d = task[p]),
         HasTask(p)' => \/ HasTask(p) /\ task'[p] = task[p]
                        \/ task'[p] \notin DOMAIN runs
  PROVE  Invariant'
<1>1. Regrouped
  BY Regroup
<1>2. \A q \in Procs : q # p => (HasTask(q)' <=> HasTask(q))
  BY DEF HasTask, Alone
<1>3. \A q \in Procs : HasTask(q) /\ q # p =>
        /\ task[q] \in DOMAIN runs
        /\ HasTask(p) => task[q] # task[p]
        /\ runs'[task[q]] = runs[task[q]]
  BY <1>1 DEF Regrouped, Owns, Apart
<1>4. \A q \in Procs : Good(runs', mem'[q])
  BY <1>1, GoodKept DEF Regrouped, Alone
<1>5. \A q \in Procs : Owns(q)'
  <2> SUFFICES ASSUME NEW q \in Procs, q # p PROVE Owns(q)'
    OBVIOUS
  <2> QED
    BY <1>1, <1>2, <1>3 DEF Regrouped, Owns, ActiveStage, Alone
<1>6. \A q \in Procs : Works(q)'
  BY <1>1, <1>2 DEF Regrouped, Works, Alone
<1>7. Apart'
  BY <1>1, <1>2, <1>3 DEF Regrouped, Apart, Alone
<1>8. Regrouped'
  BY <1>4, <1>5, <1>6, <1>7 DEF Regrouped
<1>9. Invariant' <=> Regrouped'
  BY Regroup, PTL
<1> QED
  BY <1>8, <1>9

-----------------------------------------------------------------------------
(* What the ends of a tick do to the process.                              *)
LEMMA ExitMoves ==
  ASSUME LocalTypes, NEW p \in Procs, Exit(p)
  PROVE  /\ LocalTypes' /\ Alone(p)
         /\ ~HasTask(p)' /\ Owns(p)' /\ Works(p)'
         /\ mem'[p] = FreshCampaign
<1>1. FreshCampaign \in Campaigns
  BY FreshIsGood DEF Good
<1>2. LocalTypes' /\ Alone(p) /\ mem'[p] = FreshCampaign /\ pc'[p] = "idle"
  BY <1>1 DEF LocalTypes, Exit, Alone, PCs
<1> QED
  BY <1>2 DEF HasTask, PhaseAt, Owns, Works

LEMMA NextTickMoves ==
  ASSUME LocalTypes, NEW p \in Procs, NEW c \in Campaigns, NextTick(p, c)
  PROVE  /\ LocalTypes' /\ Alone(p)
         /\ ~HasTask(p)' /\ Owns(p)' /\ Works(p)'
         /\ mem'[p] \in {c, FreshCampaign}
<1>1. CASE ticks[p] > 1
  <2>1. LocalTypes' /\ Alone(p) /\ mem'[p] = c /\ pc'[p] = "tick"
    BY <1>1 DEF LocalTypes, NextTick, Alone, PCs
  <2> QED
    BY <2>1 DEF HasTask, PhaseAt, Owns, Works
<1>2. CASE ~(ticks[p] > 1)
  BY <1>2, ExitMoves DEF NextTick
<1> QED
  BY <1>1, <1>2

(* A ledger that is not written stays sound. *)
LEMMA LedgerUnchanged ==
  ASSUME LedgerSound, UNCHANGED <<runs, superseded>>
  PROVE  LedgerSound'
  BY DEF LedgerSound, DecidedOnGate

(* Moving the run p owns on in its story keeps the ledger sound and every  *)
(* accepted run as it is.                                                  *)
LEMMA OwnRunMoves ==
  ASSUME Invariant, NEW p \in Procs, HasTask(p), pc[p] # "advance",
         NEW r \in TaskRuns, runs' = [runs EXCEPT ![task[p]] = r],
         r.verdict \in Accepting => r.passed /\ r.phase \in {"decided", "accepted"},
         UNCHANGED superseded
  PROVE  /\ LedgerSound'
         /\ DOMAIN runs' = DOMAIN runs
         /\ task[p] \in DOMAIN runs
         /\ runs'[task[p]] = r
         /\ \A d \in DOMAIN runs :
              /\ d \in DOMAIN runs'
              /\ runs[d].phase = "accepted" => runs'[d] = runs[d]
              /\ runs'[d] = runs[d] \/ (HasTask(p) /\ d = task[p])
<1>1. LedgerSound /\ Owns(p)
  BY Regroup DEF Regrouped
<1>2. task[p] \in DOMAIN runs /\ runs[task[p]].phase # "accepted"
  BY <1>1 DEF Owns, HasTask, PhaseAt
<1>3. /\ runs' \in Seq(TaskRuns)
      /\ DOMAIN runs' = DOMAIN runs
      /\ runs'[task[p]] = r
      /\ \A d \in DOMAIN runs : d # task[p] => runs'[d] = runs[d]
  BY <1>1, <1>2, ReplaceRun DEF LedgerSound
<1>4. LedgerSound'
  BY <1>1, <1>2, <1>3 DEF LedgerSound, DecidedOnGate
<1> QED
  BY <1>2, <1>3, <1>4

-----------------------------------------------------------------------------
(* Each action preserves the invariant. *)
LEMMA InitOK == Init => Invariant
<1> SUFFICES ASSUME Init PROVE Regrouped
  BY Regroup
<1>1. Good(runs, FreshCampaign)
  BY FreshIsGood
<1>2. CounterTypes /\ LocalTypes
  BY <1>1 DEF Init, CounterTypes, LocalTypes, Good, PCs
<1>3. LedgerSound
  BY DEF Init, LedgerSound, DecidedOnGate
<1>4. \A p \in Procs : ~HasTask(p) /\ Owns(p) /\ Works(p)
  BY IdleIsFine DEF Init
<1> QED
  BY <1>1, <1>2, <1>3, <1>4 DEF Regrouped, Init, Apart

LEMMA CreateAgainOK == Invariant /\ CreateAgain => Invariant'
<1> SUFFICES ASSUME Invariant, CreateAgain PROVE Regrouped'
  BY Regroup, PTL
<1>1. Regrouped
  BY Regroup
<1>2. LedgerSound'
  BY <1>1, LedgerUnchanged DEF Regrouped, CreateAgain
<1>3. Good(runs', stored')
  BY FreshIsGood DEF CreateAgain, AppendSnapshot
<1>4. CounterTypes' /\ LocalTypes'
  BY <1>1 DEF Regrouped, CounterTypes, LocalTypes, CreateAgain, local
<1>5. \A p \in Procs : Good(runs', mem'[p]) /\ Owns(p)' /\ Works(p)'
  BY <1>1 DEF Regrouped, CreateAgain, local, Owns, Works, HasTask
<1>6. Apart'
  BY <1>1 DEF Regrouped, CreateAgain, local, Apart, HasTask
<1> QED
  BY <1>2, <1>3, <1>4, <1>5, <1>6 DEF Regrouped

LEMMA StartRunOK ==
  ASSUME Invariant, NEW p \in Procs, NEW w \in Workers, NEW n \in 1..MaxTicks,
         StartRun(p, w, n)
  PROVE  Invariant'
<1>1. Regrouped
  BY Regroup
<1>2. /\ CounterTypes' /\ LocalTypes' /\ Alone(p)
      /\ pc'[p] = "tick" /\ mem'[p] = stored
  BY <1>1 DEF Regrouped, CounterTypes, LocalTypes, Good, StartRun, UseCommand,
              Alone, ledger, PCs
<1>3. UNCHANGED <<stored, runs, superseded>>
  BY DEF StartRun, ledger
<1>4. LedgerSound'
  BY <1>1, <1>3, LedgerUnchanged DEF Regrouped
<1>5. ~HasTask(p)' /\ Owns(p)' /\ Works(p)'
  BY <1>2 DEF HasTask, PhaseAt, Owns, Works
<1> QED
  BY <1>1, <1>2, <1>3, <1>4, <1>5, OneProcessMoves DEF Regrouped

LEMMA StartRevisitOK ==
  ASSUME Invariant, NEW p \in Procs, NEW s \in Stages, StartRevisit(p, s)
  PROVE  Invariant'
<1>1. Regrouped
  BY Regroup
<1>c. PICK c : c = [stored EXCEPT !.cursor = s - 1, !.status = "active",
                                  !.revisions_used = stored.revisions_used + 1]
  OBVIOUS
<1>2. Good(runs, c)
  <2>1. Good(runs, stored) /\ stored.revisions_used < MaxRevisions
    BY <1>1 DEF Regrouped, StartRevisit, MayRevisit
  <2>2. c \in Campaigns
    <3>1. stored \in Campaigns
      BY <2>1 DEF Good
    <3>2. PICK n \in 0..NumStages : n = s - 1
      OBVIOUS
    <3>3. PICK r \in Nat : r = stored.revisions_used + 1
      BY <3>1 DEF Campaigns
    <3>4. c = [stored EXCEPT !.cursor = n, !.status = "active", !.revisions_used = r]
      BY <1>c, <3>2, <3>3
    <3> QED
      BY <3>1, <3>4 DEF Campaigns, CampaignStatus
  <2>3. /\ c.stages = stored.stages
        /\ c.task_runs_used = stored.task_runs_used
        /\ c.revisions_used = stored.revisions_used + 1
        /\ c.status = "active"
        /\ c.cursor = s - 1
    BY <1>c, <2>1 DEF Good, Campaigns
  <2>4. WithinQuota(c) /\ Finished(c)
    BY <2>1, <2>2, <2>3 DEF Good, Campaigns, WithinQuota, Finished
  <2> QED
    BY <2>1, <2>2, <2>3, <2>4, GoodCounters
<1>3. /\ CounterTypes' /\ LocalTypes' /\ Alone(p)
      /\ pc'[p] = "revisit" /\ mem'[p] = c /\ idx'[p] = s
  BY <1>c, <1>1, <1>2 DEF Regrouped, CounterTypes, LocalTypes, Good, StartRevisit,
                          ReopenedAt, UseCommand, Alone, ledger, PCs
<1>4. UNCHANGED <<stored, runs, superseded>>
  BY DEF StartRevisit, ledger
<1>5. LedgerSound'
  BY <1>1, <1>4, LedgerUnchanged DEF Regrouped
<1>6. ~HasTask(p)' /\ Owns(p)'
  BY <1>3 DEF HasTask, PhaseAt, Owns
<1>7. Works(p)'
  <2>1. c.status = "active" /\ c.cursor < NumStages
    BY <1>c, <1>1 DEF Regrouped, Good, Campaigns
  <2> QED
    BY <1>3, <1>6, <2>1 DEF Works
<1> QED
  BY <1>1, <1>2, <1>3, <1>4, <1>5, <1>6, <1>7, OneProcessMoves DEF Regrouped

LEMMA StopAtGuardOK ==
  ASSUME Invariant, NEW p \in Procs, StopAtGuard(p) PROVE Invariant'
<1>1. Regrouped /\ UNCHANGED <<runs, superseded, revised, used>>
  BY Regroup DEF StopAtGuard
<1>2. CounterTypes' /\ LedgerSound'
  BY <1>1, LedgerUnchanged DEF Regrouped, CounterTypes
<1>3. Good(runs, stored')
  <2>1. TickGuard(mem[p]) \in {"not_active", "paused"}
    <3>1. mem[p] \in Campaigns /\ Finished(mem[p])
      BY <1>1 DEF Regrouped, Good
    <3>2. mem[p].cursor >= NumStages => mem[p].status # "active"
      BY <3>1 DEF Campaigns, Finished
    <3> QED
      BY <3>2 DEF StopAtGuard, TickGuard
  <2>2. CASE TickGuard(mem[p]) = "not_active"
    BY <1>1, <2>2 DEF Regrouped, StopAtGuard, AppendIgnored
  <2>3. CASE TickGuard(mem[p]) = "paused"
    <3>1. mem[p].status = "active" /\ stored' = [mem[p] EXCEPT !.status = "paused"]
      BY <2>3 DEF StopAtGuard, AppendSnapshot, TickGuard
    <3>2. Good(runs, mem[p]) /\ stored' \in Campaigns
      BY <1>1, <3>1 DEF Regrouped, Good, Campaigns, CampaignStatus
    <3>3. WithinQuota(stored') /\ Finished(stored') /\ stored'.stages = mem[p].stages
      BY <3>1, <3>2 DEF Good, Campaigns, WithinQuota, Finished
    <3> QED
      BY <3>2, <3>3, GoodCounters
  <2> QED
    BY <2>1, <2>2, <2>3
<1>4. Exit(p)
  BY DEF StopAtGuard
<1>5. Good(runs, FreshCampaign)
  BY FreshIsGood
<1> QED
  BY <1>1, <1>2, <1>3, <1>4, <1>5, ExitMoves, OneProcessMoves DEF Regrouped

(* A run still in the hands of the worker or the gate is not decided.      *)
LEMMA NotYetDecided ==
  ASSUME Invariant, NEW p \in Procs, pc[p] \in {"execute", "produce", "decide"}
  PROVE  HasTask(p) /\ task[p] \in DOMAIN runs /\ ~(runs[task[p]].verdict \in Accepting)
  BY Regroup DEF Regrouped, Owns, HasTask, PhaseAt, LedgerSound, DecidedOnGate

(* In particular when only its phase moves. *)
LEMMA RecordRunMoves ==
  ASSUME Invariant, NEW p \in Procs, HasTask(p), pc[p] # "advance",
         NEW ph \in Phases, RecordRun(p, ph), UNCHANGED superseded,
         runs[task[p]].verdict \in Accepting => ph = "accepted"
  PROVE  /\ LedgerSound'
         /\ task[p] \in DOMAIN runs
         /\ task[p] \in DOMAIN runs'
         /\ runs'[task[p]].stage = runs[task[p]].stage
         /\ runs'[task[p]].passed = runs[task[p]].passed
         /\ runs'[task[p]].verdict = runs[task[p]].verdict
         /\ runs'[task[p]].phase = ph
         /\ \A d \in DOMAIN runs :
              /\ d \in DOMAIN runs'
              /\ runs[d].phase = "accepted" => runs'[d] = runs[d]
              /\ runs'[d] = runs[d] \/ (HasTask(p) /\ d = task[p])
<1>1. LedgerSound /\ Owns(p)
  BY Regroup DEF Regrouped
<1>2. task[p] \in DOMAIN runs /\ runs[task[p]] \in TaskRuns
  BY <1>1 DEF Owns, LedgerSound
<1>3. PICK r : r = [runs[task[p]] EXCEPT !.phase = ph]
  OBVIOUS
<1>4. /\ r \in TaskRuns
      /\ r.stage = runs[task[p]].stage
      /\ r.passed = runs[task[p]].passed
      /\ r.verdict = runs[task[p]].verdict
      /\ r.phase = ph
  BY <1>2, <1>3 DEF TaskRuns
<1>5. r.verdict \in Accepting => r.passed /\ r.phase \in {"decided", "accepted"}
  BY <1>1, <1>2, <1>4 DEF LedgerSound, DecidedOnGate
<1>6. runs' = [runs EXCEPT ![task[p]] = r]
  BY <1>3 DEF RecordRun
<1> QED
  BY <1>4, <1>5, <1>6, OwnRunMoves

(* Past the guards of a tick, there is a stage to run and a run to use.    *)
LEMMA GoMeans ==
  ASSUME NEW c \in Campaigns, TickGuard(c) = "go"
  PROVE  c.status = "active" /\ c.cursor < NumStages /\ c.task_runs_used < MaxTaskRuns
<1>1. c.status = "active" /\ ~(c.cursor >= NumStages) /\ ~(c.task_runs_used >= MaxTaskRuns)
  BY DEF TickGuard
<1> QED
  BY <1>1 DEF Campaigns

(* An active stage is one of the campaign's.                               *)
LEMMA ActiveStageIn ==
  ASSUME NEW c \in Campaigns, c.cursor < NumStages
  PROVE  ActiveStage(c) \in Stages
<1>1. c.cursor \in Nat
  BY DEF Campaigns
<1> QED
  BY <1>1 DEF ActiveStage, Stages

LEMMA StartStageOK ==
  ASSUME Invariant, NEW p \in Procs, StartStage(p) PROVE Invariant'
<1>1. Regrouped
  BY Regroup
<1>2. PICK s : s = ActiveStage(mem[p])
  OBVIOUS
<1>3. PICK c : c = [mem[p] EXCEPT !.stages[s].status = "active"]
  OBVIOUS
<1>4. /\ mem[p].status = "active" /\ mem[p].cursor < NumStages
      /\ mem[p].task_runs_used < MaxTaskRuns
  BY <1>1, GoMeans DEF Regrouped, Good, StartStage
<1>5. s \in Stages /\ mem[p] \in Campaigns
  BY <1>1, <1>2, <1>4, ActiveStageIn DEF Regrouped, Good
<1>6. /\ c \in Campaigns
      /\ c.status = mem[p].status /\ c.cursor = mem[p].cursor
      /\ c.task_runs_used = mem[p].task_runs_used
      /\ c.revisions_used = mem[p].revisions_used
      /\ \A t \in Stages : c.stages[t].deliverable_id = mem[p].stages[t].deliverable_id
  <2>1. PICK st : st = [mem[p].stages[s] EXCEPT !.status = "active"]
    OBVIOUS
  <2>2. c = WithStage(mem[p], s, st)
    BY <1>3, <2>1 DEF WithStage
  <2>3. mem[p].stages[s] \in StageRecords
    BY <1>5 DEF Campaigns, StageRecords
  <2>4. /\ st \in StageRecords
        /\ st.deliverable_id = mem[p].stages[s].deliverable_id
    BY <2>1, <2>3 DEF StageRecords, StageStatus
  <2> QED
    BY <1>5, <2>2, <2>4, StageReplaced
<1>7. Good(runs, c)
  <2>1. Good(runs, mem[p])
    BY <1>1 DEF Regrouped
  <2>2. WithinQuota(c) /\ Finished(c)
    BY <1>6, <2>1 DEF Good, WithinQuota, Finished
  <2>3. Refers(runs, c)
    BY <1>6, <2>1, RefersLess DEF Good
  <2> QED
    BY <1>6, <2>2, <2>3 DEF Good
<1>8. UNCHANGED <<runs, superseded, revised, used>> /\ stored' = c
  BY <1>2, <1>3 DEF StartStage, AppendSnapshot
<1>9. /\ LocalTypes' /\ Alone(p)
      /\ mem'[p] = c /\ pc'[p] = "request"
  BY <1>1, <1>2, <1>3, <1>6 DEF Regrouped, LocalTypes, Alone, StartStage, Goto, PCs
<1>10. ~HasTask(p)' /\ Owns(p)'
  BY <1>9 DEF HasTask, PhaseAt, Owns
<1>11. Works(p)'
  BY <1>4, <1>6, <1>9 DEF Works
<1>12. CounterTypes' /\ LedgerSound'
  BY <1>1, <1>8, LedgerUnchanged DEF Regrouped, CounterTypes
<1> QED
  BY <1>1, <1>7, <1>8, <1>9, <1>10, <1>11, <1>12, OneProcessMoves DEF Regrouped

LEMMA RequestTaskOK ==
  ASSUME Invariant, NEW p \in Procs, RequestTask(p) PROVE Invariant'
<1>1. Regrouped
  BY Regroup
<1>2. PICK s : s = ActiveStage(mem[p])
  OBVIOUS
<1>3. /\ mem[p].status = "active" /\ mem[p].cursor < NumStages
      /\ mem[p].task_runs_used < MaxTaskRuns
  <2>1. CASE pc[p] = "request"
    BY <1>1, <2>1 DEF Regrouped, Works
  <2>2. CASE TickGuard(mem[p]) = "go"
    BY <1>1, <2>2, GoMeans DEF Regrouped, Good
  <2> QED
    BY <2>1, <2>2 DEF RequestTask
<1>4. s \in Stages /\ mem[p] \in Campaigns
  BY <1>1, <1>2, <1>3, ActiveStageIn DEF Regrouped, Good
<1>5. PICK r : r = [stage |-> s, phase |-> "requested", passed |-> FALSE,
                    verdict |-> Undecided, interruption |-> Undecided]
  OBVIOUS
<1>6. r \in TaskRuns /\ ~(r.verdict \in Accepting)
  BY <1>4, <1>5 DEF TaskRuns, Phases, Undecided, Accepting
<1>7. /\ runs' \in Seq(TaskRuns)
      /\ DOMAIN runs' = DOMAIN runs \cup {Len(runs) + 1}
      /\ Len(runs) + 1 \notin DOMAIN runs
      /\ runs'[Len(runs) + 1] = r
      /\ \A d \in DOMAIN runs : runs'[d] = runs[d]
  <2>1. runs \in Seq(TaskRuns)
    BY <1>1 DEF Regrouped, LedgerSound
  <2>2. runs' = Append(runs, r)
    BY <1>2, <1>5 DEF RequestTask
  <2> QED
    BY <1>6, <2>1, <2>2, AppendRun
<1>8. LedgerSound'
  BY <1>1, <1>6, <1>7 DEF Regrouped, LedgerSound, DecidedOnGate, RequestTask
<1>9. PICK c : c = [mem[p] EXCEPT !.task_runs_used = mem[p].task_runs_used + 1,
                                  !.worker_cost_used = mem[p].worker_cost_used + TaskCost]
  OBVIOUS
<1>10. /\ c \in Campaigns
       /\ c.status = mem[p].status /\ c.cursor = mem[p].cursor
       /\ c.task_runs_used = mem[p].task_runs_used + 1
       /\ c.revisions_used = mem[p].revisions_used
       /\ c.stages = mem[p].stages
  <2>1. PICK n \in Nat : n = mem[p].task_runs_used + 1
    BY <1>4 DEF Campaigns
  <2>2. PICK m \in Nat : m = mem[p].worker_cost_used + TaskCost
    BY <1>4 DEF Campaigns
  <2>3. c = [mem[p] EXCEPT !.task_runs_used = n, !.worker_cost_used = m]
    BY <1>9, <2>1, <2>2
  <2> QED
    BY <1>4, <2>1, <2>3 DEF Campaigns
<1>11. Good(runs, c)
  <2>1. WithinQuota(c) /\ Finished(c)
    <3>1. Good(runs, mem[p]) /\ mem[p].task_runs_used \in Nat
      BY <1>1, <1>4 DEF Regrouped, Campaigns
    <3>2. c.task_runs_used <= MaxTaskRuns
      BY <1>3, <1>10, <3>1
    <3> QED
      BY <1>10, <3>1, <3>2 DEF Good, WithinQuota, Finished
  <2>2. Good(runs, mem[p])
    BY <1>1 DEF Regrouped
  <2> QED
    BY <1>10, <2>1, <2>2, GoodCounters
<1>12. Good(runs', c) /\ Good(runs', stored')
  <2>1. Good(runs, stored) /\ stored' = stored
    BY <1>1 DEF Regrouped, RequestTask, AppendIgnored
  <2> QED
    BY <1>7, <1>11, <2>1, GoodKept
<1>13. mem' = [mem EXCEPT ![p] = c]
  BY <1>9 DEF RequestTask
<1>14. /\ LocalTypes' /\ Alone(p)
       /\ mem'[p] = c /\ pc'[p] = "execute" /\ task'[p] = Len(runs) + 1
  <2>1. LocalTypes /\ c \in Campaigns
    BY <1>1, <1>10 DEF Regrouped
  <2>2. Len(runs) + 1 \in Nat
    BY <1>1 DEF Regrouped, LedgerSound
  <2>3. /\ pc' = [pc EXCEPT ![p] = "execute"]
        /\ task' = [task EXCEPT ![p] = Len(runs) + 1]
        /\ UNCHANGED <<ticks, worker, idx>>
    BY DEF RequestTask, Goto
  <2>4. LocalTypes'
    BY <1>13, <2>1, <2>2, <2>3 DEF LocalTypes, PCs
  <2> QED
    BY <1>13, <2>1, <2>3, <2>4 DEF LocalTypes, Alone
<1>15. Owns(p)' /\ Works(p)'
  BY <1>2, <1>3, <1>5, <1>7, <1>10, <1>14
  DEF Owns, Works, HasTask, PhaseAt, ActiveStage
<1>16. CounterTypes'
  BY <1>1 DEF Regrouped, CounterTypes, RequestTask
<1> QED
  BY <1>7, <1>8, <1>12, <1>14, <1>15, <1>16, OneProcessMoves

(* A tick that closes its run and ends the command. *)
LEMMA ClosingExitOK ==
  ASSUME Invariant, NEW p \in Procs, HasTask(p), pc[p] # "advance",
         NEW ph \in Phases, RecordRun(p, ph), Exit(p),
         ~(runs[task[p]].verdict \in Accepting),
         UNCHANGED <<stored, superseded, revised, used>>
  PROVE  Invariant'
<1>1. Regrouped
  BY Regroup
<1>2. CounterTypes'
  BY <1>1 DEF Regrouped, CounterTypes
<1>3. Good(runs', stored')
  BY <1>1, RecordRunMoves, GoodKept DEF Regrouped
<1>4. Good(runs', mem'[p])
  BY <1>1, ExitMoves, FreshIsGood DEF Regrouped
<1> QED
  BY <1>1, <1>2, <1>3, <1>4, ExitMoves, RecordRunMoves, OneProcessMoves DEF Regrouped

LEMMA DenyTaskOK ==
  ASSUME Invariant, NEW p \in Procs, DenyTask(p) PROVE Invariant'
  BY ClosingExitOK, NotYetDecided DEF DenyTask, AppendIgnored, Phases

LEMMA RejectDeliverableOK ==
  ASSUME Invariant, NEW p \in Procs, RejectDeliverable(p) PROVE Invariant'
  BY ClosingExitOK
  DEF RejectDeliverable, AppendIgnored, HasTask, PhaseAt, Phases, Accepting

LEMMA FailTaskOK ==
  ASSUME Invariant, NEW p \in Procs, FailTask(p) PROVE Invariant'
<1>1. Regrouped
  BY Regroup
<1>2. /\ HasTask(p) /\ pc[p] # "advance" /\ "failed" \in Phases
      /\ ~(runs[task[p]].verdict \in Accepting)
  BY NotYetDecided DEF FailTask, Phases
<1>3. RecordRun(p, "failed") /\ NextTick(p, mem[p])
      /\ UNCHANGED <<stored, superseded, revised, used>>
  BY DEF FailTask, AppendIgnored
<1>4. CounterTypes'
  BY <1>1, <1>3 DEF Regrouped, CounterTypes
<1>5. Good(runs', stored') /\ Good(runs', mem[p]) /\ Good(runs', FreshCampaign)
  BY <1>1, <1>2, <1>3, RecordRunMoves, GoodKept, FreshIsGood DEF Regrouped
<1>6. mem[p] \in Campaigns /\ LocalTypes
  BY <1>1 DEF Regrouped, Good
<1> QED
  BY <1>2, <1>3, <1>4, <1>5, <1>6, NextTickMoves, RecordRunMoves, OneProcessMoves

(* A step that moves the run on and stays within the tick.                 *)
LEMMA RunMovesOnOK ==
  ASSUME Invariant, NEW p \in Procs, HasTask(p), pc[p] # "advance",
         NEW r \in TaskRuns, runs' = [runs EXCEPT ![task[p]] = r],
         r.verdict \in Accepting => r.passed /\ r.phase \in {"decided", "accepted"},
         r.stage = runs[task[p]].stage,
         LocalTypes', Alone(p),
         pc'[p] \in {"produce", "decide", "route"}, r.phase = PhaseAt[pc'[p]],
         UNCHANGED <<stored, superseded, revised, used, mem, task>>
  PROVE  Invariant'
<1>1. Regrouped
  BY Regroup
<1>2. CounterTypes'
  BY <1>1 DEF Regrouped, CounterTypes
<1>3. Good(runs', stored') /\ Good(runs', mem'[p])
  <2>1. Good(runs, stored) /\ Good(runs, mem[p])
    BY <1>1 DEF Regrouped
  <2>2. \A d \in DOMAIN runs :
          d \in DOMAIN runs' /\ (runs[d].phase = "accepted" => runs'[d] = runs[d])
    BY OwnRunMoves
  <2>3. ASSUME NEW c, Good(runs, c) PROVE Good(runs', c)
    BY ONLY <2>2, <2>3, GoodKept
  <2>4. Good(runs', stored) /\ Good(runs', mem[p])
    BY <2>1, <2>3
  <2>5. stored' = stored /\ mem'[p] = mem[p]
    OBVIOUS
  <2> QED
    BY <2>4, <2>5
<1>4. HasTask(p)'
  BY DEF HasTask, PhaseAt
<1>5. Works(p)'
  BY <1>1, <1>4 DEF Regrouped, Works
<1>6. Owns(p)'
  BY <1>1, OwnRunMoves DEF Regrouped, Owns, ActiveStage
<1> QED
  BY <1>2, <1>3, <1>4, <1>5, <1>6, OwnRunMoves, OneProcessMoves

LEMMA CompleteTaskOK ==
  ASSUME Invariant, NEW p \in Procs, CompleteTask(p) PROVE Invariant'
<1>1. Regrouped
  BY Regroup
<1>2. HasTask(p) /\ pc[p] = "execute" /\ ~(runs[task[p]].verdict \in Accepting)
  BY NotYetDecided DEF CompleteTask
<1>3. UNCHANGED <<stored, superseded, revised, used, mem, task>>
  BY DEF CompleteTask, AppendIgnored
<1>4. PICK r : r = [runs[task[p]] EXCEPT !.phase = "completed"]
  OBVIOUS
<1>5. runs[task[p]] \in TaskRuns
  BY <1>1, <1>2 DEF Regrouped, Owns, LedgerSound
<1>6. /\ r \in TaskRuns
      /\ r.stage = runs[task[p]].stage
      /\ r.phase = "completed"
      /\ ~(r.verdict \in Accepting)
  BY <1>2, <1>4, <1>5 DEF TaskRuns, Phases
<1>7. runs' = [runs EXCEPT ![task[p]] = r]
  BY <1>4 DEF CompleteTask, RecordRun
<1>8. LocalTypes' /\ Alone(p) /\ pc'[p] = "produce"
  BY <1>1, <1>3 DEF Regrouped, LocalTypes, Alone, CompleteTask, Goto, PCs
<1>9. r.phase = PhaseAt[pc'[p]]
  BY <1>6, <1>8 DEF PhaseAt
<1> QED
  BY <1>2, <1>3, <1>6, <1>7, <1>8, <1>9, RunMovesOnOK

LEMMA ProduceDeliverableOK ==
  ASSUME Invariant, NEW p \in Procs, NEW passed \in BOOLEAN,
         ProduceDeliverable(p, passed)
  PROVE  Invariant'
<1>1. Regrouped
  BY Regroup
<1>2. HasTask(p) /\ pc[p] = "produce"
  BY DEF ProduceDeliverable, HasTask, PhaseAt
<1>3. UNCHANGED <<stored, superseded, revised, used, mem, task>>
  BY DEF ProduceDeliverable, AppendIgnored
<1>4. /\ task[p] \in DOMAIN runs
      /\ runs[task[p]] \in TaskRuns
      /\ runs[task[p]].stage = ActiveStage(mem[p])
      /\ ~(runs[task[p]].verdict \in Accepting)
  BY <1>1, <1>2, NotYetDecided DEF Regrouped, Owns, LedgerSound
<1>5. PICK r : r = [runs[task[p]] EXCEPT !.phase = "produced", !.passed = passed]
  OBVIOUS
<1>6. /\ r \in TaskRuns
      /\ r.stage = runs[task[p]].stage
      /\ r.phase = "produced"
      /\ ~(r.verdict \in Accepting)
  BY <1>4, <1>5 DEF TaskRuns, Phases
<1>7. runs' = [runs EXCEPT ![task[p]] = r]
  BY <1>5 DEF ProduceDeliverable
<1>8. LocalTypes' /\ Alone(p) /\ pc'[p] = "decide"
  BY <1>1, <1>3 DEF Regrouped, LocalTypes, Alone, ProduceDeliverable, Goto, PCs
<1>9. r.phase = PhaseAt[pc'[p]]
  BY <1>6, <1>8 DEF PhaseAt
<1> QED
  BY <1>2, <1>3, <1>6, <1>7, <1>8, <1>9, RunMovesOnOK

LEMMA DecideStageOK ==
  ASSUME Invariant, NEW p \in Procs, DecideStage(p) PROVE Invariant'
<1>1. Regrouped
  BY Regroup
<1>2. HasTask(p) /\ pc[p] = "decide"
  BY DEF DecideStage, HasTask, PhaseAt
<1>3. UNCHANGED <<stored, superseded, revised, used, mem, task>>
  BY DEF DecideStage, AppendIgnored
<1>4. /\ task[p] \in DOMAIN runs
      /\ runs[task[p]] \in TaskRuns
      /\ runs[task[p]].stage = ActiveStage(mem[p])
      /\ mem[p] \in Campaigns
  BY <1>1, <1>2 DEF Regrouped, Owns, LedgerSound, Good
<1>5. PICK v : v = Judge(mem[p], runs[task[p]].passed).verdict
  OBVIOUS
<1>6. PICK l : l = Judge(mem[p], runs[task[p]].passed).interruption
  OBVIOUS
<1>7. /\ v \in Autonomy!Verdict
      /\ l \in Autonomy!InterruptionLevel
      /\ v \in Accepting => runs[task[p]].passed
  <2>1. runs[task[p]].passed \in BOOLEAN
    BY <1>4 DEF TaskRuns
  <2> QED
    BY <1>4, <1>5, <1>6, <2>1, JudgeType
<1>8. PICK r : r = [runs[task[p]] EXCEPT !.phase = "decided", !.verdict = v,
                                         !.interruption = l]
  OBVIOUS
<1>9. /\ r \in TaskRuns
      /\ r.stage = runs[task[p]].stage
      /\ r.phase = "decided"
      /\ r.verdict \in Accepting => r.passed
  BY <1>4, <1>7, <1>8 DEF TaskRuns, Phases
<1>10. runs' = [runs EXCEPT ![task[p]] = r]
  BY <1>5, <1>6, <1>8 DEF DecideStage
<1>11. LocalTypes' /\ Alone(p) /\ pc'[p] = "route"
  BY <1>1, <1>3 DEF Regrouped, LocalTypes, Alone, DecideStage, Goto, PCs
<1>12. r.phase = PhaseAt[pc'[p]]
  BY <1>9, <1>11 DEF PhaseAt
<1> QED
  BY <1>2, <1>3, <1>9, <1>10, <1>11, <1>12, RunMovesOnOK

LEMMA PauseCampaignOK ==
  ASSUME Invariant, NEW p \in Procs, PauseCampaign(p) PROVE Invariant'
<1>1. Regrouped /\ UNCHANGED <<runs, superseded, revised, used>>
  BY Regroup DEF PauseCampaign
<1>2. CounterTypes' /\ LedgerSound'
  BY <1>1, LedgerUnchanged DEF Regrouped, CounterTypes
<1>3. Good(runs, stored')
  <2>1. Good(runs, mem[p]) /\ mem[p].cursor < NumStages
    BY <1>1 DEF Regrouped, Works, HasTask, PhaseAt, PauseCampaign
  <2>2. stored' = [mem[p] EXCEPT !.status = "paused"]
    BY DEF PauseCampaign, AppendSnapshot
  <2>3. stored' \in Campaigns /\ stored'.stages = mem[p].stages
    BY <2>1, <2>2 DEF Good, Campaigns, CampaignStatus
  <2>4. WithinQuota(stored') /\ Finished(stored')
    BY <2>1, <2>2 DEF Good, Campaigns, WithinQuota, Finished
  <2> QED
    BY <2>1, <2>3, <2>4, GoodCounters
<1>4. Exit(p) /\ Good(runs, FreshCampaign)
  BY FreshIsGood DEF PauseCampaign
<1> QED
  BY <1>1, <1>2, <1>3, <1>4, ExitMoves, OneProcessMoves DEF Regrouped

LEMMA SupersedeOldOK ==
  ASSUME Invariant, NEW p \in Procs, SupersedeOld(p) PROVE Invariant'
<1>1. Regrouped /\ UNCHANGED <<stored, runs, revised, mem, task, used>>
  BY Regroup DEF SupersedeOld, AppendIgnored
<1>2. HasTask(p) /\ pc[p] = "route" /\ runs[task[p]].verdict \in Accepting
  BY DEF SupersedeOld, HasTask, PhaseAt
<1>3. PICK old : old = mem[p].stages[ActiveStage(mem[p])].deliverable_id
  OBVIOUS
<1>4. ActiveStage(mem[p]) \in Stages
  BY <1>1, <1>2, ActiveStageIn DEF Regrouped, Works, Good
<1>5. old \in DOMAIN runs /\ runs[old].phase = "accepted"
  <2>1. Refers(runs, mem[p])
    BY <1>1 DEF Regrouped, Good
  <2>2. old # NoDeliverable
    BY <1>3 DEF SupersedeOld
  <2> QED
    BY <1>3, <1>4, <2>1, <2>2 DEF Refers
<1>6. superseded' = superseded \cup {old}
  BY <1>3 DEF SupersedeOld
<1>7. LedgerSound'
  BY <1>1, <1>5, <1>6 DEF Regrouped, LedgerSound, DecidedOnGate
<1>8. LocalTypes' /\ Alone(p) /\ pc'[p] = "accept"
  BY <1>1 DEF Regrouped, LocalTypes, Alone, SupersedeOld, Goto, PCs
<1>9. CounterTypes'
  BY <1>1 DEF Regrouped, CounterTypes
<1>10. Owns(p)' /\ Works(p)'
  BY <1>1, <1>2, <1>8 DEF Regrouped, Owns, Works, HasTask, PhaseAt, ActiveStage
<1> QED
  BY <1>1, <1>2, <1>7, <1>8, <1>9, <1>10, OneProcessMoves DEF Regrouped

LEMMA AcceptDeliverableOK ==
  ASSUME Invariant, NEW p \in Procs, AcceptDeliverable(p) PROVE Invariant'
<1>1. Regrouped
  BY Regroup
<1>2. /\ HasTask(p) /\ pc[p] # "advance" /\ "accepted" \in Phases
      /\ RecordRun(p, "accepted")
      /\ UNCHANGED <<superseded, revised, task, used>>
  BY DEF AcceptDeliverable, HasTask, PhaseAt, Phases
<1>3. PICK s : s = ActiveStage(mem[p])
  OBVIOUS
<1>4. s \in Stages
  BY <1>1, <1>2, <1>3, ActiveStageIn DEF Regrouped, Works, Good
<1>5. /\ task[p] \in DOMAIN runs
      /\ runs[task[p]].stage = s
      /\ runs[task[p]].verdict \in Accepting
      /\ runs[task[p]].passed
  BY <1>1, <1>2, <1>3
  DEF Regrouped, Owns, AcceptDeliverable, LedgerSound, DecidedOnGate
<1>6. /\ LedgerSound'
      /\ task[p] \in DOMAIN runs'
      /\ runs'[task[p]].stage = s
      /\ runs'[task[p]].verdict \in Accepting
      /\ runs'[task[p]].passed
      /\ runs'[task[p]].phase = "accepted"
  BY <1>2, <1>5, RecordRunMoves
<1>7. task[p] \in Nat
  BY <1>1 DEF Regrouped, LocalTypes
<1>8. ASSUME NEW c, Good(runs, c), NEW d, d \in Campaigns,
             d.status = c.status, d.cursor = c.cursor,
             d.task_runs_used = c.task_runs_used, d.revisions_used = c.revisions_used,
             d.stages[s].deliverable_id = task[p],
             \A t \in Stages : t # s => d.stages[t] = c.stages[t]
      PROVE  Good(runs', d)
  <2>1. Good(runs', c)
    BY <1>2, <1>5, <1>8, RecordRunMoves, GoodKept
  <2>2. Refers(runs', d)
    <3>1. Refers(runs', c)
      BY <2>1 DEF Good
    <3>2. \A t \in Stages : t # s =>
            d.stages[t].deliverable_id = c.stages[t].deliverable_id
      BY <1>8
    <3>3. d.stages[s].deliverable_id = task[p]
      BY <1>8
    <3> QED
      BY <1>6, <3>1, <3>2, <3>3 DEF Refers
  <2> QED
    BY <1>8, <2>2 DEF Good, WithinQuota, Finished
<1>9. PICK c : c = [mem[p] EXCEPT !.stages[s] = [status |-> "accepted",
                                                deliverable_id |-> task[p]]]
  OBVIOUS
<1>10. /\ c \in Campaigns
       /\ c.status = mem[p].status /\ c.cursor = mem[p].cursor
       /\ c.task_runs_used = mem[p].task_runs_used
       /\ c.revisions_used = mem[p].revisions_used
       /\ c.stages[s].deliverable_id = task[p]
       /\ \A t \in Stages : t # s => c.stages[t] = mem[p].stages[t]
  <2>1. [status |-> "accepted", deliverable_id |-> task[p]]
          \in StageRecords
    BY <1>7 DEF StageRecords, StageStatus
  <2>2. mem[p] \in Campaigns
    BY <1>1 DEF Regrouped, Good
  <2>3. PICK st : st = [status |-> "accepted", deliverable_id |-> task[p]]
    OBVIOUS
  <2>4. c = WithStage(mem[p], s, st)
    BY <1>9, <2>3 DEF WithStage
  <2>5. st \in StageRecords /\ st.deliverable_id = task[p]
    BY <2>1, <2>3
  <2> QED
    BY <1>4, <2>2, <2>4, <2>5, StageReplaced
<1>11. Good(runs', c)
  BY <1>1, <1>8, <1>10 DEF Regrouped
<1>12. Good(runs', stored')
  <2>1. stored \in Campaigns /\ Good(runs, stored)
    BY <1>1 DEF Regrouped, Good
  <2>2. stored' = [stored EXCEPT !.stages[s].deliverable_id = task[p]]
    BY <1>3 DEF AcceptDeliverable, AppendAccepted
  <2>3. /\ stored' \in Campaigns
        /\ stored'.status = stored.status /\ stored'.cursor = stored.cursor
        /\ stored'.task_runs_used = stored.task_runs_used
        /\ stored'.revisions_used = stored.revisions_used
        /\ stored'.stages[s].deliverable_id = task[p]
        /\ \A t \in Stages : t # s => stored'.stages[t] = stored.stages[t]
    <3>1. PICK st : st = [stored.stages[s] EXCEPT !.deliverable_id = task[p]]
      OBVIOUS
    <3>2. stored' = WithStage(stored, s, st)
      BY <2>2, <3>1 DEF WithStage
    <3>3. stored.stages[s] \in StageRecords
      BY <1>4, <2>1 DEF Campaigns, StageRecords
    <3>4. /\ st \in StageRecords
          /\ st.deliverable_id = task[p]
      BY <1>7, <3>1, <3>3 DEF StageRecords
    <3> QED
      BY <1>4, <2>1, <3>2, <3>4, StageReplaced
  <2> QED
    BY <1>8, <2>1, <2>3
<1>13. mem' = [mem EXCEPT ![p] = c]
  BY <1>3, <1>9 DEF AcceptDeliverable, AcceptedWith
<1>14. /\ LocalTypes' /\ Alone(p)
       /\ mem'[p] = c /\ pc'[p] = "advance"
  BY <1>1, <1>10, <1>13 DEF Regrouped, LocalTypes, Alone, AcceptDeliverable, Goto, PCs
<1>15. CounterTypes'
  BY <1>1, <1>2 DEF Regrouped, CounterTypes
<1>16. Owns(p)' /\ Works(p)'
  BY <1>1, <1>2, <1>3, <1>6, <1>10, <1>14
  DEF Regrouped, Owns, Works, HasTask, PhaseAt, ActiveStage
<1> QED
  BY <1>2, <1>5, <1>6, <1>11, <1>12, <1>14, <1>15, <1>16, RecordRunMoves, OneProcessMoves

LEMMA AdvanceOK ==
  ASSUME Invariant, NEW p \in Procs, Advance(p) PROVE Invariant'
<1>1. Regrouped /\ UNCHANGED <<runs, superseded, revised, used>>
  BY Regroup DEF Advance
<1>2. CounterTypes' /\ LedgerSound'
  BY <1>1, LedgerUnchanged DEF Regrouped, CounterTypes
<1>3. /\ Good(runs, mem[p]) /\ mem[p] \in Campaigns
      /\ mem[p].status = "active" /\ mem[p].cursor < NumStages
  BY <1>1 DEF Regrouped, Good, Works, HasTask, PhaseAt, Advance
<1>4. PICK past \in 0..NumStages : past = mem[p].cursor + 1
  BY <1>3 DEF Campaigns
<1>5. PICK st \in CampaignStatus :
        st = IF past >= NumStages THEN "completed" ELSE "active"
  BY DEF CampaignStatus
<1>6. PICK c : c = [mem[p] EXCEPT !.cursor = past, !.status = st]
  OBVIOUS
<1>7. /\ c \in Campaigns /\ c.stages = mem[p].stages
      /\ c.status = st /\ c.cursor = past
      /\ c.task_runs_used = mem[p].task_runs_used
      /\ c.revisions_used = mem[p].revisions_used
  BY <1>3, <1>6 DEF Campaigns
<1>8. Good(runs, c)
  <2>1. WithinQuota(c) /\ Finished(c)
    BY <1>3, <1>4, <1>5, <1>7 DEF Good, WithinQuota, Finished
  <2> QED
    BY <1>3, <1>7, <2>1, GoodCounters
<1>9. stored' = c /\ (Exit(p) \/ NextTick(p, c))
  <2>1. c = Advanced(mem[p])
    BY <1>3, <1>4, <1>5, <1>6 DEF Advanced
  <2> QED
    BY <2>1 DEF Advance, AppendSnapshot
<1>10. Good(runs, FreshCampaign)
  BY FreshIsGood
<1>11. LocalTypes' /\ Alone(p) /\ ~HasTask(p)' /\ Owns(p)' /\ Works(p)'
       /\ mem'[p] \in {c, FreshCampaign}
  BY <1>1, <1>7, <1>9, ExitMoves, NextTickMoves DEF Regrouped
<1> QED
  BY <1>1, <1>2, <1>8, <1>9, <1>10, <1>11, OneProcessMoves

LEMMA RevisitStageOK ==
  ASSUME Invariant, NEW p \in Procs, RevisitStage(p) PROVE Invariant'
<1>1. /\ Regrouped
      /\ UNCHANGED <<stored, runs, revised, pc, ticks, worker, task, used>>
  BY Regroup DEF RevisitStage, AppendIgnored
<1>2. PICK s : s = idx[p]
  OBVIOUS
<1>3. /\ Good(runs, mem[p]) /\ mem[p] \in Campaigns
      /\ mem[p].status = "active" /\ mem[p].cursor < NumStages
      /\ s \in Stages /\ idx[p] \in Nat
  BY <1>1, <1>2 DEF Regrouped, Good, Works, RevisitStage
<1>4. LedgerSound'
  <2>1. PICK old : old = mem[p].stages[s].deliverable_id
    OBVIOUS
  <2>2. superseded' = IF old # NoDeliverable THEN superseded \cup {old} ELSE superseded
    BY <1>2, <2>1 DEF RevisitStage, SupersededWith
  <2>3. old # NoDeliverable => old \in DOMAIN runs /\ runs[old].phase = "accepted"
    <3>1. Refers(runs, mem[p])
      BY <1>3 DEF Good
    <3> QED
      BY <1>3, <2>1, <3>1 DEF Refers
  <2> QED
    BY <1>1, <2>2, <2>3 DEF Regrouped, LedgerSound, DecidedOnGate
<1>5. PICK c : c = [mem[p] EXCEPT !.stages[s] = [status |-> "pending",
                                                deliverable_id |-> NoDeliverable]]
  OBVIOUS
<1>6. /\ c \in Campaigns
      /\ c.status = mem[p].status /\ c.cursor = mem[p].cursor
      /\ c.task_runs_used = mem[p].task_runs_used
      /\ c.revisions_used = mem[p].revisions_used
      /\ c.stages[s].deliverable_id = NoDeliverable
      /\ \A t \in Stages : t # s => c.stages[t] = mem[p].stages[t]
  <2>1. [status |-> "pending", deliverable_id |-> NoDeliverable]
          \in StageRecords
    BY DEF StageRecords, StageStatus, NoDeliverable
  <2>2. c = WithStage(mem[p], s, [status |-> "pending", deliverable_id |-> NoDeliverable])
    BY <1>5 DEF WithStage
  <2> QED
    BY <1>3, <2>1, <2>2, StageReplaced
<1>7. Good(runs, c)
  <2>1. WithinQuota(c) /\ Finished(c)
    BY <1>3, <1>6 DEF Good, WithinQuota, Finished
  <2>2. Refers(runs, c)
    <3>1. \A t \in Stages : c.stages[t].deliverable_id \in
                             {mem[p].stages[t].deliverable_id, NoDeliverable}
      BY <1>3, <1>6
    <3> QED
      BY <1>3, <3>1, RefersLess DEF Good
  <2> QED
    BY <1>6, <2>1, <2>2 DEF Good
<1>8. mem' = [mem EXCEPT ![p] = c] /\ idx' = [idx EXCEPT ![p] = s + 1]
  BY <1>2, <1>5 DEF RevisitStage, Reset
<1>9. LocalTypes' /\ Alone(p) /\ mem'[p] = c /\ idx'[p] = s + 1 /\ pc'[p] = "revisit"
  <2>1. LocalTypes /\ c \in Campaigns /\ s + 1 \in Nat
    BY <1>1, <1>2, <1>3, <1>6 DEF Regrouped
  <2>2. LocalTypes'
    BY <1>1, <1>8, <2>1 DEF LocalTypes
  <2>3. pc[p] = "revisit"
    BY DEF RevisitStage
  <2> QED
    BY <1>1, <1>8, <2>1, <2>2, <2>3 DEF LocalTypes, Alone
<1>10. CounterTypes'
  BY <1>1 DEF Regrouped, CounterTypes
<1>11. ~HasTask(p)' /\ Owns(p)' /\ Works(p)'
  BY <1>3, <1>6, <1>9 DEF Owns, Works, HasTask, PhaseAt
<1> QED
  BY <1>1, <1>4, <1>7, <1>9, <1>10, <1>11, OneProcessMoves DEF Regrouped

LEMMA FinishRevisitOK ==
  ASSUME Invariant, NEW p \in Procs, FinishRevisit(p) PROVE Invariant'
<1>1. /\ Regrouped /\ UNCHANGED <<runs, superseded, used>>
      /\ revised' = revised + 1 /\ stored' = mem[p] /\ Exit(p)
  BY Regroup DEF FinishRevisit, AppendSnapshot
<1>2. CounterTypes' /\ LedgerSound'
  BY <1>1, LedgerUnchanged DEF Regrouped, CounterTypes
<1>3. Good(runs, FreshCampaign)
  BY FreshIsGood
<1> QED
  BY <1>1, <1>2, <1>3, ExitMoves, OneProcessMoves DEF Regrouped

LEMMA CrashOK ==
  ASSUME Invariant, NEW p \in Procs, Crash(p) PROVE Invariant'
<1>1. Regrouped /\ UNCHANGED <<stored, runs, superseded, revised>> /\ Exit(p)
  BY Regroup DEF Crash, ledger
<1>2. CounterTypes' /\ LedgerSound'
  BY <1>1, LedgerUnchanged DEF Regrouped, CounterTypes, Crash
<1>3. Good(runs, FreshCampaign)
  BY FreshIsGood
<1> QED
  BY <1>1, <1>2, <1>3, ExitMoves, OneProcessMoves DEF Regrouped

-----------------------------------------------------------------------------
(* The theorems.                                                           *)

(* However commands interleave, die and are repeated, everything the       *)
(* engine keeps stays in order (Campaign!Invariant).                       *)
THEOREM Safety == Spec => []Invariant
<1>1. Init => Invariant
  BY InitOK
<1>2. Invariant /\ [Next]_vars => Invariant'
  <2> SUFFICES ASSUME Invariant, [Next]_vars PROVE Invariant'
    OBVIOUS
  <2>1. CASE UNCHANGED vars
    <3>1. UNCHANGED <<stored, runs, superseded, revised, pc, mem, ticks, worker,
                      task, idx, used>>
      BY <2>1 DEF vars, ledger, local
    <3>2. Invariant' <=> Regrouped'
      BY Regroup, PTL
    <3> QED
      BY <3>1, <3>2, Regroup
      DEF Regrouped, CounterTypes, LocalTypes, LedgerSound, DecidedOnGate, Owns,
          Works, HasTask, Apart
  <2>2. CASE CreateAgain
    BY <2>2, CreateAgainOK
  <2>3. ASSUME NEW p \in Procs, NEW w \in Workers, NEW n \in 1..MaxTicks,
               StartRun(p, w, n)
        PROVE  Invariant'
    BY <2>3, StartRunOK
  <2>4. ASSUME NEW p \in Procs, NEW s \in Stages, StartRevisit(p, s)
        PROVE  Invariant'
    BY <2>4, StartRevisitOK
  <2>5. ASSUME NEW p \in Procs, Tick(p) PROVE Invariant'
    BY <2>5, StopAtGuardOK, StartStageOK, RequestTaskOK, DenyTaskOK, FailTaskOK,
       CompleteTaskOK, ProduceDeliverableOK, DecideStageOK, PauseCampaignOK,
       RejectDeliverableOK, SupersedeOldOK, AcceptDeliverableOK, AdvanceOK DEF Tick
  <2>6. ASSUME NEW p \in Procs, Revisit(p) PROVE Invariant'
    BY <2>6, RevisitStageOK, FinishRevisitOK DEF Revisit
  <2>7. ASSUME NEW p \in Procs, Crash(p) PROVE Invariant'
    BY <2>7, CrashOK
  <2> QED
    BY <2>1, <2>2, <2>3, <2>4, <2>5, <2>6, <2>7 DEF Next
<1> QED
  BY <1>1, <1>2, PTL DEF Spec

(* Every variable stays in its type. *)
THEOREM TypesHold == Spec => []TypeOK
<1>1. Invariant => TypeOK
  BY DEF Invariant
<1> QED
  BY <1>1, Safety, PTL

(* No campaign, in the ledger or in the memory of any command, goes past   *)
(* its budget of task runs or revisions.                                   *)
THEOREM QuotasHold == Spec => []QuotaHonoured
<1>1. Invariant => QuotaHonoured
  BY DEF Invariant
<1> QED
  BY <1>1, Safety, PTL

(* A campaign is completed exactly when its cursor is past the last stage. *)
THEOREM CompletionIsTheEnd == Spec => []CompletedIffPastLastStage
<1>1. Invariant => CompletedIffPastLastStage
  BY DEF Invariant
<1> QED
  BY <1>1, Safety, PTL

(* A stage refers only to deliverables of its own that passed their gate,  *)
(* were decided upon and accepted.                                         *)
THEOREM ReferencesHold == Spec => []ReferencesSound
<1>1. Invariant => ReferencesSound
  BY DEF Invariant
<1> QED
  BY <1>1, Safety, PTL

(* Two commands never work on the same task run, and each finds its run in *)
(* the ledger where it left it.                                            *)
THEOREM RunsHaveOneOwner == Spec => []RunsOwned
<1>1. Invariant => RunsOwned
  BY DEF Invariant
<1> QED
  BY <1>1, Safety, PTL

-----------------------------------------------------------------------------
(* What one step may do to the story of a task run. *)
Continues(old, new) ==
  /\ new.stage = old.stage
  /\ new = old \/ new.phase \in NextPhases[old.phase]
  /\ old.phase \in {"produced", "decided", "accepted", "rejected"} => new.passed = old.passed

StoryStep ==
  \A i \in DOMAIN runs : i \in DOMAIN runs' /\ Continues(runs[i], runs'[i])

LEMMA StoryUnchanged == ASSUME UNCHANGED runs PROVE StoryStep
  BY DEF StoryStep, Continues

(* Rewriting the run p owns continues every story if it continues that one. *)
LEMMA StoryOfOwnRun ==
  ASSUME Invariant, NEW p \in Procs, HasTask(p),
         NEW r, runs' = [runs EXCEPT ![task[p]] = r],
         r.stage = runs[task[p]].stage,
         r.phase \in NextPhases[PhaseAt[pc[p]]],
         pc[p] \in {"execute", "produce"} \/ r.passed = runs[task[p]].passed
  PROVE  StoryStep
<1>1. LedgerSound /\ Owns(p)
  BY Regroup DEF Regrouped
<1>2. task[p] \in DOMAIN runs /\ runs[task[p]].phase = PhaseAt[pc[p]]
  BY <1>1 DEF Owns
<1>3. \A i \in DOMAIN runs : i \in DOMAIN runs' /\ (i # task[p] => runs'[i] = runs[i])
  BY <1>1, <1>2 DEF LedgerSound
<1>4. runs'[task[p]] = r
  BY <1>1, <1>2 DEF LedgerSound
<1>5. Continues(runs[task[p]], r)
  BY <1>2 DEF Continues, PhaseAt
<1>6. \A i \in DOMAIN runs : i # task[p] => Continues(runs[i], runs'[i])
  BY <1>3 DEF Continues
<1> QED
  BY <1>3, <1>4, <1>5, <1>6 DEF StoryStep

(* In particular when only its phase moves. *)
LEMMA StoryOfPhase ==
  ASSUME Invariant, NEW p \in Procs, HasTask(p), NEW ph \in Phases, RecordRun(p, ph),
         ph \in NextPhases[PhaseAt[pc[p]]]
  PROVE  StoryStep
<1>1. runs[task[p]] \in TaskRuns
  BY Regroup DEF Regrouped, LedgerSound, Owns
<1>2. PICK r : r = [runs[task[p]] EXCEPT !.phase = ph]
  OBVIOUS
<1>3. r.stage = runs[task[p]].stage /\ r.passed = runs[task[p]].passed /\ r.phase = ph
  BY <1>1, <1>2 DEF TaskRuns
<1>4. runs' = [runs EXCEPT ![task[p]] = r]
  BY <1>2 DEF RecordRun
<1> QED
  BY <1>3, <1>4, StoryOfOwnRun

LEMMA TickContinues ==
  ASSUME Invariant, NEW p \in Procs, Tick(p) PROVE StoryStep
<1>1. CASE StopAtGuard(p) \/ StartStage(p) \/ PauseCampaign(p) \/ SupersedeOld(p) \/ Advance(p)
  BY <1>1, StoryUnchanged DEF StopAtGuard, StartStage, PauseCampaign, SupersedeOld, Advance
<1>2. CASE RequestTask(p)
  <2>1. runs \in Seq(TaskRuns)
    BY Regroup DEF Regrouped, LedgerSound
  <2>2. \A i \in DOMAIN runs : i \in DOMAIN runs' /\ runs'[i] = runs[i]
    BY <1>2, <2>1 DEF RequestTask
  <2> QED
    BY <2>2 DEF StoryStep, Continues
<1>3. CASE DenyTask(p) \/ FailTask(p)
  <2>1. pc[p] = "execute" /\ RecordRun(p, "failed")
    BY <1>3 DEF DenyTask, FailTask
  <2>2. HasTask(p) /\ "failed" \in NextPhases[PhaseAt[pc[p]]] /\ "failed" \in Phases
    BY <2>1 DEF HasTask, PhaseAt, NextPhases, Phases
  <2> QED
    BY <2>1, <2>2, StoryOfPhase
<1>4. CASE CompleteTask(p)
  <2>1. pc[p] = "execute" /\ RecordRun(p, "completed")
    BY <1>4 DEF CompleteTask
  <2>2. HasTask(p) /\ "completed" \in NextPhases[PhaseAt[pc[p]]] /\ "completed" \in Phases
    BY <2>1 DEF HasTask, PhaseAt, NextPhases, Phases
  <2> QED
    BY <2>1, <2>2, StoryOfPhase
<1>5. CASE RejectDeliverable(p)
  <2>1. pc[p] = "route" /\ RecordRun(p, "rejected")
    BY <1>5 DEF RejectDeliverable
  <2>2. HasTask(p) /\ "rejected" \in NextPhases[PhaseAt[pc[p]]] /\ "rejected" \in Phases
    BY <2>1 DEF HasTask, PhaseAt, NextPhases, Phases
  <2> QED
    BY <2>1, <2>2, StoryOfPhase
<1>6. CASE AcceptDeliverable(p)
  <2>1. pc[p] \in {"route", "accept"} /\ RecordRun(p, "accepted")
    BY <1>6 DEF AcceptDeliverable
  <2>2. HasTask(p) /\ "accepted" \in NextPhases[PhaseAt[pc[p]]] /\ "accepted" \in Phases
    BY <2>1 DEF HasTask, PhaseAt, NextPhases, Phases
  <2> QED
    BY <2>1, <2>2, StoryOfPhase
<1>7. ASSUME NEW passed \in BOOLEAN, ProduceDeliverable(p, passed) PROVE StoryStep
  <2>1. HasTask(p) /\ pc[p] = "produce"
    BY <1>7 DEF ProduceDeliverable, HasTask, PhaseAt
  <2>2. runs[task[p]] \in TaskRuns
    BY <2>1, Regroup DEF Regrouped, LedgerSound, Owns
  <2>3. PICK r : r = [runs[task[p]] EXCEPT !.phase = "produced", !.passed = passed]
    OBVIOUS
  <2>4. r.stage = runs[task[p]].stage /\ r.phase = "produced"
    BY <2>2, <2>3 DEF TaskRuns
  <2>5. runs' = [runs EXCEPT ![task[p]] = r]
    BY <1>7, <2>3 DEF ProduceDeliverable
  <2>6. r.phase \in NextPhases[PhaseAt[pc[p]]]
    BY <2>1, <2>4 DEF NextPhases, PhaseAt
  <2> QED
    BY <2>1, <2>4, <2>5, <2>6, StoryOfOwnRun
<1>8. CASE DecideStage(p)
  <2>1. HasTask(p) /\ pc[p] = "decide"
    BY <1>8 DEF DecideStage, HasTask, PhaseAt
  <2>2. runs[task[p]] \in TaskRuns
    BY <2>1, Regroup DEF Regrouped, LedgerSound, Owns
  <2>3. PICK ruling : ruling = Judge(mem[p], runs[task[p]].passed)
    OBVIOUS
  <2>4. PICK r : r = [runs[task[p]] EXCEPT !.phase = "decided",
                                           !.verdict = ruling.verdict,
                                           !.interruption = ruling.interruption]
    OBVIOUS
  <2>5. /\ r.stage = runs[task[p]].stage /\ r.phase = "decided"
        /\ r.passed = runs[task[p]].passed
    BY <2>2, <2>4 DEF TaskRuns
  <2>6. runs' = [runs EXCEPT ![task[p]] = r]
    BY <1>8, <2>3, <2>4 DEF DecideStage
  <2>7. r.phase \in NextPhases[PhaseAt[pc[p]]]
    BY <2>1, <2>5 DEF NextPhases, PhaseAt
  <2> QED
    BY <2>1, <2>5, <2>6, <2>7, StoryOfOwnRun
<1> QED
  BY <1>1, <1>2, <1>3, <1>4, <1>5, <1>6, <1>7, <1>8 DEF Tick

LEMMA StepContinues == ASSUME Invariant, [Next]_vars PROVE StoryStep
<1>1. CASE UNCHANGED runs
  BY <1>1, StoryUnchanged
<1>2. ASSUME NEW p \in Procs, Tick(p) PROVE StoryStep
  BY <1>2, TickContinues
<1>3. (\E p \in Procs : Tick(p)) \/ UNCHANGED runs
  BY DEF Next, vars, ledger, CreateAgain, StartRun, StartRevisit, Revisit,
         RevisitStage, FinishRevisit, Crash
<1> QED
  BY <1>1, <1>2, <1>3

(* The ledger tells one story per task run. *)
THEOREM StoriesHold == Spec => OneStoryPerRun
<1>1. Invariant /\ [Next]_vars => StoryStep
  BY StepContinues
<1>2. [Next]_vars /\ StoryStep =>
        [\A i \in DOMAIN runs :
           /\ i \in DOMAIN runs'
           /\ runs'[i].stage = runs[i].stage
           /\ \/ runs'[i] = runs[i]
              \/ runs'[i].phase \in NextPhases[runs[i].phase]
           /\ runs[i].phase \in {"produced", "decided", "accepted", "rejected"}
                => runs'[i].passed = runs[i].passed]_vars
  BY DEF StoryStep, Continues
<1> QED
  BY <1>1, <1>2, Safety, PTL DEF Spec, OneStoryPerRun
=============================================================================
