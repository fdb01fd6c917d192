----------------------------- MODULE Execution ------------------------------
(***************************************************************************)
(* How a task run produces its artifact: the executors (fake, delegated,   *)
(* backtest), the files they write one after the other into the directory  *)
(* of the task run, and the acceptance gate that reads them back.          *)
(*                                                                         *)
(* Each command is a process that works on one task run at a time; it may  *)
(* die between any two files, and another may be writing meanwhile.        *)
(***************************************************************************)
EXTENDS ArtifactGate, Backtest

CONSTANTS
  Procs,             \* slots in which a command may be running
  RequiredSections,  \* sections a stage asks for: required_sections, min_sections
  Notes,             \* revision notes of a stage, as lines
  Answers,           \* texts a harness may return
  Caches,            \* price caches, as sequences of records
  Labels,            \* the dataset_source line of a cache
  MaxTasks,          \* bound: task runs in a behaviour
  MaxOutside,        \* bound: task runs that ask a harness or read a cache
  MaxCrashes         \* bound: processes that die between two steps

(* What the stage of the backtest asks for.                                *)
BacktestSections ==
  <<"strategies", "backtests", "metrics", "verdicts", "risks", "next_actions", "sources">>

ASSUME SectionsAssumption ==
  /\ RequiredSections \in Seq(Slugs) /\ "sources" \in ToSet(RequiredSections)
  /\ ToSet(BacktestSections) \cup {"title", "placeholder", "table"} \subseteq Slugs
ASSUME TextsAssumption == Notes \cup Answers \cup Labels \subseteq Seq(Lines)
ASSUME CachesAssumption ==
  Caches \subseteq Seq([date : Nat, kind : {"number", "inf", "nan", "huge", "text"}, close : Int])
ASSUME LimitsAssumption == MaxTasks \in Nat /\ MaxOutside \in Nat /\ MaxCrashes \in Nat

VARIABLES
  tasks,     \* the task runs: who works on each, what it was given, its phase
  evidence,  \* btc_backtest_results.json in each directory
  artifact,  \* the artifact in each directory
  meta,      \* its metadata file
  pc,        \* where each process is
  task,      \* its task run
  used       \* how much of each bound has been used

disk == <<evidence, artifact, meta>>
vars == <<tasks, disk, pc, task, used>>

Routes == {"fake", "harness", "backtest"}
PCs == Routes \cup {"idle", "evidence", "artifact", "meta", "gate"}
Phases == {"requested", "failed", "accepted", "rejected"}
Given == Notes \cup Answers \cup Labels \cup {<<>>}
TaskRuns == [route : Routes, phase : Phases, given : Given, rows : Caches \cup {<<>>}]
NoTask == 0

(***************************************************************************)
(* Where the files go, and what is in them.                                *)
(***************************************************************************)
(* Mutant: the directory is named for the stage alone. *)
WorkspaceOfStage(t) == 1

(* task_workspace: a directory for every task run.                         *)
Workspace(t) == t

(* A heading, an empty line, the body and another empty line for each.     *)
Enlist(sections, body) ==
  [i \in 1..(4 * Len(sections)) |->
     LET slug == sections[(i + 3) \div 4] IN
     CASE i % 4 = 1 -> Heading(slug)
       [] i % 4 = 3 -> body[slug]
       [] OTHER -> Blank]

(* Mutant: the placeholder is the same for every section. *)
FakeTextUnlisted(notes) ==
  <<Prose("title"), Blank>> \o
    Enlist(RequiredSections, [slug \in Slugs |-> Prose("placeholder")]) \o notes

(* FakeTaskRunExecutor: a placeholder for each section, then the notes.    *)
FakeText(notes) ==
  LET body == [slug \in Slugs |-> IF slug = "sources" THEN Item ELSE Prose("placeholder")]
  IN <<Prose("title"), Blank>> \o Enlist(RequiredSections, body) \o notes

(* render_btc_backtest_markdown: the label is listed first among the       *)
(* figures of the dataset, and last among the sources.                     *)
BacktestText(label) ==
  LET body == [slug \in Slugs |-> IF slug = "metrics" THEN Prose("table") ELSE Item]
  IN <<Prose("title"), Blank>> \o Enlist(<<"strategies">>, body)
       \o <<Heading("backtests"), Blank>> \o label \o <<Item, Blank>>
       \o Enlist(<<"metrics", "verdicts", "risks", "next_actions">>, body)
       \o <<Heading("sources"), Blank, Item>> \o label

ArtifactText(t) ==
  CASE tasks[t].route = "fake" -> FakeText(tasks[t].given)
    [] tasks[t].route = "harness" -> StripCodeFence(tasks[t].given)
    [] tasks[t].route = "backtest" -> BacktestText(tasks[t].given)

(***************************************************************************)
(* What a step does to the process that takes it.                          *)
(***************************************************************************)
Goto(p, where) == pc' = [pc EXCEPT ![p] = where] /\ UNCHANGED task
Leave(p) == pc' = [pc EXCEPT ![p] = "idle"] /\ task' = [task EXCEPT ![p] = NoTask]
Give(p, given, rows) ==
  tasks' = [tasks EXCEPT ![task[p]] = [@ EXCEPT !.given = given, !.rows = rows]]

(* Mutant: a task run that failed is left as it was requested. *)
FailSilently(p, given, rows) == Give(p, given, rows) /\ Leave(p)

(* Mutant: the process goes away with the task run that failed. *)
FailHeld(p, given, rows) ==
  /\ tasks' = [tasks EXCEPT ![task[p]] =
                 [@ EXCEPT !.given = given, !.rows = rows, !.phase = "failed"]]
  /\ Goto(p, "idle")

Fail(p, given, rows) ==
  /\ tasks' = [tasks EXCEPT ![task[p]] =
                 [@ EXCEPT !.given = given, !.rows = rows, !.phase = "failed"]]
  /\ Leave(p)

Init ==
  /\ tasks = <<>>
  /\ evidence = [t \in 1..MaxTasks |-> Absent]
  /\ artifact = [t \in 1..MaxTasks |-> Absent]
  /\ meta = [t \in 1..MaxTasks |-> Absent]
  /\ pc = [p \in Procs |-> "idle"]
  /\ task = [p \in Procs |-> NoTask]
  /\ used = [outside |-> 0, crashes |-> 0]

(* A task run is requested; worker and kind settle who executes it.        *)
Request(p, route) ==
  /\ pc[p] = "idle"
  /\ Len(tasks) < MaxTasks
  /\ route = "fake" \/ used.outside < MaxOutside
  /\ used' = [used EXCEPT !.outside = IF route = "fake" THEN @ ELSE @ + 1]
  /\ tasks' = Append(tasks, [route |-> route, phase |-> "requested", given |-> <<>>, rows |-> <<>>])
  /\ task' = [task EXCEPT ![p] = Len(tasks) + 1]
  /\ pc' = [pc EXCEPT ![p] = route]
  /\ UNCHANGED disk

RunFake(p, notes) ==
  /\ pc[p] = "fake"
  /\ Give(p, notes, <<>>)
  /\ Goto(p, "artifact")
  /\ UNCHANGED <<disk, used>>

(* A delegation that is denied, fails or leaks returns no text.            *)
HarnessFails(p) ==
  /\ pc[p] = "harness"
  /\ Fail(p, <<>>, <<>>)
  /\ UNCHANGED <<disk, used>>

RunHarness(p, answer) ==
  /\ pc[p] = "harness"
  /\ ~ContainsSecretMaterial(answer)
  /\ IF StripCodeFence(answer) = <<>>
     THEN Fail(p, answer, <<>>)
     ELSE Give(p, answer, <<>>) /\ Goto(p, "artifact")
  /\ UNCHANGED <<disk, used>>

(* The cache is missing, or is no JSON.                                    *)
CacheUnreadable(p) ==
  /\ pc[p] = "backtest"
  /\ Fail(p, <<>>, <<>>)
  /\ UNCHANGED <<disk, used>>

(* An overflow takes the process down: the task run stays requested.       *)
RunBacktest(p, rows, label) ==
  /\ pc[p] = "backtest"
  /\ CASE Run(rows) = Fine -> Give(p, label, rows) /\ Goto(p, "evidence")
       [] Run(rows) = Rejected -> Fail(p, label, rows)
       [] Run(rows) = Raised -> Give(p, label, rows) /\ Leave(p)
  /\ UNCHANGED <<disk, used>>

WriteEvidence(p) ==
  /\ pc[p] = "evidence"
  /\ evidence' = [evidence EXCEPT ![Workspace(task[p])] = File(Compute(tasks[task[p]].rows))]
  /\ Goto(p, "artifact")
  /\ UNCHANGED <<tasks, artifact, meta, used>>

(* write_artifact: the text, then what was parsed out of it.               *)
WriteArtifact(p) ==
  /\ pc[p] = "artifact"
  /\ artifact' = [artifact EXCEPT ![Workspace(task[p])] = File(Strip(ArtifactText(task[p])))]
  /\ Goto(p, "meta")
  /\ UNCHANGED <<tasks, evidence, meta, used>>

WriteMeta(p) ==
  /\ pc[p] = "meta"
  /\ meta' = [meta EXCEPT ![Workspace(task[p])] = File(Meta(ArtifactText(task[p])))]
  /\ Goto(p, "gate")
  /\ UNCHANGED <<tasks, evidence, artifact, used>>

(* The sections the stage of a task run asks for: only the stage of the    *)
(* backtest is routed to it.                                               *)
RequiredBy(t) ==
  ToSet(IF tasks[t].route = "backtest" THEN BacktestSections ELSE RequiredSections)

Passes(t) == ValidateArtifact(artifact[Workspace(t)], meta[Workspace(t)], RequiredBy(t))

(* The engine has the gate read both files back.                           *)
Validate(p) ==
  /\ pc[p] = "gate"
  /\ tasks' = [tasks EXCEPT ![task[p]] =
                 [@ EXCEPT !.phase = IF Passes(task[p]) THEN "accepted" ELSE "rejected"]]
  /\ Leave(p)
  /\ UNCHANGED <<disk, used>>

Crash(p) ==
  /\ pc[p] # "idle"
  /\ used.crashes < MaxCrashes
  /\ used' = [used EXCEPT !.crashes = @ + 1]
  /\ Leave(p)
  /\ UNCHANGED <<tasks, disk>>

Next ==
  \E p \in Procs :
    \/ \E route \in Routes : Request(p, route)
    \/ \E notes \in Notes : RunFake(p, notes)
    \/ HarnessFails(p)
    \/ \E answer \in Answers : RunHarness(p, answer)
    \/ CacheUnreadable(p)
    \/ \E rows \in Caches, label \in Labels : RunBacktest(p, rows, label)
    \/ WriteEvidence(p)
    \/ WriteArtifact(p)
    \/ WriteMeta(p)
    \/ Validate(p)
    \/ Crash(p)

Spec == Init /\ [][Next]_vars

-----------------------------------------------------------------------------
(* Tasks, files and processes have their types; a process has a task run   *)
(* exactly while it works on one.                                          *)
TypeOK ==
  /\ tasks \in Seq(TaskRuns)
  /\ Len(tasks) <= MaxTasks
  /\ DOMAIN evidence = 1..MaxTasks /\ DOMAIN artifact = 1..MaxTasks /\ DOMAIN meta = 1..MaxTasks
  /\ pc \in [Procs -> PCs]
  /\ task \in [Procs -> Nat]
  /\ \A p \in Procs : pc[p] = "idle" <=> task[p] = NoTask
  /\ used \in [outside : Nat, crashes : Nat]

Accepted == {t \in DOMAIN tasks : tasks[t].phase = "accepted"}
RejectedRuns == {t \in DOMAIN tasks : tasks[t].phase = "rejected"}

(* What the gate has accepted stays on disk as it was accepted, whatever   *)
(* task runs of the same stage come after it, write beside it or die half  *)
(* way: text, metadata and, for a backtest, its evidence.                  *)
HasEvidence(t) ==
  tasks[t].route = "backtest" => evidence[Workspace(t)] = File(Compute(tasks[t].rows))
HasText(t) == artifact[Workspace(t)] = File(Strip(ArtifactText(t)))
AcceptedIntact == \A t \in Accepted : Passes(t) /\ HasText(t) /\ HasEvidence(t)

(* What the parsers of the gate let through: every required section is     *)
(* headed, or its word stands right below an empty ##; an item is listed   *)
(* among the sources; and nothing looks like a credential.                 *)
AcceptedHasForm ==
  \A t \in Accepted : HasForm(Contents(artifact[Workspace(t)]), RequiredBy(t))

(* What the gate says of itself: every required section of what it accepts *)
(* is a real heading.                                                      *)
SectionsAreHeadings ==
  \A t \in Accepted :
    \A slug \in RequiredBy(t) : Heading(slug) \in ToSet(Contents(artifact[Workspace(t)]))

(* A harness that keeps to its brief, or to its brief in a fence, is not   *)
(* turned away; texts with a bare ##, which the brief does not forbid, are *)
(* not spoken of.                                                          *)
BriefFollowedPasses ==
  \A t \in RejectedRuns :
    tasks[t].route = "harness" => ~FollowsBrief(tasks[t].given, RequiredBy(t))

(* The workers of the house pass the gate of every stage, whatever the     *)
(* figures or the notes, unless these spell a credential.                  *)
InHousePasses ==
  \A t \in RejectedRuns :
    tasks[t].route # "harness" => ContainsSecretMaterial(tasks[t].given)

(* Evidence comes from dates that rise as text, each with a close above    *)
(* zero, infinite or NaN, never from a cache the checks should refuse.     *)
EvidenceFromSeries ==
  \A t \in DOMAIN tasks : evidence[Workspace(t)] # Absent => Series(tasks[t].rows)

(* The loops report what is meant.  The drawdown is the worst fall between *)
(* two days, whatever NaN or Inf lies between, and none when the first     *)
(* close is not a number; the trades are the days the strategy went in or  *)
(* out; when every close is a number, it has earned what the nights in the *)
(* market made, and its drawdown is the worst fall of that.                *)
FiguresMatch ==
  \A t \in DOMAIN tasks :
    LET file == evidence[Workspace(t)]
        figures == Contents(file)
        closes == Closes(tasks[t].rows)
    IN file # Absent =>
         /\ IF IsFinite(closes[1]) THEN IsWorstFall(closes, figures.drawdown)
                                   ELSE figures.drawdown = Frac(1, 1)
         /\ figures.sma.verdict = "BASELINE_RESULT" =>
              /\ figures.sma.trades = Changes(closes)
              /\ (\A i \in DOMAIN closes : IsFinite(closes[i])) =>
                   /\ Same(figures.sma.equity, Worth(closes)[Len(closes)])
                   /\ IsWorstFall(Worth(closes), figures.sma.drawdown)

(* A claim of the checks on a price cache: the closes an accepted backtest *)
(* rests on are all positive.                                              *)
ClosesPositive ==
  \A t \in Accepted :
    \A i \in DOMAIN tasks[t].rows : Less(Frac(0, 1), Price(tasks[t].rows[i]))

(* No task run is left without a verdict and without a process, unless the *)
(* process died or the figures of its cache overflow.                      *)
Abandoned ==
  {t \in DOMAIN tasks : tasks[t].phase = "requested" /\ \A p \in Procs : task[p] # t}
OnlyDeathAbandons ==
  Cardinality({t \in Abandoned : tasks[t].rows = <<>> \/ Run(tasks[t].rows) # Raised})
    <= used.crashes

(* The inductive invariants behind the theorems: a task run under way      *)
(* belongs to one process, whose files so far are in its own directory ... *)
RunsOwned ==
  /\ \A p \in Procs : pc[p] # "idle" =>
       /\ task[p] \in DOMAIN tasks
       /\ tasks[task[p]].phase = "requested"
       /\ pc[p] \in Routes => tasks[task[p]].route = pc[p]
  /\ \A p, q \in Procs : pc[p] # "idle" /\ pc[q] # "idle" /\ task[p] = task[q] => p = q
FilesAsWritten ==
  \A p \in Procs :
    /\ pc[p] \in {"artifact", "meta", "gate"} => HasEvidence(task[p])
    /\ pc[p] \in {"meta", "gate"} => HasText(task[p])
Invariant ==
  /\ TypeOK
  /\ RunsOwned
  /\ FilesAsWritten
  /\ AcceptedIntact

(* ... a verdict stands on both files as they were written ...             *)
HasMeta(t) == meta[Workspace(t)] = File(Meta(ArtifactText(t)))
Judged ==
  /\ \A p \in Procs : pc[p] = "gate" => HasMeta(task[p])
  /\ \A t \in Accepted \cup RejectedRuns : HasText(t) /\ HasMeta(t)
  /\ \A t \in RejectedRuns : ~Passes(t)

(* ... and evidence is what comes of a cache that has passed the checks,   *)
(* never there before it has.                                              *)
Evidenced ==
  /\ \A t \in DOMAIN evidence :
       evidence[t] # Absent =>
         /\ t \in DOMAIN tasks /\ Series(tasks[t].rows)
         /\ evidence[t] = File(Compute(tasks[t].rows))
  /\ \A p \in Procs : pc[p] = "evidence" => Series(tasks[task[p]].rows)
  /\ \A p \in Procs : pc[p] \in Routes => evidence[task[p]] = Absent
=============================================================================
