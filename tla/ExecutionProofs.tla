-------------------------- MODULE ExecutionProofs ---------------------------
(***************************************************************************)
(* Theorems about Execution, for every set of texts, caches and bounds.    *)
(* That accepted files stay as they are needs nothing of what the parsers  *)
(* compute; what the gate lets pass, and what the evidence reports, rests  *)
(* on the lemmas about parsers, checks and loops.                          *)
(***************************************************************************)
EXTENDS Execution, ArtifactProofs

LEMMA InitHolds == Init => Invariant
<1>1. SUFFICES ASSUME Init PROVE Invariant OBVIOUS
<1>2. TypeOK BY <1>1, LimitsAssumption DEF Init, TypeOK, PCs, NoTask
<1>3. DOMAIN tasks = {} BY <1>1 DEF Init
<1> QED BY <1>1, <1>2, <1>3
        DEF Init, Invariant, RunsOwned, FilesAsWritten, AcceptedIntact, Accepted

(* A task run that did not change, in a directory that did not, is what it *)
(* was.                                                                    *)
LEMMA SameRun ==
  ASSUME NEW t, tasks'[t] = tasks[t], evidence'[t] = evidence[t],
         artifact'[t] = artifact[t], meta'[t] = meta[t]
  PROVE  /\ HasEvidence(t)' = HasEvidence(t)
         /\ HasText(t)' = HasText(t)
         /\ HasMeta(t)' = HasMeta(t)
         /\ Passes(t)' = Passes(t)
<1>1. ArtifactText(t)' = ArtifactText(t) BY DEF ArtifactText
<1>2. HasEvidence(t)' = HasEvidence(t) BY DEF HasEvidence, Workspace
<1>3. HasText(t)' = HasText(t) BY <1>1 DEF HasText, Workspace
<1>4. Passes(t)' = Passes(t) BY DEF Passes, RequiredBy, Workspace
<1>5. HasMeta(t)' = HasMeta(t) BY <1>1 DEF HasMeta, Workspace
<1> QED BY <1>2, <1>3, <1>4, <1>5

(* A step leaves the directories of the other task runs alone.             *)
OwnFiles(own) ==
  /\ DOMAIN evidence' = 1..MaxTasks /\ DOMAIN artifact' = 1..MaxTasks /\ DOMAIN meta' = 1..MaxTasks
  /\ \A t \in DOMAIN tasks : t # own => /\ evidence'[t] = evidence[t]
                                       /\ artifact'[t] = artifact[t] /\ meta'[t] = meta[t]

(* A step of process p changes its own task run and directory only.        *)
OwnOnly(p, own) ==
  /\ tasks' \in Seq(TaskRuns) /\ Len(tasks') = Len(tasks)
  /\ \A t \in DOMAIN tasks : t # own => tasks'[t] = tasks[t]
  /\ OwnFiles(own)
  /\ pc' \in [Procs -> PCs] /\ task' \in [Procs -> Nat]
  /\ \A q \in Procs : q # p => pc'[q] = pc[q] /\ task'[q] = task[q]
  /\ pc'[p] = "idle" => task'[p] = NoTask
  /\ used' \in [outside : Nat, crashes : Nat]

(* If such a step leaves that task run in order, it keeps the invariant.   *)
LEMMA OwnStep ==
  ASSUME Invariant, NEW p \in Procs, pc[p] # "idle", NEW own, own = task[p], OwnOnly(p, own),
         pc'[p] # "idle" => /\ task'[p] = own /\ tasks'[own].phase = "requested"
                            /\ pc'[p] \in Routes => tasks'[own].route = pc'[p],
         pc'[p] \in {"artifact", "meta", "gate"} => HasEvidence(own)',
         pc'[p] \in {"meta", "gate"} => HasText(own)',
         tasks'[own].phase = "accepted" => (Passes(own) /\ HasText(own) /\ HasEvidence(own))'
  PROVE  Invariant'
<1>1. tasks \in Seq(TaskRuns) /\ Len(tasks) <= MaxTasks BY DEF Invariant, TypeOK
<1>2. own \in DOMAIN tasks /\ tasks[own].phase = "requested" BY DEF Invariant, RunsOwned
<1>3. DOMAIN tasks' = DOMAIN tasks /\ \A t \in DOMAIN tasks : t # own => tasks'[t] = tasks[t]
  BY <1>1 DEF OwnOnly
<1>4. \A q \in Procs : q # p => pc'[q] = pc[q] /\ task'[q] = task[q] BY DEF OwnOnly
<1>5. TypeOK'
  <2>1. own # NoTask BY <1>1, <1>2 DEF NoTask
  <2>2. \A q \in Procs : pc'[q] = "idle" <=> task'[q] = NoTask
    BY <1>4, <2>1 DEF OwnOnly, Invariant, TypeOK
  <2> QED BY <1>1, <2>2 DEF TypeOK, OwnOnly, OwnFiles
<1>6. \A q \in Procs : q # p /\ pc[q] # "idle" => task[q] \in DOMAIN tasks /\ task[q] # own
  BY DEF Invariant, RunsOwned
<1>7. RunsOwned'
  <2>1. SUFFICES ASSUME NEW q \in Procs, pc'[q] # "idle"
                 PROVE  /\ task'[q] \in DOMAIN tasks
                        /\ tasks'[task'[q]].phase = "requested"
                        /\ pc'[q] \in Routes => tasks'[task'[q]].route = pc'[q]
                        /\ \A r \in Procs : pc'[r] # "idle" /\ task'[q] = task'[r] => q = r
    BY <1>3 DEF RunsOwned
  <2>2. CASE q = p
    <3>1. task'[q] = own BY <2>1, <2>2
    <3>2. \A r \in Procs : pc'[r] # "idle" /\ r # p => task'[r] # own BY <1>4, <1>6
    <3> QED BY <2>1, <2>2, <3>1, <3>2, <1>2, <1>3
  <2>3. CASE q # p
    <3>1. task'[q] = task[q] /\ pc'[q] = pc[q] /\ task[q] \in DOMAIN tasks /\ task[q] # own
      BY <2>1, <2>3, <1>4, <1>6
    <3>2. tasks'[task[q]] = tasks[task[q]] BY <3>1, <1>3
    <3>3. \A r \in Procs : pc'[r] # "idle" /\ task'[q] = task'[r] => q = r
      <4>1. \A r \in Procs : pc'[r] # "idle" /\ r # p =>
              pc[r] # "idle" /\ task'[r] = task[r]
        BY <1>4
      <4> QED BY <2>1, <3>1, <4>1 DEF Invariant, RunsOwned
    <3> QED BY <2>1, <3>1, <3>2, <3>3, <1>3 DEF Invariant, RunsOwned
  <2> QED BY <2>2, <2>3
<1>8. \A t \in DOMAIN tasks : t # own => /\ HasEvidence(t)' = HasEvidence(t)
                                         /\ HasText(t)' = HasText(t)
                                         /\ Passes(t)' = Passes(t)
  <2>1. TAKE t \in DOMAIN tasks
  <2>2. HAVE t # own
  <2>3. /\ tasks'[t] = tasks[t] /\ evidence'[t] = evidence[t]
        /\ artifact'[t] = artifact[t] /\ meta'[t] = meta[t]
    BY <2>2 DEF OwnOnly, OwnFiles
  <2> QED BY <2>3, SameRun
<1>9. FilesAsWritten'
  <2>1. SUFFICES ASSUME NEW q \in Procs
                 PROVE  /\ pc'[q] \in {"artifact", "meta", "gate"} => (HasEvidence(task[q]))'
                        /\ pc'[q] \in {"meta", "gate"} => (HasText(task[q]))'
    BY DEF FilesAsWritten
  <2>2. CASE q = p
    <3>1. pc'[q] # "idle" => task'[q] = own BY <2>2
    <3> QED BY <2>2, <3>1
  <2>3. CASE q # p
    <3>1. task'[q] = task[q] /\ pc'[q] = pc[q] BY <2>3, <1>4
    <3>2. pc[q] # "idle" => task[q] \in DOMAIN tasks /\ task[q] # own BY <2>3, <1>6
    <3> QED BY <3>1, <3>2, <1>8 DEF Invariant, FilesAsWritten
  <2> QED BY <2>2, <2>3
<1>10. AcceptedIntact'
  <2>1. SUFFICES ASSUME NEW t \in DOMAIN tasks, tasks'[t].phase = "accepted"
                 PROVE  (Passes(t) /\ HasText(t) /\ HasEvidence(t))'
    BY <1>3 DEF AcceptedIntact, Accepted
  <2>2. CASE t = own BY <2>1, <2>2, <1>3
  <2>3. CASE t # own
    BY <2>1, <2>3, <1>3, <1>8 DEF Invariant, AcceptedIntact, Accepted
  <2> QED BY <2>2, <2>3
<1> QED BY <1>5, <1>7, <1>9, <1>10 DEF Invariant

(* What a process at work can rely on.                                     *)
LEMMA AtWork ==
  ASSUME Invariant, NEW p \in Procs, pc[p] # "idle"
  PROVE  /\ task[p] \in DOMAIN tasks /\ task[p] \in 1..MaxTasks /\ task[p] \in Nat
         /\ tasks[task[p]] \in TaskRuns /\ tasks[task[p]].phase = "requested"
         /\ pc[p] \in Routes => tasks[task[p]].route = pc[p]
         /\ tasks = [tasks EXCEPT ![task[p]] = tasks[task[p]]]
         /\ used \in [outside : Nat, crashes : Nat]
         /\ DOMAIN evidence = 1..MaxTasks /\ DOMAIN artifact = 1..MaxTasks
         /\ DOMAIN meta = 1..MaxTasks
<1>1. tasks \in Seq(TaskRuns) /\ Len(tasks) <= MaxTasks BY DEF Invariant, TypeOK
<1>2. task[p] \in DOMAIN tasks /\ tasks[task[p]].phase = "requested"
      /\ (pc[p] \in Routes => tasks[task[p]].route = pc[p])
  BY DEF Invariant, RunsOwned
<1>3. task[p] \in 1..MaxTasks /\ task[p] \in Nat BY <1>1, <1>2, LimitsAssumption
<1>4. tasks[task[p]] \in TaskRuns /\ tasks = [tasks EXCEPT ![task[p]] = tasks[task[p]]]
  BY <1>1, <1>2
<1> QED BY <1>2, <1>3, <1>4 DEF Invariant, TypeOK

(* Changing one entry of tasks, pc and task is such a step.                *)
LEMMA OneEntry ==
  ASSUME Invariant, NEW p \in Procs, pc[p] # "idle", OwnFiles(task[p]),
         \E run \in TaskRuns : tasks' = [tasks EXCEPT ![task[p]] = run],
         \E where \in PCs : pc' = [pc EXCEPT ![p] = where],
         \E at \in Nat : task' = [task EXCEPT ![p] = at],
         pc'[p] = "idle" => task'[p] = NoTask,
         used' \in [outside : Nat, crashes : Nat]
  PROVE  OwnOnly(p, task[p])
<1>1. tasks \in Seq(TaskRuns) /\ pc \in [Procs -> PCs] /\ task \in [Procs -> Nat]
  BY DEF Invariant, TypeOK
<1>2. task[p] \in DOMAIN tasks BY AtWork
<1>3. /\ tasks' \in Seq(TaskRuns) /\ Len(tasks') = Len(tasks)
      /\ \A t \in DOMAIN tasks : t # task[p] => tasks'[t] = tasks[t]
  BY <1>1, <1>2
<1>4. pc' \in [Procs -> PCs] /\ \A q \in Procs : q # p => pc'[q] = pc[q] BY <1>1
<1>5. task' \in [Procs -> Nat] /\ \A q \in Procs : q # p => task'[q] = task[q] BY <1>1
<1> QED BY <1>3, <1>4, <1>5 DEF OwnOnly

(* Giving its task run what it is to work on, and going on before any file *)
(* is written or stopping.                                                 *)
LEMMA GivenStep ==
  ASSUME Invariant, NEW p \in Procs, pc[p] \in Routes, UNCHANGED <<disk, used>>,
         NEW given \in Given, NEW rows \in Caches \cup {<<>>}, NEW phase \in {"requested", "failed"},
         NEW where \in {"idle", "evidence", "artifact"}, NEW at \in Nat,
         tasks' = [tasks EXCEPT ![task[p]] =
                     [@ EXCEPT !.given = given, !.rows = rows, !.phase = phase]],
         pc' = [pc EXCEPT ![p] = where],
         task' = [task EXCEPT ![p] = at],
         where # "idle" => at = task[p] /\ phase = "requested",
         where = "idle" => at = NoTask,
         where = "artifact" => pc[p] # "backtest"
  PROVE  Invariant'
<1> DEFINE run == [tasks[task[p]] EXCEPT !.given = given, !.rows = rows, !.phase = phase]
<1>1. pc[p] # "idle" /\ where \in PCs /\ where \notin Routes BY DEF Routes, PCs
<1>2. OwnFiles(task[p]) /\ used' \in [outside : Nat, crashes : Nat]
  BY <1>1, AtWork DEF OwnFiles, disk
<1>3. tasks[task[p]] \in TaskRuns /\ tasks[task[p]].route = pc[p] BY <1>1, AtWork
<1>4. run \in TaskRuns /\ run.phase = phase /\ run.route = pc[p] BY <1>3 DEF TaskRuns, Phases
<1>5. tasks' = [tasks EXCEPT ![task[p]] = run] OBVIOUS
<1> HIDE DEF run
<1>6. /\ OwnOnly(p, task[p])
      /\ tasks'[task[p]] = run /\ pc'[p] = where /\ task'[p] = at
  <2>1. pc \in [Procs -> PCs] /\ task \in [Procs -> Nat] BY DEF Invariant, TypeOK
  <2>2. OwnOnly(p, task[p]) BY <1>1, <1>2, <1>4, <1>5, <2>1, OneEntry
  <2>3. task[p] \in DOMAIN tasks BY <1>1, AtWork
  <2>4. tasks'[task[p]] = run BY <2>3, <1>5
  <2> QED BY <2>1, <2>2, <2>4
<1>7. PICK own : own = task[p] OBVIOUS
<1>8. where = "artifact" => HasEvidence(own)' BY <1>4, <1>6, <1>7 DEF HasEvidence
<1> QED BY <1>1, <1>4, <1>6, <1>7, <1>8, OwnStep

(* The same, as the actions write it.                                      *)
LEMMA GiveStep ==
  ASSUME Invariant, NEW p \in Procs, pc[p] \in Routes, UNCHANGED <<disk, used>>,
         NEW given \in Given, NEW rows \in Caches \cup {<<>>}, Give(p, given, rows),
         \/ Leave(p)
         \/ Goto(p, "evidence")
         \/ Goto(p, "artifact") /\ pc[p] # "backtest"
  PROVE  Invariant'
<1>1. pc[p] # "idle" BY DEF Routes
<1>2. /\ tasks[task[p]] \in TaskRuns /\ tasks[task[p]].phase = "requested" /\ task[p] \in Nat
      /\ task \in [Procs -> Nat]
  BY <1>1, AtWork DEF Invariant, TypeOK
<1>3. [tasks[task[p]] EXCEPT !.given = given, !.rows = rows]
        = [tasks[task[p]] EXCEPT !.given = given, !.rows = rows, !.phase = "requested"]
  BY <1>2 DEF TaskRuns
<1>4. tasks' = [tasks EXCEPT ![task[p]] =
                  [@ EXCEPT !.given = given, !.rows = rows, !.phase = "requested"]]
  BY <1>3 DEF Give
<1>5. task = [task EXCEPT ![p] = task[p]] BY <1>2
<1>6. CASE Leave(p) BY <1>4, <1>6, GivenStep DEF Leave, NoTask
<1>7. CASE Goto(p, "evidence") BY <1>2, <1>4, <1>5, <1>7, GivenStep DEF Goto
<1>8. CASE Goto(p, "artifact") /\ pc[p] # "backtest"
  BY <1>2, <1>4, <1>5, <1>8, GivenStep DEF Goto
<1> QED BY <1>6, <1>7, <1>8

LEMMA FailStep ==
  ASSUME Invariant, NEW p \in Procs, pc[p] \in Routes, UNCHANGED <<disk, used>>,
         NEW given \in Given, NEW rows \in Caches \cup {<<>>}, Fail(p, given, rows)
  PROVE  Invariant'
BY GivenStep DEF Fail, Leave, NoTask

LEMMA RunFakeKeeps ==
  ASSUME Invariant, NEW p \in Procs, NEW notes \in Notes, RunFake(p, notes)
  PROVE  Invariant'
BY GiveStep DEF RunFake, Routes, Given

LEMMA RunHarnessKeeps ==
  ASSUME Invariant, NEW p \in Procs, NEW answer \in Answers, RunHarness(p, answer)
  PROVE  Invariant'
BY GiveStep, FailStep DEF RunHarness, Routes, Given

LEMMA NothingGivenKeeps ==
  ASSUME Invariant, NEW p \in Procs, HarnessFails(p) \/ CacheUnreadable(p)
  PROVE  Invariant'
BY FailStep DEF HarnessFails, CacheUnreadable, Routes, Given

LEMMA RunBacktestKeeps ==
  ASSUME Invariant, NEW p \in Procs, NEW rows \in Caches, NEW label \in Labels,
         RunBacktest(p, rows, label)
  PROVE  Invariant'
<1>1. pc[p] \in Routes /\ label \in Given /\ UNCHANGED <<disk, used>>
  BY DEF RunBacktest, Routes, Given
<1>2. CASE Give(p, label, rows) /\ (Goto(p, "evidence") \/ Leave(p)) BY <1>1, <1>2, GiveStep
<1>3. CASE Fail(p, label, rows) BY <1>1, <1>3, FailStep
<1>4. Run(rows) \in {Fine, Rejected, Raised} BY DEF Run, LoadRecords, CheckRecord
<1> QED BY <1>2, <1>3, <1>4 DEF RunBacktest, Fine, Rejected, Raised

(* A step that writes a file, or none, and keeps the task runs as they are.*)
LEMMA FileStep ==
  ASSUME Invariant, NEW p \in Procs, pc[p] # "idle", UNCHANGED tasks, OwnFiles(task[p]),
         used' \in [outside : Nat, crashes : Nat],
         NEW where \in PCs \ Routes, NEW at \in Nat, where # "idle" => at = task[p],
         where = "idle" => at = NoTask,
         pc' = [pc EXCEPT ![p] = where],
         task' = [task EXCEPT ![p] = at],
         NEW own, own = task[p],
         where \in {"artifact", "meta", "gate"} => HasEvidence(own)',
         where \in {"meta", "gate"} => HasText(own)'
  PROVE  Invariant'
<1>1. /\ tasks[own] \in TaskRuns /\ tasks = [tasks EXCEPT ![task[p]] = tasks[own]]
      /\ tasks[own].phase = "requested"
  BY AtWork
<1>2. pc'[p] = where /\ task'[p] = at BY DEF Invariant, TypeOK
<1>3. OwnOnly(p, task[p]) BY <1>1, <1>2, OneEntry
<1> QED BY <1>1, <1>2, <1>3, OwnStep

LEMMA WriteEvidenceKeeps ==
  ASSUME Invariant, NEW p \in Procs, WriteEvidence(p)
  PROVE  Invariant'
<1>1. PICK own : own = task[p] OBVIOUS
<1>2. pc[p] # "idle" /\ "artifact" \in PCs \ Routes BY DEF WriteEvidence, PCs, Routes
<1>3. /\ own \in 1..MaxTasks /\ own \in Nat /\ used \in [outside : Nat, crashes : Nat]
      /\ DOMAIN evidence = 1..MaxTasks /\ DOMAIN artifact = 1..MaxTasks
      /\ DOMAIN meta = 1..MaxTasks
  BY <1>1, <1>2, AtWork
<1>4. OwnFiles(task[p]) BY <1>1, <1>3 DEF WriteEvidence, OwnFiles, Workspace
<1>5. evidence'[own] = File(Compute(tasks[own].rows)) /\ UNCHANGED tasks
  BY <1>1, <1>3 DEF WriteEvidence, Workspace
<1>6. HasEvidence(own)' BY <1>5 DEF HasEvidence, Workspace
<1>7. pc' = [pc EXCEPT ![p] = "artifact"] /\ task' = [task EXCEPT ![p] = own]
  BY <1>1 DEF WriteEvidence, Goto, Invariant, TypeOK
<1>8. UNCHANGED used BY DEF WriteEvidence
<1> QED BY <1>1, <1>2, <1>3, <1>4, <1>5, <1>6, <1>7, <1>8, FileStep

LEMMA WriteArtifactKeeps ==
  ASSUME Invariant, NEW p \in Procs, WriteArtifact(p)
  PROVE  Invariant'
<1>1. PICK own : own = task[p] OBVIOUS
<1>2. pc[p] # "idle" /\ "meta" \in PCs \ Routes BY DEF WriteArtifact, PCs, Routes
<1>3. /\ own \in 1..MaxTasks /\ own \in Nat /\ used \in [outside : Nat, crashes : Nat]
      /\ DOMAIN evidence = 1..MaxTasks /\ DOMAIN artifact = 1..MaxTasks
      /\ DOMAIN meta = 1..MaxTasks
  BY <1>1, <1>2, AtWork
<1>4. OwnFiles(task[p]) BY <1>1, <1>3 DEF WriteArtifact, OwnFiles, Workspace
<1>5. /\ artifact'[own] = File(Strip(ArtifactText(own)))
      /\ UNCHANGED <<tasks, evidence, used>>
  BY <1>1, <1>3 DEF WriteArtifact, Workspace
<1>6. HasText(own)' BY <1>5 DEF HasText, ArtifactText, Workspace
<1>7. HasEvidence(own)' BY <1>1, <1>5 DEF WriteArtifact, Invariant, FilesAsWritten, HasEvidence
<1>8. pc' = [pc EXCEPT ![p] = "meta"] /\ task' = [task EXCEPT ![p] = own]
  BY <1>1 DEF WriteArtifact, Goto, Invariant, TypeOK
<1> QED BY <1>1, <1>2, <1>3, <1>4, <1>5, <1>6, <1>7, <1>8, FileStep

LEMMA WriteMetaKeeps ==
  ASSUME Invariant, NEW p \in Procs, WriteMeta(p)
  PROVE  Invariant'
<1>1. PICK own : own = task[p] OBVIOUS
<1>2. pc[p] # "idle" /\ "gate" \in PCs \ Routes BY DEF WriteMeta, PCs, Routes
<1>3. /\ own \in 1..MaxTasks /\ own \in Nat /\ used \in [outside : Nat, crashes : Nat]
      /\ DOMAIN evidence = 1..MaxTasks /\ DOMAIN artifact = 1..MaxTasks
      /\ DOMAIN meta = 1..MaxTasks
  BY <1>1, <1>2, AtWork
<1>4. OwnFiles(task[p]) BY <1>1, <1>3 DEF WriteMeta, OwnFiles, Workspace
<1>5. UNCHANGED <<tasks, evidence, artifact, used>> BY DEF WriteMeta
<1>6. HasText(own) /\ HasEvidence(own) BY <1>1 DEF WriteMeta, Invariant, FilesAsWritten
<1>7. HasText(own)' BY <1>5, <1>6 DEF HasText, ArtifactText
<1>8. HasEvidence(own)' BY <1>5, <1>6 DEF HasEvidence
<1>9. pc' = [pc EXCEPT ![p] = "gate"] /\ task' = [task EXCEPT ![p] = own]
  BY <1>1 DEF WriteMeta, Goto, Invariant, TypeOK
<1> QED BY <1>1, <1>2, <1>3, <1>4, <1>5, <1>7, <1>8, <1>9, FileStep

LEMMA CrashKeeps ==
  ASSUME Invariant, NEW p \in Procs, Crash(p)
  PROVE  Invariant'
<1>1. pc[p] # "idle" /\ "idle" \in PCs \ Routes /\ UNCHANGED <<tasks, evidence, artifact, meta>>
  BY DEF Crash, PCs, Routes, disk
<1>2. OwnFiles(task[p]) BY <1>1, AtWork DEF OwnFiles
<1>3. used' \in [outside : Nat, crashes : Nat] BY <1>1, AtWork DEF Crash
<1>4. NoTask \in Nat BY DEF NoTask
<1> QED BY <1>1, <1>2, <1>3, <1>4, FileStep DEF Crash, Leave

LEMMA ValidateKeeps ==
  ASSUME Invariant, NEW p \in Procs, Validate(p)
  PROVE  Invariant'
<1> DEFINE phase == IF Passes(task[p]) THEN "accepted" ELSE "rejected"
           run == [tasks[task[p]] EXCEPT !.phase = phase]
<1>1. PICK own : own = task[p] OBVIOUS
<1>2. pc[p] = "gate" /\ pc[p] # "idle" /\ UNCHANGED <<evidence, artifact, meta, used>>
  BY DEF Validate, disk
<1>3. /\ own \in DOMAIN tasks /\ tasks[own] \in TaskRuns
      /\ used \in [outside : Nat, crashes : Nat]
      /\ DOMAIN evidence = 1..MaxTasks /\ DOMAIN artifact = 1..MaxTasks
      /\ DOMAIN meta = 1..MaxTasks
  BY <1>1, <1>2, AtWork
<1>4. run \in TaskRuns BY <1>1, <1>3 DEF TaskRuns, Phases
<1>5. tasks' = [tasks EXCEPT ![task[p]] = run] BY DEF Validate
<1>6. tasks'[own] = run BY <1>1, <1>3, <1>5
<1>7. /\ run.route = tasks[own].route /\ run.given = tasks[own].given
      /\ run.rows = tasks[own].rows /\ run.phase = phase
  BY <1>1, <1>3 DEF TaskRuns
<1>8. phase = "accepted" => Passes(own) BY <1>1
<1> HIDE DEF run, phase
<1>9. "idle" \in PCs /\ NoTask \in Nat BY DEF PCs, NoTask
<1>10. OwnFiles(task[p]) BY <1>2, <1>3 DEF OwnFiles
<1>11. pc'[p] = "idle" /\ task'[p] = NoTask BY DEF Validate, Leave, Invariant, TypeOK
<1>12. OwnOnly(p, task[p])
  BY <1>2, <1>3, <1>4, <1>5, <1>9, <1>10, <1>11, OneEntry DEF Validate, Leave
<1>13. HasText(own) /\ HasEvidence(own) BY <1>1, <1>2 DEF Invariant, FilesAsWritten
<1>14. HasText(own)' BY <1>2, <1>6, <1>7, <1>13 DEF HasText, ArtifactText
<1>15. HasEvidence(own)' BY <1>2, <1>6, <1>7, <1>13 DEF HasEvidence
<1>16. Passes(own)' = Passes(own) BY <1>2, <1>6, <1>7 DEF Passes, RequiredBy
<1>17. tasks'[own].phase = "accepted" => (Passes(own) /\ HasText(own) /\ HasEvidence(own))'
  BY <1>6, <1>7, <1>8, <1>14, <1>15, <1>16
<1> QED BY <1>1, <1>2, <1>11, <1>12, <1>17, OwnStep

LEMMA RequestKeeps ==
  ASSUME Invariant, NEW p \in Procs, NEW route \in Routes, Request(p, route)
  PROVE  Invariant'
<1> DEFINE new == Len(tasks) + 1
           run == [route |-> route, phase |-> "requested", given |-> <<>>, rows |-> <<>>]
<1>1. /\ tasks \in Seq(TaskRuns) /\ pc \in [Procs -> PCs] /\ task \in [Procs -> Nat]
      /\ used \in [outside : Nat, crashes : Nat] /\ Len(tasks) < MaxTasks
      /\ UNCHANGED <<evidence, artifact, meta>>
  BY DEF Invariant, TypeOK, Request, disk
<1>2. run \in TaskRuns BY DEF TaskRuns, Phases, Given
<1>3. tasks' = Append(tasks, run) BY DEF Request
<1> HIDE DEF run
<1>4. /\ tasks' \in Seq(TaskRuns) /\ Len(tasks') = new
      /\ DOMAIN tasks' = DOMAIN tasks \cup {new} /\ new \notin DOMAIN tasks
      /\ \A t \in DOMAIN tasks : tasks'[t] = tasks[t]
      /\ tasks'[new] = run
  BY <1>1, <1>2, <1>3
<1>5. run.phase = "requested" /\ run.route = route BY DEF run
<1>6. /\ pc'[p] = route /\ task'[p] = new /\ pc[p] = "idle"
      /\ \A q \in Procs : q # p => pc'[q] = pc[q] /\ task'[q] = task[q]
  BY <1>1 DEF Request
<1>7. route \in PCs /\ route \notin {"idle", "artifact", "meta", "gate"} BY DEF Routes, PCs
<1>8. \A t \in DOMAIN tasks : /\ HasEvidence(t)' = HasEvidence(t)
                             /\ HasText(t)' = HasText(t)
                             /\ Passes(t)' = Passes(t)
  <2>1. TAKE t \in DOMAIN tasks
  <2>2. /\ tasks'[t] = tasks[t] /\ evidence'[t] = evidence[t]
        /\ artifact'[t] = artifact[t] /\ meta'[t] = meta[t]
    BY <1>1, <1>4
  <2> QED BY <2>2, SameRun
<1>9. TypeOK'
  <2>1. used' \in [outside : Nat, crashes : Nat]
    <3>1. used.outside \in Nat /\ used.outside + 1 \in Nat BY <1>1
    <3>2. CASE route = "fake"
      <4>1. used' = [used EXCEPT !.outside = used.outside] BY <3>2 DEF Request
      <4> QED BY <4>1, <1>1
    <3>3. CASE route # "fake"
      <4>1. used' = [used EXCEPT !.outside = used.outside + 1] BY <3>3 DEF Request
      <4> QED BY <4>1, <3>1, <1>1
    <3> QED BY <3>2, <3>3
  <2>2. pc' \in [Procs -> PCs] /\ task' \in [Procs -> Nat] BY <1>1, <1>7 DEF Request
  <2>3. Len(tasks') <= MaxTasks BY <1>1, <1>4, LimitsAssumption
  <2>4. new # NoTask /\ route # "idle" BY <1>1, <1>7 DEF NoTask
  <2>5. \A q \in Procs : pc'[q] = "idle" <=> task'[q] = NoTask
    BY <1>6, <2>4 DEF Invariant, TypeOK
  <2> QED BY <1>1, <1>4, <2>1, <2>2, <2>3, <2>5 DEF TypeOK, Invariant
<1>10. \A q \in Procs : q # p /\ pc'[q] # "idle" =>
         /\ task'[q] \in DOMAIN tasks /\ pc'[q] = pc[q] /\ task'[q] = task[q]
         /\ tasks[task[q]].phase = "requested"
         /\ pc[q] \in Routes => tasks[task[q]].route = pc[q]
  BY <1>6 DEF Invariant, RunsOwned
<1>11. RunsOwned'
  <2>1. \A q \in Procs : pc'[q] # "idle" =>
          /\ task'[q] \in DOMAIN tasks'
          /\ tasks'[task'[q]].phase = "requested"
          /\ pc'[q] \in Routes => tasks'[task'[q]].route = pc'[q]
    BY <1>4, <1>5, <1>6, <1>10
  <2>2. \A q, r \in Procs : pc'[q] # "idle" /\ pc'[r] # "idle" /\ task'[q] = task'[r] => q = r
    BY <1>4, <1>6, <1>10 DEF Invariant, RunsOwned
  <2> QED BY <2>1, <2>2 DEF RunsOwned
<1>12. FilesAsWritten'
  <2>1. SUFFICES ASSUME NEW q \in Procs
                 PROVE  /\ pc'[q] \in {"artifact", "meta", "gate"} => (HasEvidence(task[q]))'
                        /\ pc'[q] \in {"meta", "gate"} => (HasText(task[q]))'
    BY DEF FilesAsWritten
  <2>2. CASE q = p BY <2>2, <1>6, <1>7
  <2>3. CASE q # p BY <2>3, <1>8, <1>10 DEF Invariant, FilesAsWritten
  <2> QED BY <2>2, <2>3
<1>13. AcceptedIntact'
  <2>1. SUFFICES ASSUME NEW t \in DOMAIN tasks', tasks'[t].phase = "accepted"
                 PROVE  (Passes(t) /\ HasText(t) /\ HasEvidence(t))'
    BY DEF AcceptedIntact, Accepted
  <2>2. t \in DOMAIN tasks /\ tasks[t].phase = "accepted" BY <2>1, <1>4, <1>5
  <2> QED BY <2>2, <1>8 DEF Invariant, AcceptedIntact, Accepted
<1> QED BY <1>9, <1>11, <1>12, <1>13 DEF Invariant

LEMMA StepKeeps == Invariant /\ [Next]_vars => Invariant'
<1> SUFFICES ASSUME Invariant, [Next]_vars PROVE Invariant' OBVIOUS
<1>1. CASE Next
  <2>1. PICK p \in Procs :
          \/ \E route \in Routes : Request(p, route)
          \/ \E notes \in Notes : RunFake(p, notes)
          \/ HarnessFails(p)
          \/ \E answer \in Answers : RunHarness(p, answer)
          \/ CacheUnreadable(p)
          \/ \E rows \in Caches, label \in Labels : RunBacktest(p, rows, label)
          \/ WriteEvidence(p)
          \/ WriteArtifact(p)
          \/ WriteMeta(p)
          \/ Validate(p)
          \/ Crash(p)
    BY <1>1 DEF Next
  <2> QED BY <2>1, RequestKeeps, RunFakeKeeps, NothingGivenKeeps, RunHarnessKeeps, RunBacktestKeeps,
             WriteEvidenceKeeps, WriteArtifactKeeps, WriteMetaKeeps, ValidateKeeps, CrashKeeps
<1>2. CASE UNCHANGED vars
  <2>1. /\ UNCHANGED <<tasks, pc, task, used>> /\ UNCHANGED <<evidence, artifact, meta>>
    BY <1>2 DEF vars, disk
  <2>2. TypeOK' BY <2>1 DEF Invariant, TypeOK
  <2>3. RunsOwned' BY <2>1 DEF Invariant, RunsOwned
  <2>4. FilesAsWritten'
    BY <2>1 DEF Invariant, FilesAsWritten, HasEvidence, HasText, ArtifactText, Workspace
  <2>5. AcceptedIntact'
    BY <2>1 DEF Invariant, AcceptedIntact, Accepted, Passes, RequiredBy, HasEvidence, HasText,
                ArtifactText, Workspace
  <2> QED BY <2>2, <2>3, <2>4, <2>5 DEF Invariant
<1> QED BY <1>1, <1>2

(* The invariant: every task run under way belongs to one command, whose   *)
(* files so far are in its own directory.                                  *)
THEOREM Safety == Spec => []Invariant
<1> QED BY InitHolds, StepKeeps, PTL DEF Spec

(* Tasks, files and processes keep their types, and a process has a task   *)
(* run exactly while it works on one.                                      *)
THEOREM TypesHold == Spec => []TypeOK
<1>1. Invariant => TypeOK BY DEF Invariant
<1> QED BY <1>1, Safety, PTL

(* What the gate accepted stays on disk as it was accepted: no task run    *)
(* that follows, writes beside it or dies half way touches it.             *)
THEOREM AcceptedStaysIntact == Spec => []AcceptedIntact
<1>1. Invariant => AcceptedIntact BY DEF Invariant
<1> QED BY <1>1, Safety, PTL

-----------------------------------------------------------------------------
(* Evidence and the cache it was computed from.                            *)

(* A step of process p that goes on past the routes, and leaves evidence   *)
(* in its own directory only as computed from a series.                    *)
LEMMA OwnEvidence ==
  ASSUME Invariant, Evidenced, NEW p \in Procs, pc[p] # "idle", NEW own, own = task[p],
         DOMAIN tasks' = DOMAIN tasks, DOMAIN evidence' = DOMAIN evidence,
         \A t \in DOMAIN tasks : t # own => tasks'[t] = tasks[t],
         \A t \in DOMAIN evidence : t # own => evidence'[t] = evidence[t],
         \A q \in Procs : q # p => pc'[q] = pc[q] /\ task'[q] = task[q],
         pc'[p] \notin Routes,
         evidence'[own] # Absent =>
           Series(tasks'[own].rows) /\ evidence'[own] = File(Compute(tasks'[own].rows)),
         pc'[p] = "evidence" => task'[p] = own /\ Series(tasks'[own].rows)
  PROVE  Evidenced'
<1>1. own \in DOMAIN tasks /\ own \in DOMAIN evidence BY AtWork
<1>2. ASSUME NEW q \in Procs, q # p, pc[q] # "idle"
      PROVE  /\ task[q] # own /\ task[q] \in DOMAIN tasks /\ task[q] \in DOMAIN evidence
             /\ tasks'[task[q]] = tasks[task[q]] /\ evidence'[task[q]] = evidence[task[q]]
             /\ pc'[q] = pc[q] /\ task'[q] = task[q]
  <2>1. task[q] # own BY <1>2 DEF Invariant, RunsOwned
  <2>2. task[q] \in DOMAIN tasks /\ task[q] \in DOMAIN evidence BY <1>2, AtWork
  <2> QED BY <1>2, <2>1, <2>2
<1>3. ASSUME NEW t \in DOMAIN evidence', evidence'[t] # Absent
      PROVE  /\ t \in DOMAIN tasks' /\ Series(tasks'[t].rows)
             /\ evidence'[t] = File(Compute(tasks'[t].rows))
  <2>1. CASE t = own BY <1>1, <1>3, <2>1
  <2>2. CASE t # own BY <1>3, <2>2 DEF Evidenced
  <2> QED BY <2>1, <2>2
<1>4. ASSUME NEW q \in Procs, pc'[q] = "evidence"
      PROVE  Series(tasks'[task'[q]].rows)
  <2>1. CASE q = p BY <1>4, <2>1
  <2>2. CASE q # p
    <3>1. pc[q] = "evidence" BY <1>4, <2>2
    <3> QED BY <1>2, <2>2, <3>1 DEF Evidenced
  <2> QED BY <2>1, <2>2
<1>5. ASSUME NEW q \in Procs, pc'[q] \in Routes
      PROVE  evidence'[task'[q]] = Absent
  <2>1. q # p BY <1>5
  <2>2. pc[q] \in Routes /\ pc[q] # "idle" BY <1>5, <2>1 DEF Routes
  <2> QED BY <1>2, <2>1, <2>2 DEF Evidenced
<1> QED BY <1>3, <1>4, <1>5 DEF Evidenced

(* Settling what a task run works on, before there is any evidence.        *)
LEMMA GivenEvidence ==
  ASSUME Invariant, Evidenced, NEW p \in Procs, pc[p] \in Routes, UNCHANGED disk,
         NEW run \in TaskRuns, tasks' = [tasks EXCEPT ![task[p]] = run],
         \/ Leave(p)
         \/ Goto(p, "artifact")
         \/ Goto(p, "evidence") /\ Series(run.rows)
  PROVE  Evidenced'
<1>1. PICK own : own = task[p] OBVIOUS
<1>2. pc[p] # "idle" BY DEF Routes
<1>3. own \in DOMAIN tasks /\ tasks \in Seq(TaskRuns) /\ evidence' = evidence
  BY <1>1, <1>2, AtWork DEF Invariant, TypeOK, disk
<1>4. /\ DOMAIN tasks' = DOMAIN tasks /\ tasks'[own] = run
      /\ \A t \in DOMAIN tasks : t # own => tasks'[t] = tasks[t]
  BY <1>1, <1>3
<1>5. pc \in [Procs -> PCs] /\ task \in [Procs -> Nat] BY DEF Invariant, TypeOK
<1>6. \A q \in Procs : q # p => pc'[q] = pc[q] /\ task'[q] = task[q]
  BY <1>5 DEF Leave, Goto
<1>7. /\ pc'[p] \in {"idle", "artifact", "evidence"}
      /\ pc'[p] = "evidence" => task'[p] = own /\ Series(run.rows)
  BY <1>1, <1>5 DEF Leave, Goto
<1>8. evidence'[own] = Absent BY <1>1, <1>3 DEF Evidenced
<1>9. pc'[p] \notin Routes BY <1>7 DEF Routes
<1> QED BY <1>1, <1>2, <1>3, <1>4, <1>6, <1>7, <1>8, <1>9, OwnEvidence

LEMMA GiveIs ==
  ASSUME Invariant, NEW p \in Procs, pc[p] # "idle",
         NEW given \in Given, NEW rows \in Caches \cup {<<>>},
         Give(p, given, rows) \/ Fail(p, given, rows)
  PROVE  \E run \in TaskRuns : /\ run.rows = rows /\ run.phase \in {"requested", "failed"}
                              /\ tasks' = [tasks EXCEPT ![task[p]] = run]
<1>1. tasks[task[p]] \in TaskRuns /\ tasks[task[p]].phase = "requested" BY AtWork
<1>2. CASE Give(p, given, rows)
  <2> DEFINE run == [tasks[task[p]] EXCEPT !.given = given, !.rows = rows]
  <2>1. run \in TaskRuns /\ run.rows = rows /\ run.phase = "requested" BY <1>1 DEF TaskRuns
  <2> QED BY <1>2, <2>1 DEF Give
<1>3. CASE Fail(p, given, rows)
  <2> DEFINE run == [tasks[task[p]] EXCEPT !.given = given, !.rows = rows, !.phase = "failed"]
  <2>1. run \in TaskRuns /\ run.rows = rows /\ run.phase = "failed" BY <1>1 DEF TaskRuns, Phases
  <2> QED BY <1>3, <2>1 DEF Fail
<1> QED BY <1>2, <1>3

LEMMA WorkEvidenced ==
  ASSUME Invariant, Evidenced, NEW p \in Procs,
         \/ \E notes \in Notes : RunFake(p, notes)
         \/ HarnessFails(p)
         \/ \E answer \in Answers : RunHarness(p, answer)
         \/ CacheUnreadable(p)
  PROVE  Evidenced'
<1>1. pc[p] \in Routes /\ pc[p] # "idle" /\ UNCHANGED disk
  BY DEF RunFake, HarnessFails, RunHarness, CacheUnreadable, Routes
<1>2. PICK given \in Given :
        /\ Give(p, given, <<>>) \/ Fail(p, given, <<>>)
        /\ Leave(p) \/ Goto(p, "artifact")
  <2>1. Notes \subseteq Given /\ Answers \subseteq Given /\ <<>> \in Given BY DEF Given
  <2> QED BY <2>1 DEF RunFake, HarnessFails, RunHarness, CacheUnreadable, Fail
<1>3. PICK run \in TaskRuns : tasks' = [tasks EXCEPT ![task[p]] = run]
  BY <1>1, <1>2, GiveIs
<1> QED BY <1>1, <1>2, <1>3, GivenEvidence

LEMMA RunBacktestEvidenced ==
  ASSUME Invariant, Evidenced, NEW p \in Procs, NEW rows \in Caches, NEW label \in Labels,
         RunBacktest(p, rows, label)
  PROVE  Evidenced'
<1>1. pc[p] \in Routes /\ pc[p] # "idle" /\ UNCHANGED disk /\ label \in Given
  BY DEF RunBacktest, Routes, Given
<1>2. Run(rows) \in {Fine, Rejected, Raised} BY DEF Run, LoadRecords, CheckRecord
<1>3. /\ Give(p, label, rows) \/ Fail(p, label, rows)
      /\ Leave(p) \/ (Goto(p, "evidence") /\ Run(rows) = Fine)
  BY <1>2 DEF RunBacktest, Fail, Fine, Rejected, Raised
<1>4. PICK run \in TaskRuns : run.rows = rows /\ tasks' = [tasks EXCEPT ![task[p]] = run]
  BY <1>1, <1>3, GiveIs
<1>5. Run(rows) = Fine => Series(run.rows)
  <2>1. rows \in Seq(PriceRecords) BY CachesAssumption DEF PriceRecords
  <2> QED BY <1>4, <2>1, CheckedIsSeries
<1> QED BY <1>1, <1>3, <1>4, <1>5, GivenEvidence

LEMMA WriteEvidenceEvidenced ==
  ASSUME Invariant, Evidenced, NEW p \in Procs, WriteEvidence(p)
  PROVE  Evidenced'
<1>1. PICK own : own = task[p] OBVIOUS
<1>2. /\ pc[p] = "evidence" /\ UNCHANGED tasks
      /\ evidence' = [evidence EXCEPT ![own] = File(Compute(tasks[own].rows))]
  BY <1>1 DEF WriteEvidence, Workspace
<1>3. /\ DOMAIN evidence' = DOMAIN evidence
      /\ \A t \in DOMAIN evidence : t # own => evidence'[t] = evidence[t]
  BY <1>2
<1>4. pc \in [Procs -> PCs] /\ task \in [Procs -> Nat] BY DEF Invariant, TypeOK
<1>5. /\ \A q \in Procs : q # p => pc'[q] = pc[q] /\ task'[q] = task[q]
      /\ pc'[p] = "artifact"
  BY <1>4 DEF WriteEvidence, Goto
<1>6. Series(tasks'[own].rows) BY <1>1, <1>2 DEF Evidenced
<1>7. evidence'[own] = File(Compute(tasks'[own].rows))
  <2>1. own \in DOMAIN evidence BY <1>1, <1>2, AtWork
  <2> QED BY <1>2, <2>1
<1> QED BY <1>1, <1>2, <1>3, <1>5, <1>6, <1>7, OwnEvidence DEF Routes

LEMMA LaterStepsEvidenced ==
  ASSUME Invariant, Evidenced, NEW p \in Procs,
         WriteArtifact(p) \/ WriteMeta(p) \/ Validate(p) \/ Crash(p)
  PROVE  Evidenced'
<1>1. PICK own : own = task[p] OBVIOUS
<1>2. pc[p] # "idle" /\ UNCHANGED evidence
  BY DEF WriteArtifact, WriteMeta, Validate, Crash, disk
<1>3. own \in DOMAIN tasks /\ tasks \in Seq(TaskRuns) /\ tasks[own] \in TaskRuns
  BY <1>1, <1>2, AtWork DEF Invariant, TypeOK
<1>4. pc \in [Procs -> PCs] /\ task \in [Procs -> Nat] BY DEF Invariant, TypeOK
<1>5. /\ \A q \in Procs : q # p => pc'[q] = pc[q] /\ task'[q] = task[q]
      /\ pc'[p] \in {"idle", "meta", "gate"}
  BY <1>4 DEF WriteArtifact, WriteMeta, Validate, Crash, Goto, Leave
<1>6. /\ DOMAIN tasks' = DOMAIN tasks /\ tasks'[own].rows = tasks[own].rows
      /\ \A t \in DOMAIN tasks : t # own => tasks'[t] = tasks[t]
  <2>1. CASE UNCHANGED tasks BY <2>1
  <2>2. CASE Validate(p)
    <3>1. PICK phase : tasks' = [tasks EXCEPT ![own] = [tasks[own] EXCEPT !.phase = phase]]
      BY <1>1, <2>2 DEF Validate
    <3>2. [tasks[own] EXCEPT !.phase = phase].rows = tasks[own].rows BY <1>3 DEF TaskRuns
    <3> QED BY <1>3, <3>1, <3>2
  <2> QED BY <2>1, <2>2 DEF WriteArtifact, WriteMeta, Crash
<1>7. evidence'[own] # Absent =>
        Series(tasks'[own].rows) /\ evidence'[own] = File(Compute(tasks'[own].rows))
  <2>1. own \in DOMAIN evidence BY <1>1, <1>2, AtWork
  <2> QED BY <1>2, <1>6, <2>1 DEF Evidenced
<1> QED BY <1>1, <1>2, <1>5, <1>6, <1>7, OwnEvidence DEF Routes

LEMMA RequestEvidenced ==
  ASSUME Invariant, Evidenced, NEW p \in Procs, NEW route \in Routes, Request(p, route)
  PROVE  Evidenced'
<1> DEFINE new == Len(tasks) + 1
<1>1. /\ tasks \in Seq(TaskRuns) /\ pc \in [Procs -> PCs] /\ task \in [Procs -> Nat]
      /\ UNCHANGED evidence /\ DOMAIN evidence = 1..MaxTasks /\ Len(tasks) < MaxTasks
  BY DEF Invariant, TypeOK, Request, disk
<1>2. PICK run : tasks' = Append(tasks, run) BY DEF Request
<1>3. /\ DOMAIN tasks \subseteq DOMAIN tasks' /\ new \notin DOMAIN tasks
      /\ \A t \in DOMAIN tasks : tasks'[t] = tasks[t]
      /\ new \in DOMAIN evidence
  BY <1>1, <1>2, LimitsAssumption
<1>4. evidence[new] = Absent BY <1>3 DEF Evidenced
<1>5. /\ pc'[p] = route /\ task'[p] = new /\ route # "evidence"
      /\ \A q \in Procs : q # p => pc'[q] = pc[q] /\ task'[q] = task[q]
  BY <1>1 DEF Request, Routes
<1> HIDE DEF new
<1>6. ASSUME NEW t \in DOMAIN evidence', evidence'[t] # Absent
      PROVE  /\ t \in DOMAIN tasks' /\ Series(tasks'[t].rows)
             /\ evidence'[t] = File(Compute(tasks'[t].rows))
  BY <1>1, <1>3, <1>6 DEF Evidenced
<1>7. ASSUME NEW q \in Procs, pc'[q] = "evidence"
      PROVE  Series(tasks'[task'[q]].rows)
  <2>1. q # p /\ pc[q] = "evidence" /\ task'[q] = task[q] BY <1>5, <1>7
  <2>2. task[q] \in DOMAIN tasks BY <2>1, AtWork
  <2> QED BY <1>3, <2>1, <2>2 DEF Evidenced
<1>8. ASSUME NEW q \in Procs, pc'[q] \in Routes
      PROVE  evidence'[task'[q]] = Absent
  <2>1. CASE q = p BY <1>1, <1>4, <1>5, <2>1
  <2>2. CASE q # p BY <1>1, <1>5, <1>8, <2>2 DEF Evidenced
  <2> QED BY <2>1, <2>2
<1> QED BY <1>6, <1>7, <1>8 DEF Evidenced

LEMMA StepEvidenced == Invariant /\ Evidenced /\ [Next]_vars => Evidenced'
<1> SUFFICES ASSUME Invariant, Evidenced, [Next]_vars PROVE Evidenced' OBVIOUS
<1>1. CASE Next
  <2>1. PICK p \in Procs :
          \/ \E route \in Routes : Request(p, route)
          \/ \E notes \in Notes : RunFake(p, notes)
          \/ HarnessFails(p)
          \/ \E answer \in Answers : RunHarness(p, answer)
          \/ CacheUnreadable(p)
          \/ \E rows \in Caches, label \in Labels : RunBacktest(p, rows, label)
          \/ WriteEvidence(p)
          \/ WriteArtifact(p) \/ WriteMeta(p) \/ Validate(p) \/ Crash(p)
    BY <1>1 DEF Next
  <2> QED BY <2>1, RequestEvidenced, WorkEvidenced, RunBacktestEvidenced,
             WriteEvidenceEvidenced, LaterStepsEvidenced
<1>2. CASE UNCHANGED vars BY <1>2 DEF vars, disk, Evidenced
<1> QED BY <1>1, <1>2

(* Evidence comes from nowhere else.                                       *)
LEMMA AlwaysEvidenced == Spec => []Evidenced
<1>1. Init => Evidenced
  BY DEF Init, Evidenced, Routes
<1> QED BY <1>1, StepEvidenced, Safety, PTL DEF Spec

LEMMA EvidenceIs ==
  ASSUME Invariant, Evidenced, NEW t \in DOMAIN tasks, evidence[t] # Absent
  PROVE  /\ Series(tasks[t].rows) /\ evidence[t] = File(Compute(tasks[t].rows))
         /\ tasks[t].rows \in Seq(PriceRecords)
<1>1. DOMAIN evidence = 1..MaxTasks /\ tasks \in Seq(TaskRuns) /\ Len(tasks) <= MaxTasks
  BY DEF Invariant, TypeOK
<1>2. t \in DOMAIN evidence BY <1>1, LimitsAssumption
<1>3. tasks[t].rows \in Seq(PriceRecords)
  <2>1. tasks[t] \in TaskRuns BY <1>1
  <2>2. tasks[t].rows \in Caches \cup {<<>>} BY <2>1 DEF TaskRuns
  <2>3. Caches \subseteq Seq(PriceRecords) BY CachesAssumption DEF PriceRecords
  <2>4. <<>> \in Seq(PriceRecords) OBVIOUS
  <2> QED BY <2>2, <2>3, <2>4
<1> QED BY <1>2, <1>3 DEF Evidenced

(* Evidence comes from a cache that passed the checks, and those leave     *)
(* only dates that rise as text, each with a close above zero, infinite or *)
(* NaN (load_btc_ohlcv_records).                                           *)
THEOREM EvidenceSound == Spec => []EvidenceFromSeries
<1>1. Invariant /\ Evidenced => EvidenceFromSeries
  BY EvidenceIs DEF EvidenceFromSeries, Workspace
<1> QED BY <1>1, AlwaysEvidenced, Safety, PTL

(* The evidence of every task run reports the worst fall and the trades    *)
(* that are meant, NaN and Inf among the closes or not, and the growth in  *)
(* the market when every close is a number                                 *)
(* (compute_btc_baseline_backtests).                                       *)
THEOREM FiguresAreMeant == Spec => []FiguresMatch
<1>1. Invariant /\ Evidenced => FiguresMatch
  <2> SUFFICES ASSUME Invariant, Evidenced,
                      NEW t \in DOMAIN tasks, evidence[t] # Absent,
                      NEW figures, figures = Contents(evidence[t]),
                      NEW closes, closes = Closes(tasks[t].rows)
               PROVE  AreMeant(figures, closes)
    BY DEF FiguresMatch, AreMeant, Workspace
  <2>1. /\ Series(tasks[t].rows) /\ tasks[t].rows \in Seq(PriceRecords)
        /\ figures = Compute(tasks[t].rows)
    BY EvidenceIs DEF File, Contents
  <2> QED BY <2>1, ComputedIsMeant
<1> QED BY <1>1, AlwaysEvidenced, Safety, PTL

-----------------------------------------------------------------------------
(* What the workers of the house write.                                    *)

(* The k-th section takes four lines.                                      *)
LEMMA EnlistIs ==
  ASSUME NEW sections \in Seq(Slugs), NEW body \in [Slugs -> Lines]
  PROVE  /\ Enlist(sections, body) \in Seq(Lines)
         /\ Len(Enlist(sections, body)) = 4 * Len(sections)
         /\ \A k \in DOMAIN sections :
              /\ 4 * k - 3 \in 1..(4 * Len(sections)) /\ 4 * k \in 1..(4 * Len(sections))
              /\ Enlist(sections, body)[4 * k - 3] = Heading(sections[k])
              /\ Enlist(sections, body)[4 * k - 2] = Blank
              /\ Enlist(sections, body)[4 * k - 1] = body[sections[k]]
              /\ Enlist(sections, body)[4 * k] = Blank
         /\ \A i \in 1..(4 * Len(sections)) :
              \/ Enlist(sections, body)[i] = Blank
              \/ \E slug \in Slugs : Enlist(sections, body)[i] \in {Heading(slug), body[slug]}
<1> DEFINE LineAt(i) ==
             LET slug == sections[(i + 3) \div 4] IN
             CASE i % 4 = 1 -> Heading(slug)
               [] i % 4 = 3 -> body[slug]
               [] OTHER -> Blank
<1>1. Enlist(sections, body) = [i \in 1..(4 * Len(sections)) |-> LineAt(i)]
  BY DEF Enlist
<1>2. Len(sections) \in Nat /\ 4 * Len(sections) \in Nat /\ DOMAIN sections = 1..Len(sections)
  OBVIOUS
<1>3. \A i \in 1..(4 * Len(sections)) : sections[(i + 3) \div 4] \in Slugs
  <2> TAKE i \in 1..(4 * Len(sections))
  <2>1. (i + 3) \div 4 \in 1..Len(sections)
    BY <1>2
  <2> QED
    BY <2>1
<1>4. \A i \in 1..(4 * Len(sections)) :
        /\ LineAt(i) \in Lines
        /\ LineAt(i) = Blank \/ \E slug \in Slugs : LineAt(i) \in {Heading(slug), body[slug]}
  <2> TAKE i \in 1..(4 * Len(sections))
  <2>1. PICK slug \in Slugs : slug = sections[(i + 3) \div 4]
    BY <1>3
  <2>2. Heading(slug) \in Lines /\ body[slug] \in Lines /\ Blank \in Lines
    BY DEF Lines
  <2> QED
    BY <2>1, <2>2
<1>5. ASSUME NEW k \in DOMAIN sections
      PROVE  /\ 4 * k - 3 \in 1..(4 * Len(sections)) /\ 4 * k - 2 \in 1..(4 * Len(sections))
             /\ 4 * k - 1 \in 1..(4 * Len(sections)) /\ 4 * k \in 1..(4 * Len(sections))
             /\ LineAt(4 * k - 3) = Heading(sections[k])
             /\ LineAt(4 * k - 2) = Blank
             /\ LineAt(4 * k - 1) = body[sections[k]]
             /\ LineAt(4 * k) = Blank
  <2>1. k \in Nat /\ 1 <= k /\ k <= Len(sections)
    BY <1>2
  <2>2. (4 * k - 3) % 4 = 1 /\ (4 * k - 2) % 4 = 2 /\ (4 * k - 1) % 4 = 3 /\ (4 * k) % 4 = 0
    BY <2>1
  <2>3. (4 * k - 3 + 3) \div 4 = k /\ (4 * k - 1 + 3) \div 4 = k
    BY <2>1
  <2>4. /\ 4 * k - 3 \in 1..(4 * Len(sections)) /\ 4 * k - 2 \in 1..(4 * Len(sections))
        /\ 4 * k - 1 \in 1..(4 * Len(sections)) /\ 4 * k \in 1..(4 * Len(sections))
    BY <1>2, <2>1
  <2>5. LineAt(4 * k - 3) = Heading(sections[k]) /\ LineAt(4 * k - 1) = body[sections[k]]
    BY <2>2, <2>3
  <2>6. LineAt(4 * k - 2) = Blank /\ LineAt(4 * k) = Blank
    BY <2>2
  <2> QED
    BY <2>4, <2>5, <2>6
<1> HIDE DEF LineAt
<1>6. Enlist(sections, body) \in Seq(Lines) /\ Len(Enlist(sections, body)) = 4 * Len(sections)
  BY <1>1, <1>2, <1>4
<1>7. \A i \in 1..(4 * Len(sections)) : Enlist(sections, body)[i] = LineAt(i)
  BY <1>1
<1> QED
  BY <1>4, <1>5, <1>6, <1>7

(* A body that is neither blank, bare nor a credential leaves every        *)
(* section with a heading of its own, and room for another.                *)
LEMMA EnlistSpaced ==
  ASSUME NEW sections \in Seq(Slugs), sections # <<>>, NEW body \in [Slugs -> Lines],
         \A slug \in Slugs : body[slug].kind \notin {"bare", "blank", "credential"}
  PROVE  /\ EndsSpaced(Enlist(sections, body))
         /\ ~ContainsSecretMaterial(Enlist(sections, body))
         /\ \A k \in DOMAIN sections : k > 1 =>
              SpacedHeading(Enlist(sections, body), sections[k], 4 * k - 3)
<1>1. PICK text \in Seq(Lines) : text = Enlist(sections, body)
  BY EnlistIs
<1>2. /\ Len(text) = 4 * Len(sections) /\ DOMAIN text = 1..Len(text)
      /\ Len(sections) \in Nat /\ Len(sections) \in DOMAIN sections
      /\ DOMAIN sections = 1..Len(sections)
  BY <1>1, EnlistIs
<1>3. \A k \in DOMAIN sections :
        /\ 4 * k - 3 \in DOMAIN text /\ sections[k] \in Slugs
        /\ text[4 * k - 3] = Heading(sections[k])
        /\ text[4 * k - 1] = body[sections[k]]
        /\ text[4 * k] = Blank
  <2> TAKE k \in DOMAIN sections
  <2>1. sections[k] \in Slugs
    OBVIOUS
  <2> QED
    BY <1>1, <1>2, <2>1, EnlistIs
<1>4. EndsSpaced(text)
  <2>1. PICK k \in DOMAIN sections : k = Len(sections)
    BY <1>2
  <2>2. text[4 * k] = Blank /\ text[4 * k - 1] = body[sections[k]] /\ sections[k] \in Slugs
    BY <1>3
  <2>3. Len(text) = 4 * k /\ 4 * k > 1
    BY <1>2, <2>1
  <2> QED
    BY <2>2, <2>3 DEF EndsSpaced
<1>5. ~ContainsSecretMaterial(text)
  <2>1. SUFFICES ASSUME NEW i \in DOMAIN text PROVE text[i].kind # "credential"
    BY DEF ContainsSecretMaterial
  <2>2. text[i] = Blank \/ \E slug \in Slugs : text[i] \in {Heading(slug), body[slug]}
    BY <1>1, <1>2, EnlistIs
  <2> QED
    BY <2>2, KindsDiffer
<1>6. ASSUME NEW k \in DOMAIN sections, k > 1
      PROVE  SpacedHeading(text, sections[k], 4 * k - 3)
  <2>1. k - 1 \in DOMAIN sections
    BY <1>2, <1>6
  <2>2. 4 * k - 3 - 1 = 4 * (k - 1) /\ 4 * k - 3 - 2 = 4 * (k - 1) - 1 /\ 4 * k - 3 > 2
    BY <1>2, <1>6
  <2>3. text[4 * k - 3 - 1] = Blank /\ text[4 * k - 3 - 2] = body[sections[k - 1]]
    BY <1>3, <2>1, <2>2
  <2> QED
    BY <1>3, <2>1, <2>2, <2>3 DEF SpacedHeading
<1> QED
  BY <1>1, <1>4, <1>5, <1>6

(* Below a text that makes room, each of the sections has its heading.     *)
Lists(text, front, sections) ==
  /\ text \in Seq(Lines) /\ EndsSpaced(text)
  /\ ContainsSecretMaterial(text) => ContainsSecretMaterial(front)
  /\ \A slug \in ToSet(sections) : \E i \in DOMAIN text : SpacedHeading(text, slug, i)

LEMMA Enlisted ==
  ASSUME NEW front \in Seq(Lines), EndsSpaced(front),
         NEW sections \in Seq(Slugs), sections # <<>>, NEW body \in [Slugs -> Lines],
         \A slug \in Slugs : body[slug].kind \notin {"bare", "blank", "credential"},
         NEW text, text = front \o Enlist(sections, body)
  PROVE  Lists(text, front, sections)
<1>1. PICK listed \in Seq(Lines) : listed = Enlist(sections, body)
  BY EnlistIs
<1>2. EndsSpaced(listed) /\ ~ContainsSecretMaterial(listed)
  BY <1>1, EnlistSpaced
<1>3. text \in Seq(Lines) /\ EndsSpaced(text)
  BY <1>1, <1>2, Joined, EndsJoined
<1>4. ContainsSecretMaterial(text) => ContainsSecretMaterial(front)
  BY <1>1, <1>2, Joined
<1>5. ASSUME NEW k \in DOMAIN sections
      PROVE  \E i \in DOMAIN text : SpacedHeading(text, sections[k], i)
  <2>1. PICK i \in DOMAIN listed : i = 4 * k - 3 /\ listed[i] = Heading(sections[k])
    BY <1>1, EnlistIs
  <2>2. i = 1 \/ SpacedHeading(listed, sections[k], i)
    <3>1. k \in Nat /\ k >= 1
      OBVIOUS
    <3>2. CASE k = 1
      BY <2>1, <3>2
    <3>3. CASE k > 1
      BY <1>1, <2>1, <3>3, EnlistSpaced
    <3> QED
      BY <3>1, <3>2, <3>3
  <2>3. SpacedHeading(text, sections[k], Len(front) + i)
    BY <1>1, <2>1, <2>2, SpacedNext
  <2> QED
    BY <2>3 DEF SpacedHeading
<1> QED
  BY <1>3, <1>4, <1>5 DEF ToSet, Lists

LEMMA SlugsAre ==
  /\ {"title", "placeholder", "table", "strategies", "backtests", "metrics",
      "verdicts", "risks", "next_actions", "sources"} \subseteq Slugs
  /\ ToSet(BacktestSections) = {"strategies", "backtests", "metrics",
      "verdicts", "risks", "next_actions", "sources"}
<1>1. DOMAIN BacktestSections = 1..7
  BY DEF BacktestSections
<1>2. /\ BacktestSections[1] = "strategies" /\ BacktestSections[2] = "backtests"
      /\ BacktestSections[3] = "metrics" /\ BacktestSections[4] = "verdicts"
      /\ BacktestSections[5] = "risks" /\ BacktestSections[6] = "next_actions"
      /\ BacktestSections[7] = "sources"
  BY DEF BacktestSections
<1>3. ToSet(BacktestSections) = {BacktestSections[i] : i \in 1..7}
  BY <1>1 DEF ToSet
<1>4. ToSet(BacktestSections) = {"strategies", "backtests", "metrics",
        "verdicts", "risks", "next_actions", "sources"}
  <2>1. \A i \in 1..7 : \/ i = 1 \/ i = 2 \/ i = 3 \/ i = 4 \/ i = 5 \/ i = 6 \/ i = 7
    OBVIOUS
  <2> QED
    BY <1>2, <1>3, <2>1
<1> QED
  BY <1>4, SectionsAssumption

LEMMA LinesAre ==
  /\ \A slug \in Slugs : Heading(slug) \in Lines /\ Prose(slug) \in Lines
  /\ Item \in Lines /\ Blank \in Lines
  BY DEF Lines

(* Every text starts with its title, and makes room below it.              *)
LEMMA TitleIs ==
  /\ <<Prose("title"), Blank>> \in Seq(Lines)
  /\ EndsSpaced(<<Prose("title"), Blank>>)
  /\ ~ContainsSecretMaterial(<<Prose("title"), Blank>>)
<1>1. Prose("title") \in Lines /\ Blank \in Lines
  BY SlugsAre, LinesAre
<1> DEFINE title == <<Prose("title"), Blank>>
<1>2. title \in Seq(Lines) /\ Len(title) = 2 /\ DOMAIN title = {1, 2}
      /\ title[1] = Prose("title") /\ title[2] = Blank
  BY <1>1
<1> HIDE DEF title
<1>3. EndsSpaced(title)
  BY <1>2, KindsDiffer DEF EndsSpaced
<1>4. ~ContainsSecretMaterial(title)
  BY <1>2, KindsDiffer DEF ContainsSecretMaterial
<1> QED
  BY <1>2, <1>3, <1>4 DEF title

(* The placeholder artifact, whatever the notes.                           *)
LEMMA FakeIs ==
  ASSUME NEW notes \in Seq(Lines)
  PROVE  /\ FakeText(notes) \in Seq(Lines)
         /\ WellSpaced(FakeText(notes), ToSet(RequiredSections))
         /\ ContainsSecretMaterial(FakeText(notes)) => ContainsSecretMaterial(notes)
<1> DEFINE body == [slug \in Slugs |-> IF slug = "sources" THEN Item ELSE Prose("placeholder")]
           title == <<Prose("title"), Blank>>
           listed == Enlist(RequiredSections, body)
           front == title \o listed
           text == front \o notes
<1>1. /\ body \in [Slugs -> Lines] /\ body["sources"] = Item
      /\ \A slug \in Slugs : body[slug].kind \notin {"bare", "blank", "credential"}
  BY SlugsAre, LinesAre, KindsDiffer
<1>2. FakeText(notes) = text
  BY DEF FakeText
<1>3. RequiredSections \in Seq(Slugs) /\ RequiredSections # <<>>
  BY SectionsAssumption DEF ToSet
<1>4. title \in Seq(Lines) /\ EndsSpaced(title) /\ ~ContainsSecretMaterial(title)
      /\ Len(title) = 2 /\ title[1] = Prose("title")
  BY TitleIs
<1> HIDE DEF body, title
<1>5. /\ listed \in Seq(Lines) /\ front \in Seq(Lines)
      /\ ~ContainsSecretMaterial(front)
      /\ \A slug \in ToSet(RequiredSections) : \E i \in DOMAIN front : SpacedHeading(front, slug, i)
  <2>1. listed \in Seq(Lines)
    BY <1>1, <1>3, EnlistIs
  <2>2. front = title \o Enlist(RequiredSections, body)
    OBVIOUS
  <2> HIDE DEF front, listed
  <2>3. Lists(front, title, RequiredSections)
    BY <1>1, <1>3, <1>4, <2>2, Enlisted
  <2> QED
    BY <1>4, <2>1, <2>3 DEF Lists
<1>6. Sourced(listed)
  <2>1. PICK k \in DOMAIN RequiredSections : RequiredSections[k] = "sources"
    BY SectionsAssumption DEF ToSet
  <2>2. /\ DOMAIN listed = 1..(4 * Len(RequiredSections))
        /\ 4 * k - 3 \in 1..(4 * Len(RequiredSections)) /\ 4 * k \in 1..(4 * Len(RequiredSections))
        /\ listed[4 * k - 3] = Heading("sources")
        /\ listed[4 * k - 2] = Blank
        /\ listed[4 * k - 1] = Item
    BY <1>1, <1>3, <2>1, EnlistIs
  <2>3. PICK i \in DOMAIN listed : i = 4 * k - 3
    BY <2>2
  <2>4. i + 1 = 4 * k - 2 /\ i + 2 = 4 * k - 1 /\ i + 1 \in DOMAIN listed /\ i + 2 \in DOMAIN listed
    BY <2>2, <2>3
  <2> QED
    BY <1>5, <2>2, <2>3, <2>4, SourcedBelow
<1>7. text \in Seq(Lines) /\ Sourced(text)
  BY <1>4, <1>5, <1>6, Joined, SourcedJoined
<1>8. 1 \in DOMAIN text /\ text[1] = Prose("title")
  <2>1. 1 \in DOMAIN title
    BY <1>4
  <2>2. 1 \in DOMAIN front /\ front[1] = Prose("title")
    BY <1>4, <1>5, <2>1, Joined
  <2> QED
    BY <1>5, <2>2, Joined
<1>9. \A slug \in ToSet(RequiredSections) : \E i \in DOMAIN text : SpacedHeading(text, slug, i)
  <2> TAKE slug \in ToSet(RequiredSections)
  <2>1. PICK i : SpacedHeading(front, slug, i)
    BY <1>5
  <2>2. SpacedHeading(text, slug, i)
    BY <1>5, <2>1, SpacedStays
  <2> QED
    BY <2>2 DEF SpacedHeading
<1>10. ContainsSecretMaterial(text) => ContainsSecretMaterial(notes)
  BY <1>5, Joined
<1> HIDE DEF text
<1>11. text # <<>>
  BY <1>8
<1> QED
  BY <1>2, <1>7, <1>8, <1>9, <1>10, <1>11, KindsDiffer DEF WellSpaced

(* What the report adds by hand between the sections of its tables.        *)
LEMMA RowsAre ==
  /\ <<Heading("backtests"), Blank>> \in Seq(Lines)
  /\ <<Item, Blank>> \in Seq(Lines)
  /\ <<Heading("sources"), Blank, Item>> \in Seq(Lines)
  /\ <<Heading("backtests"), Blank>>[1] = Heading("backtests")
  /\ <<Heading("sources"), Blank, Item>>[1] = Heading("sources")
  /\ EndsSpaced(<<Item, Blank>>)
  /\ Sourced(<<Heading("sources"), Blank, Item>>)
  /\ ~ContainsSecretMaterial(<<Heading("backtests"), Blank>>)
  /\ ~ContainsSecretMaterial(<<Item, Blank>>)
  /\ ~ContainsSecretMaterial(<<Heading("sources"), Blank, Item>>)
<1>1. Heading("backtests") \in Lines /\ Heading("sources") \in Lines /\ Item \in Lines /\ Blank \in Lines
  BY SlugsAre, LinesAre
<1>2. PICK two : two = <<Heading("backtests"), Blank>>
  OBVIOUS
<1>3. PICK row : row = <<Item, Blank>>
  OBVIOUS
<1>4. PICK three : three = <<Heading("sources"), Blank, Item>>
  OBVIOUS
<1>5. /\ two \in Seq(Lines) /\ DOMAIN two = {1, 2}
      /\ two[1] = Heading("backtests") /\ two[2] = Blank
  BY <1>1, <1>2
<1>6. /\ row \in Seq(Lines) /\ DOMAIN row = {1, 2} /\ Len(row) = 2
      /\ row[1] = Item /\ row[2] = Blank
  BY <1>1, <1>3
<1>7. /\ three \in Seq(Lines) /\ DOMAIN three = {1, 2, 3}
      /\ three[1] = Heading("sources") /\ three[2] = Blank /\ three[3] = Item
  BY <1>1, <1>4
<1>8. ~ContainsSecretMaterial(two) /\ ~ContainsSecretMaterial(row) /\ ~ContainsSecretMaterial(three)
  BY <1>5, <1>6, <1>7, KindsDiffer DEF ContainsSecretMaterial
<1>9. EndsSpaced(row)
  BY <1>6, KindsDiffer DEF EndsSpaced
<1>10. Sourced(three)
  <2>1. 1 \in DOMAIN three /\ 1 + 1 \in DOMAIN three /\ 1 + 2 \in DOMAIN three
        /\ three[1 + 1] = Blank /\ three[1 + 2] = Item
    BY <1>7
  <2> QED
    BY <1>7, <2>1, SourcedBelow
<1> QED
  BY <1>2, <1>3, <1>4, <1>5, <1>6, <1>7, <1>8, <1>9, <1>10

(* The report of the backtest, whatever the label of its cache.            *)
LEMMA BacktestIs ==
  ASSUME NEW label \in Seq(Lines)
  PROVE  /\ BacktestText(label) \in Seq(Lines)
         /\ WellSpaced(BacktestText(label), ToSet(BacktestSections))
         /\ ContainsSecretMaterial(BacktestText(label)) => ContainsSecretMaterial(label)
<1> DEFINE body == [slug \in Slugs |-> IF slug = "metrics" THEN Prose("table") ELSE Item]
           title == <<Prose("title"), Blank>>
           two == <<Heading("backtests"), Blank>>
           row == <<Item, Blank>>
           three == <<Heading("sources"), Blank, Item>>
           rest == <<"metrics", "verdicts", "risks", "next_actions">>
           Headings(text, slug) == \E i \in DOMAIN text : SpacedHeading(text, slug, i)
<1>1. /\ body \in [Slugs -> Lines]
      /\ \A slug \in Slugs : body[slug].kind \notin {"bare", "blank", "credential"}
  BY SlugsAre, LinesAre, KindsDiffer
<1>2. PICK t0 : t0 = title \o Enlist(<<"strategies">>, body)
  OBVIOUS
<1>3. PICK t1 : t1 = t0 \o two
  OBVIOUS
<1>4. PICK t2 : t2 = t1 \o label
  OBVIOUS
<1>5. PICK t3 : t3 = t2 \o row
  OBVIOUS
<1>6. PICK t4 : t4 = t3 \o Enlist(rest, body)
  OBVIOUS
<1>7. PICK t5 : t5 = t4 \o three
  OBVIOUS
<1>8. PICK t6 : t6 = t5 \o label
  OBVIOUS
<1>9. BacktestText(label) = t6
  BY <1>2, <1>3, <1>4, <1>5, <1>6, <1>7, <1>8 DEF BacktestText
<1>10. /\ title \in Seq(Lines) /\ EndsSpaced(title) /\ ~ContainsSecretMaterial(title)
       /\ Len(title) = 2 /\ title[1] = Prose("title")
  BY TitleIs
<1>11. /\ two \in Seq(Lines) /\ row \in Seq(Lines) /\ three \in Seq(Lines)
       /\ two # <<>> /\ three # <<>>
       /\ two[1] = Heading("backtests") /\ three[1] = Heading("sources")
       /\ EndsSpaced(row) /\ Sourced(three)
       /\ ~ContainsSecretMaterial(two) /\ ~ContainsSecretMaterial(row)
       /\ ~ContainsSecretMaterial(three)
  BY RowsAre
<1>12. <<"strategies">> \in Seq(Slugs) /\ <<"strategies">> # <<>> /\ "strategies" \in ToSet(<<"strategies">>)
  BY SlugsAre DEF ToSet
<1>13. /\ rest \in Seq(Slugs) /\ rest # <<>>
       /\ {"metrics", "verdicts", "risks", "next_actions"} \subseteq ToSet(rest)
  <2>1. rest \in Seq(Slugs) /\ DOMAIN rest = {1, 2, 3, 4} /\ Len(rest) = 4
        /\ rest[1] = "metrics" /\ rest[2] = "verdicts" /\ rest[3] = "risks"
        /\ rest[4] = "next_actions"
    BY SlugsAre
  <2>3. rest # <<>>
    OBVIOUS
  <2> HIDE DEF rest
  <2>2. ToSet(rest) = {rest[i] : i \in {1, 2, 3, 4}}
    BY <2>1 DEF ToSet
  <2> QED
    BY <2>1, <2>2, <2>3
<1> HIDE DEF body, title, two, row, three, rest
<1>14. Lists(t0, title, <<"strategies">>)
  BY <1>1, <1>2, <1>10, <1>12, Enlisted
<1>15. /\ t0 \in Seq(Lines) /\ EndsSpaced(t0) /\ ~ContainsSecretMaterial(t0)
       /\ Headings(t0, "strategies")
  BY <1>10, <1>12, <1>14 DEF Lists
<1>16. /\ t1 \in Seq(Lines) /\ ~ContainsSecretMaterial(t1)
       /\ Headings(t1, "strategies") /\ Headings(t1, "backtests")
  <2>1. 1 \in DOMAIN two
    BY <1>11
  <2>2. SpacedHeading(t1, "backtests", Len(t0) + 1)
    BY <1>3, <1>11, <1>15, <2>1, SpacedNext
  <2>3. Headings(t1, "strategies")
    BY <1>3, <1>11, <1>15, HeadingsStay
  <2>4. Headings(t1, "backtests")
    BY <2>2 DEF SpacedHeading
  <2> HIDE DEF Headings
  <2> QED
    BY <1>3, <1>11, <1>15, <2>3, <2>4, Joined
<1>17. /\ t2 \in Seq(Lines)
       /\ ContainsSecretMaterial(t2) => ContainsSecretMaterial(label)
       /\ Headings(t2, "strategies") /\ Headings(t2, "backtests")
  BY <1>4, <1>16, Joined, HeadingsStay
<1>18. /\ t3 \in Seq(Lines) /\ EndsSpaced(t3)
       /\ ContainsSecretMaterial(t3) => ContainsSecretMaterial(label)
       /\ Headings(t3, "strategies") /\ Headings(t3, "backtests")
  BY <1>5, <1>11, <1>17, Joined, EndsJoined, HeadingsStay
<1>19. Lists(t4, t3, rest)
  BY <1>1, <1>6, <1>13, <1>18, Enlisted
<1>20. \E listed \in Seq(Lines) : t4 = t3 \o listed
  BY <1>1, <1>6, <1>13, EnlistIs
<1>21. /\ t4 \in Seq(Lines) /\ EndsSpaced(t4)
       /\ ContainsSecretMaterial(t4) => ContainsSecretMaterial(label)
       /\ Headings(t4, "strategies") /\ Headings(t4, "backtests")
       /\ Headings(t4, "metrics") /\ Headings(t4, "verdicts") /\ Headings(t4, "risks")
       /\ Headings(t4, "next_actions")
  <2>1. Headings(t4, "strategies") /\ Headings(t4, "backtests")
    BY <1>18, <1>20, HeadingsStay
  <2> QED
    BY <1>13, <1>18, <1>19, <2>1 DEF Lists
<1>22. /\ t5 \in Seq(Lines) /\ Sourced(t5)
       /\ ContainsSecretMaterial(t5) => ContainsSecretMaterial(label)
       /\ Headings(t5, "sources")
  <2>1. 1 \in DOMAIN three
    BY <1>11
  <2>2. SpacedHeading(t5, "sources", Len(t4) + 1)
    BY <1>7, <1>11, <1>21, <2>1, SpacedNext
  <2> QED
    BY <1>7, <1>11, <1>21, <2>2, Joined, SourcedJoined DEF SpacedHeading
<1>23. /\ t6 \in Seq(Lines) /\ Sourced(t6)
       /\ ContainsSecretMaterial(t6) => ContainsSecretMaterial(label)
  BY <1>8, <1>22, Joined, SourcedJoined
<1>24. \A slug \in ToSet(BacktestSections) : Headings(t6, slug)
  <2>1. \A slug : Headings(t5, slug) => Headings(t6, slug)
    BY <1>8, <1>22, HeadingsStay
  <2>2. \A slug : Headings(t4, slug) => Headings(t5, slug)
    BY <1>7, <1>11, <1>21, HeadingsStay
  <2> HIDE DEF Headings
  <2> QED
    BY <1>21, <1>22, <2>1, <2>2, SlugsAre
<1>25. 1 \in DOMAIN t6 /\ t6[1] = Prose("title")
  <2>1. 1 \in DOMAIN title /\ title[1] = Prose("title")
    BY <1>10
  <2>2. 1 \in DOMAIN t0 /\ t0[1] = Prose("title")
    BY <1>1, <1>2, <1>10, <1>12, <2>1, EnlistIs, Joined
  <2>3. 1 \in DOMAIN t1 /\ t1[1] = Prose("title")
    BY <1>3, <1>11, <1>15, <2>2, Joined
  <2>4. 1 \in DOMAIN t2 /\ t2[1] = Prose("title")
    BY <1>4, <1>16, <2>3, Joined
  <2>5. 1 \in DOMAIN t3 /\ t3[1] = Prose("title")
    BY <1>5, <1>11, <1>17, <2>4, Joined
  <2>6. 1 \in DOMAIN t4 /\ t4[1] = Prose("title")
    BY <1>18, <1>20, <2>5, Joined
  <2>7. 1 \in DOMAIN t5 /\ t5[1] = Prose("title")
    BY <1>7, <1>11, <1>21, <2>6, Joined
  <2> QED
    BY <1>8, <1>22, <2>7, Joined
<1>26. t6 # <<>>
  BY <1>25
<1> QED
  BY <1>9, <1>23, <1>24, <1>25, <1>26, KindsDiffer DEF WellSpaced

-----------------------------------------------------------------------------
(* Verdicts and the files they were given on.                              *)

(* A step of process p leaves the other task runs, their directories and   *)
(* their processes alone.                                                  *)
Aside(p, own) ==
  /\ DOMAIN tasks' = DOMAIN tasks
  /\ \A t \in DOMAIN tasks : t # own => /\ tasks'[t] = tasks[t] /\ evidence'[t] = evidence[t]
                                       /\ artifact'[t] = artifact[t] /\ meta'[t] = meta[t]
  /\ \A q \in Procs : q # p => pc'[q] = pc[q] /\ task'[q] = task[q]

(* Such a step keeps verdicts in order if it leaves its own so.            *)
LEMMA OwnVerdict ==
  ASSUME Invariant, Judged, NEW p \in Procs, pc[p] # "idle", NEW own, own = task[p], Aside(p, own),
         pc'[p] = "gate" => task'[p] = own /\ HasMeta(own)',
         tasks'[own].phase \in {"accepted", "rejected"} => HasText(own)' /\ HasMeta(own)',
         tasks'[own].phase = "rejected" => ~Passes(own)'
  PROVE  Judged'
<1>1. \A t \in DOMAIN tasks : t # own => /\ tasks'[t] = tasks[t]
                                         /\ HasText(t)' = HasText(t)
                                         /\ HasMeta(t)' = HasMeta(t)
                                         /\ Passes(t)' = Passes(t)
  <2>1. TAKE t \in DOMAIN tasks
  <2>2. HAVE t # own
  <2>3. /\ tasks'[t] = tasks[t] /\ evidence'[t] = evidence[t]
        /\ artifact'[t] = artifact[t] /\ meta'[t] = meta[t]
    BY <2>2 DEF Aside
  <2> QED
    BY <2>3, SameRun
<1>2. DOMAIN tasks' = DOMAIN tasks
  BY DEF Aside
<1>3. ASSUME NEW q \in Procs, pc'[q] = "gate"
      PROVE  (HasMeta(task[q]))'
  <2>1. CASE q = p
    <3>1. task'[q] = own /\ HasMeta(own)'
      BY <1>3, <2>1
    <3> QED
      BY <3>1
  <2>2. CASE q # p
    <3>1. pc[q] = "gate" /\ task'[q] = task[q]
      BY <1>3, <2>2 DEF Aside
    <3>2. task[q] \in DOMAIN tasks /\ task[q] # own
      BY <2>2, <3>1 DEF Invariant, RunsOwned
    <3>3. HasMeta(task[q])
      BY <3>1 DEF Judged
    <3> QED
      BY <1>1, <3>1, <3>2, <3>3
  <2> QED
    BY <2>1, <2>2
<1>4. ASSUME NEW t \in DOMAIN tasks, tasks'[t].phase \in {"accepted", "rejected"}
      PROVE  HasText(t)' /\ HasMeta(t)'
  <2>1. CASE t = own
    BY <1>4, <2>1
  <2>2. CASE t # own
    <3>1. HasText(t) /\ HasMeta(t)
      BY <1>1, <1>4, <2>2 DEF Judged, Accepted, RejectedRuns
    <3> QED
      BY <1>1, <2>2, <3>1
  <2> QED
    BY <2>1, <2>2
<1>5. ASSUME NEW t \in DOMAIN tasks, tasks'[t].phase = "rejected"
      PROVE  ~Passes(t)'
  <2>1. CASE t = own
    BY <1>5, <2>1
  <2>2. CASE t # own
    <3>1. ~Passes(t)
      BY <1>1, <1>5, <2>2 DEF Judged, RejectedRuns
    <3> QED
      BY <1>1, <2>2, <3>1
  <2> QED
    BY <2>1, <2>2
<1> QED
  BY <1>2, <1>3, <1>4, <1>5 DEF Judged, Accepted, RejectedRuns

LEMMA GivenVerdict ==
  ASSUME Invariant, Judged, NEW p \in Procs,
         \/ \E notes \in Notes : RunFake(p, notes)
         \/ HarnessFails(p)
         \/ \E answer \in Answers : RunHarness(p, answer)
         \/ CacheUnreadable(p)
         \/ \E rows \in Caches, label \in Labels : RunBacktest(p, rows, label)
  PROVE  Judged'
<1>1. PICK own : own = task[p]
  OBVIOUS
<1>2. pc[p] # "idle" /\ UNCHANGED <<evidence, artifact, meta>>
  BY DEF RunFake, HarnessFails, RunHarness, CacheUnreadable, RunBacktest, disk
<1>3. PICK given \in Given, rows \in Caches \cup {<<>>} :
        /\ Give(p, given, rows) \/ Fail(p, given, rows)
        /\ Leave(p) \/ Goto(p, "artifact") \/ Goto(p, "evidence")
  <2>1. Notes \subseteq Given /\ Answers \subseteq Given /\ Labels \subseteq Given /\ <<>> \in Given
    BY DEF Given
  <2>2. CASE \E rows \in Caches, label \in Labels : RunBacktest(p, rows, label)
    <3>1. PICK rows \in Caches, label \in Labels : RunBacktest(p, rows, label)
      BY <2>2
    <3>2. Run(rows) \in {Fine, Rejected, Raised}
      BY DEF Run, LoadRecords, CheckRecord
    <3> QED
      BY <2>1, <3>1, <3>2 DEF RunBacktest, Fail, Fine, Rejected, Raised
  <2>3. CASE ~\E rows \in Caches, label \in Labels : RunBacktest(p, rows, label)
    BY <2>1, <2>3 DEF RunFake, HarnessFails, RunHarness, CacheUnreadable, Fail
  <2> QED
    BY <2>2, <2>3
<1>4. PICK run \in TaskRuns : /\ run.phase \in {"requested", "failed"}
                              /\ tasks' = [tasks EXCEPT ![own] = run]
  BY <1>1, <1>2, <1>3, GiveIs
<1>5. own \in DOMAIN tasks /\ tasks \in Seq(TaskRuns)
      /\ pc \in [Procs -> PCs] /\ task \in [Procs -> Nat]
  BY <1>1, <1>2, AtWork DEF Invariant, TypeOK
<1>6. tasks'[own] = run /\ pc'[p] # "gate"
  BY <1>3, <1>4, <1>5 DEF Leave, Goto
<1>7. Aside(p, own)
  <2>1. \A q \in Procs : q # p => pc'[q] = pc[q] /\ task'[q] = task[q]
    BY <1>3, <1>5 DEF Leave, Goto
  <2> QED
    BY <1>2, <1>4, <1>5, <2>1 DEF Aside
<1> QED
  BY <1>1, <1>2, <1>4, <1>6, <1>7, OwnVerdict

LEMMA FileVerdict ==
  ASSUME Invariant, Judged, NEW p \in Procs,
         WriteEvidence(p) \/ WriteArtifact(p) \/ WriteMeta(p) \/ Crash(p)
  PROVE  Judged'
<1>1. PICK own : own = task[p]
  OBVIOUS
<1>2. pc[p] # "idle" /\ UNCHANGED tasks
  BY DEF WriteEvidence, WriteArtifact, WriteMeta, Crash
<1>3. /\ own \in DOMAIN tasks /\ own \in 1..MaxTasks /\ tasks[own].phase = "requested"
      /\ DOMAIN evidence = 1..MaxTasks /\ DOMAIN artifact = 1..MaxTasks
      /\ DOMAIN meta = 1..MaxTasks
      /\ pc \in [Procs -> PCs] /\ task \in [Procs -> Nat]
  BY <1>1, <1>2, AtWork DEF Invariant, TypeOK
<1>4. Aside(p, own)
  <2>1. \A q \in Procs : q # p => pc'[q] = pc[q] /\ task'[q] = task[q]
    BY <1>3 DEF WriteEvidence, WriteArtifact, WriteMeta, Crash, Goto, Leave
  <2>2. \A t \in DOMAIN tasks : t # own =>
          evidence'[t] = evidence[t] /\ artifact'[t] = artifact[t] /\ meta'[t] = meta[t]
    <3>1. tasks \in Seq(TaskRuns) /\ Len(tasks) <= MaxTasks
      BY DEF Invariant, TypeOK
    <3>2. \A t \in DOMAIN tasks : t \in 1..MaxTasks
      BY <3>1, LimitsAssumption
    <3> QED
      BY <1>1, <1>3, <3>2 DEF WriteEvidence, WriteArtifact, WriteMeta, Crash, Workspace, disk
  <2> QED
    BY <1>2, <2>1, <2>2 DEF Aside
<1>5. pc'[p] = "gate" => task'[p] = own /\ HasMeta(own)'
  <2>1. CASE WriteMeta(p)
    <3>1. meta'[own] = File(Meta(ArtifactText(own)))
      BY <1>1, <1>3, <2>1 DEF WriteMeta, Workspace
    <3>2. ArtifactText(own)' = ArtifactText(own)
      BY <1>2 DEF ArtifactText
    <3>3. HasMeta(own)'
      BY <3>1, <3>2 DEF HasMeta, Workspace
    <3> QED
      BY <1>1, <2>1, <3>3 DEF WriteMeta, Goto
  <2>2. CASE ~WriteMeta(p)
    BY <1>3, <2>2 DEF WriteEvidence, WriteArtifact, Crash, Goto, Leave
  <2> QED
    BY <2>1, <2>2
<1> QED
  BY <1>1, <1>2, <1>3, <1>4, <1>5, OwnVerdict

LEMMA ValidateVerdict ==
  ASSUME Invariant, Judged, NEW p \in Procs, Validate(p)
  PROVE  Judged'
<1>1. PICK own : own = task[p]
  OBVIOUS
<1>2. pc[p] = "gate" /\ pc[p] # "idle" /\ UNCHANGED <<evidence, artifact, meta>>
  BY DEF Validate, disk
<1>3. /\ own \in DOMAIN tasks /\ tasks[own] \in TaskRuns /\ tasks \in Seq(TaskRuns)
      /\ pc \in [Procs -> PCs] /\ task \in [Procs -> Nat]
  BY <1>1, <1>2, AtWork DEF Invariant, TypeOK
<1>4. PICK phase : /\ phase = IF Passes(own) THEN "accepted" ELSE "rejected"
                   /\ tasks' = [tasks EXCEPT ![own] = [tasks[own] EXCEPT !.phase = phase]]
  BY <1>1 DEF Validate
<1>5. PICK run : run = [tasks[own] EXCEPT !.phase = phase]
  OBVIOUS
<1>6. /\ run.route = tasks[own].route /\ run.given = tasks[own].given
      /\ run.rows = tasks[own].rows /\ run.phase = phase
  BY <1>3, <1>5 DEF TaskRuns
<1>7. tasks'[own] = run
  BY <1>3, <1>4, <1>5
<1>8. HasText(own) /\ HasMeta(own)
  BY <1>1, <1>2 DEF Invariant, FilesAsWritten, Judged
<1>9. ArtifactText(own)' = ArtifactText(own) /\ RequiredBy(own)' = RequiredBy(own)
  BY <1>6, <1>7 DEF ArtifactText, RequiredBy
<1>10. HasText(own)' /\ HasMeta(own)' /\ Passes(own)' = Passes(own)
  BY <1>2, <1>8, <1>9 DEF HasText, HasMeta, Passes, Workspace
<1>11. Aside(p, own) /\ pc'[p] # "gate"
  <2>1. \A q \in Procs : q # p => pc'[q] = pc[q] /\ task'[q] = task[q]
    BY <1>3 DEF Validate, Leave
  <2>2. DOMAIN tasks' = DOMAIN tasks /\ \A t \in DOMAIN tasks : t # own => tasks'[t] = tasks[t]
    BY <1>4
  <2>3. pc'[p] = "idle"
    BY <1>3 DEF Validate, Leave
  <2> QED
    BY <1>2, <2>1, <2>2, <2>3 DEF Aside
<1>12. tasks'[own].phase = "rejected" => ~Passes(own)'
  BY <1>4, <1>6, <1>7, <1>10
<1> QED
  BY <1>1, <1>2, <1>10, <1>11, <1>12, OwnVerdict

LEMMA RequestVerdict ==
  ASSUME Invariant, Judged, NEW p \in Procs, NEW route \in Routes, Request(p, route)
  PROVE  Judged'
<1> DEFINE new == Len(tasks) + 1
<1>1. /\ tasks \in Seq(TaskRuns) /\ pc \in [Procs -> PCs] /\ task \in [Procs -> Nat]
      /\ UNCHANGED <<evidence, artifact, meta>>
  BY DEF Invariant, TypeOK, Request, disk
<1>2. PICK run : tasks' = Append(tasks, run) /\ run.phase = "requested"
  BY DEF Request
<1>3. /\ DOMAIN tasks' = DOMAIN tasks \cup {new}
      /\ \A t \in DOMAIN tasks : tasks'[t] = tasks[t]
      /\ tasks'[new] = run
  BY <1>1, <1>2
<1>4. /\ pc'[p] = route /\ route # "gate"
      /\ \A q \in Procs : q # p => pc'[q] = pc[q] /\ task'[q] = task[q]
  BY <1>1 DEF Request, Routes
<1> HIDE DEF new
<1>5. \A t \in DOMAIN tasks : /\ HasText(t)' = HasText(t)
                             /\ HasMeta(t)' = HasMeta(t)
                             /\ Passes(t)' = Passes(t)
  <2>1. TAKE t \in DOMAIN tasks
  <2>2. /\ tasks'[t] = tasks[t] /\ evidence'[t] = evidence[t]
        /\ artifact'[t] = artifact[t] /\ meta'[t] = meta[t]
    BY <1>1, <1>3
  <2> QED
    BY <2>2, SameRun
<1>6. ASSUME NEW q \in Procs, pc'[q] = "gate"
      PROVE  (HasMeta(task[q]))'
  <2>1. pc[q] = "gate" /\ task'[q] = task[q]
    BY <1>4, <1>6
  <2>2. task[q] \in DOMAIN tasks
    BY <2>1 DEF Invariant, RunsOwned
  <2>3. HasMeta(task[q])
    BY <2>1 DEF Judged
  <2> QED
    BY <1>5, <2>1, <2>2, <2>3
<1>7. ASSUME NEW t \in DOMAIN tasks', tasks'[t].phase \in {"accepted", "rejected"}
      PROVE  /\ t \in DOMAIN tasks /\ tasks[t].phase = tasks'[t].phase
             /\ HasText(t)' /\ HasMeta(t)'
  <2>1. t \in DOMAIN tasks /\ tasks[t].phase = tasks'[t].phase
    BY <1>2, <1>3, <1>7
  <2>2. HasText(t) /\ HasMeta(t)
    BY <1>7, <2>1 DEF Judged, Accepted, RejectedRuns
  <2> QED
    BY <1>5, <2>1, <2>2
<1>8. ASSUME NEW t \in DOMAIN tasks', tasks'[t].phase = "rejected"
      PROVE  ~Passes(t)'
  <2>1. t \in DOMAIN tasks /\ tasks[t].phase = "rejected"
    BY <1>7, <1>8
  <2>2. ~Passes(t)
    BY <2>1 DEF Judged, RejectedRuns
  <2> QED
    BY <1>5, <2>1, <2>2
<1> QED
  BY <1>6, <1>7, <1>8 DEF Judged, Accepted, RejectedRuns

LEMMA StepJudged == Invariant /\ Judged /\ [Next]_vars => Judged'
<1> SUFFICES ASSUME Invariant, Judged, [Next]_vars PROVE Judged'
  OBVIOUS
<1>1. CASE Next
  <2>1. PICK p \in Procs :
          \/ \E route \in Routes : Request(p, route)
          \/ \/ \E notes \in Notes : RunFake(p, notes)
             \/ HarnessFails(p)
             \/ \E answer \in Answers : RunHarness(p, answer)
             \/ CacheUnreadable(p)
             \/ \E rows \in Caches, label \in Labels : RunBacktest(p, rows, label)
          \/ WriteEvidence(p) \/ WriteArtifact(p) \/ WriteMeta(p) \/ Crash(p)
          \/ Validate(p)
    BY <1>1 DEF Next
  <2> QED
    BY <2>1, RequestVerdict, GivenVerdict, FileVerdict, ValidateVerdict
<1>2. CASE UNCHANGED vars
  <2>1. UNCHANGED <<tasks, evidence, artifact, meta, pc, task>>
    BY <1>2 DEF vars, disk
  <2> QED
    BY <2>1 DEF Judged, Accepted, RejectedRuns, HasText, HasMeta, Passes, RequiredBy,
                ArtifactText, Workspace
<1> QED
  BY <1>1, <1>2

(* A verdict of the gate was given on the files that are there: the text   *)
(* of the task run and what was parsed out of it (write_artifact,          *)
(* validate_artifact).                                                     *)
THEOREM VerdictsStand == Spec => []Judged
<1>1. Init => Judged
  <2> SUFFICES ASSUME Init PROVE Judged
    OBVIOUS
  <2>1. DOMAIN tasks = {} /\ \A p \in Procs : pc[p] = "idle"
    BY DEF Init
  <2> QED
    BY <2>1 DEF Judged, Accepted, RejectedRuns
<1> QED
  BY <1>1, StepJudged, Safety, PTL DEF Spec

-----------------------------------------------------------------------------
(* What is accepted, and what is not.                                      *)

(* What the executor hands over is a text of lines.                        *)
LEMMA TextIs ==
  ASSUME TypeOK, NEW t \in DOMAIN tasks
  PROVE  /\ tasks[t].given \in Seq(Lines) /\ tasks[t].route \in Routes
         /\ ArtifactText(t) \in Seq(Lines)
<1>1. tasks[t] \in TaskRuns
  BY DEF TypeOK
<1>2. tasks[t].given \in Seq(Lines) /\ tasks[t].route \in Routes
  <2>1. tasks[t].given \in Given /\ tasks[t].route \in Routes
    BY <1>1 DEF TaskRuns
  <2>2. <<>> \in Seq(Lines)
    OBVIOUS
  <2>3. Given \subseteq Seq(Lines)
    BY <2>2, TextsAssumption DEF Given
  <2> QED
    BY <2>1, <2>3
<1>3. \A text \in Seq(Lines) : StripCodeFence(text) \in Seq(Lines)
  <2> TAKE text \in Seq(Lines)
  <2>1. PICK stripped \in Seq(Lines) : stripped = Strip(text)
    BY StripKeeps
  <2>2. SubSeq(stripped, 2, Len(stripped) - 1) \in Seq(Lines)
    OBVIOUS
  <2>3. Strip(SubSeq(stripped, 2, Len(stripped) - 1)) \in Seq(Lines)
    BY <2>2, StripKeeps
  <2> QED
    BY <2>1, <2>3 DEF StripCodeFence
<1>4. ArtifactText(t) \in Seq(Lines)
  BY <1>2, <1>3, FakeIs, BacktestIs DEF ArtifactText, Routes
<1> QED
  BY <1>2, <1>4

LEMMA VerdictIs ==
  ASSUME NEW t, HasText(t), HasMeta(t)
  PROVE  Passes(t) <=> GatePasses(ArtifactText(t), RequiredBy(t))
  BY DEF HasText, HasMeta, Passes, GatePasses

(* What the gate accepts has a heading for every required section, or its  *)
(* word right below an empty ##, an item among its sources, and nothing    *)
(* that looks like a credential (parse_markdown_sections,                  *)
(* parse_markdown_sources, validate_artifact).                             *)
THEOREM AcceptedTextsHaveForm == Spec => []AcceptedHasForm
<1>1. Invariant /\ Judged => AcceptedHasForm
  <2> SUFFICES ASSUME Invariant, Judged, NEW t \in Accepted
               PROVE  HasForm(Contents(artifact[Workspace(t)]), RequiredBy(t))
    BY DEF AcceptedHasForm
  <2>1. t \in DOMAIN tasks /\ Passes(t) /\ HasText(t) /\ HasMeta(t)
    BY DEF Invariant, AcceptedIntact, Judged, Accepted
  <2>2. ArtifactText(t) \in Seq(Lines)
    BY <2>1, TextIs DEF Invariant
  <2>3. HasForm(Strip(ArtifactText(t)), RequiredBy(t))
    BY <2>1, <2>2, VerdictIs, PassedHasForm
  <2>4. Contents(artifact[Workspace(t)]) = Strip(ArtifactText(t))
    BY <2>1 DEF HasText, Contents, File
  <2> QED
    BY <2>3, <2>4
<1> QED
  BY <1>1, Safety, VerdictsStand, PTL

(* A harness that keeps to its brief and leaves no ## empty, in a fence or *)
(* not, is never turned away (build_research_instruction,                  *)
(* strip_code_fence).                                                      *)
THEOREM FollowedBriefsPass == Spec => []BriefFollowedPasses
<1>1. Invariant /\ Judged => BriefFollowedPasses
  <2> SUFFICES ASSUME Invariant, Judged, NEW t \in RejectedRuns, tasks[t].route = "harness",
                      FollowsBrief(tasks[t].given, RequiredBy(t))
               PROVE  FALSE
    BY DEF BriefFollowedPasses
  <2>1. t \in DOMAIN tasks /\ ~Passes(t) /\ HasText(t) /\ HasMeta(t)
    BY DEF Judged, RejectedRuns
  <2>2. tasks[t].given \in Seq(Lines)
    BY <2>1, TextIs DEF Invariant
  <2>3. ArtifactText(t) = StripCodeFence(tasks[t].given)
    BY DEF ArtifactText
  <2> QED
    BY <2>1, <2>2, <2>3, VerdictIs, FollowedPasses
<1> QED
  BY <1>1, Safety, VerdictsStand, PTL

(* What the fake worker and the backtest write passes the gate of their    *)
(* stage, whatever the notes and the figures, unless notes or the label of *)
(* a cache spell a credential (FakeTaskRunExecutor,                        *)
(* render_btc_backtest_markdown).                                          *)
THEOREM HouseTextsPass == Spec => []InHousePasses
<1>1. Invariant /\ Judged => InHousePasses
  <2> SUFFICES ASSUME Invariant, Judged, NEW t \in RejectedRuns, tasks[t].route # "harness",
                      ~ContainsSecretMaterial(tasks[t].given)
               PROVE  FALSE
    BY DEF InHousePasses
  <2>1. t \in DOMAIN tasks /\ ~Passes(t) /\ HasText(t) /\ HasMeta(t)
    BY DEF Judged, RejectedRuns
  <2>2. /\ tasks[t].given \in Seq(Lines) /\ tasks[t].route \in Routes
        /\ ArtifactText(t) \in Seq(Lines)
    BY <2>1, TextIs DEF Invariant
  <2>3. WellSpaced(ArtifactText(t), RequiredBy(t)) /\ ~ContainsSecretMaterial(ArtifactText(t))
    <3>1. CASE tasks[t].route = "fake"
      <4>1. ArtifactText(t) = FakeText(tasks[t].given) /\ RequiredBy(t) = ToSet(RequiredSections)
        BY <3>1 DEF ArtifactText, RequiredBy
      <4> QED
        BY <2>2, <4>1, FakeIs
    <3>2. CASE tasks[t].route = "backtest"
      <4>1. ArtifactText(t) = BacktestText(tasks[t].given) /\ RequiredBy(t) = ToSet(BacktestSections)
        BY <3>2 DEF ArtifactText, RequiredBy
      <4> QED
        BY <2>2, <4>1, BacktestIs
    <3> QED
      BY <2>2, <3>1, <3>2 DEF Routes
  <2> QED
    BY <2>1, <2>2, <2>3, VerdictIs, WellSpacedPasses
<1> QED
  BY <1>1, Safety, VerdictsStand, PTL
=============================================================================
