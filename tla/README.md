# Will: the campaign harness in TLA+

Will runs long research *campaigns*. A campaign is a list of stages; each stage is
given to a worker (a coding harness, a backtest, a fake for tests) that returns an
artifact; a deterministic gate inspects it; a decision function settles what happens
next; and everything of importance is an event in an append-only SQLite ledger, from
which the campaign is rebuilt whenever a command starts. This directory models the
control of that harness, model-checks it with TLC and proves part of it with TLAPS.

## 1. The system

### Components

| Component | Code | State it keeps | Operations | Model |
|---|---|---|---|---|
| Campaign engine | `will/campaigns/engine.py` | none of its own: a `Campaign` in memory, events in the ledger | `campaign_tick`, `revisit_stage` | `Campaign` |
| Campaign projection | `will/campaigns/store.py` | what the ledger says | `append_campaign_event`, `load_campaign` | `Campaign` (`stored`) |
| Schemas and factory | `will/campaigns/schemas.py`, `btc.py` | status, cursor, stages, quota counters | `build_btc_campaign` | `Campaign` (`FreshCampaign`, `Campaigns`) |
| CLI campaign commands | `will/cli.py` | one OS process each | `create-btc`, `run`, `revisit`, `state` (reads only) | `Campaign` (processes) |
| Autonomy decision | `will/autonomy/decision.py`, `envelope.py`, `policy.py` | none (pure) | `decide`, `tripped_limits`, `permits`, `escalate`, `blocks` | `Autonomy`, `AutonomyScope` |
| Executors | `will/campaigns/executor.py` | artifact, metadata and evidence files | resolve by worker name, route by kind, execute | `Execution`; an outcome per task run in `Campaign` |
| Acceptance gate | `will/campaigns/validators.py` | none | `validate_artifact` | `ArtifactGate`; a Boolean per task run in `Campaign` |
| Backtest | `will/campaigns/executor.py` | none | check a price cache, compute baselines | `Backtest` |
| Delegation | `will/workers/delegation.py`, `will delegate` | the wallet it returns | gate, budget, run, verify, an event each | `Delegation` |
| Existence budget | `will/autonomy/budget.py` | balance, halted | `spend`, `can_afford` (`replenish`: no caller) | `Delegation` (`Spend`, `CanAfford`) |
| Policy gate | `will/autonomy/gates.py` | none | `run_policy_gate` on a proposal | `PolicyGate`, asked by `Delegation` |
| Patch drafting | `will/workers/patches.py`, `will patch propose` | wallet in a snapshot, patch files | load, delegate, validate, archive, save | `Delegation` |
| Event store, snapshots | `will/ledger/` | `events`, `snapshots` tables | `append_event`, `list_events`, `create_snapshot`, `load_latest_snapshot` | `Ledger`; snapshots in `Delegation`; an atomic append in `Campaign` |
| Soul lens, controller and artifact seams, configuration, ids, scripts | see `PROJECT.json` | - | - | not modelled |

### How they interact

`will campaign run` loads the campaign **once** (`load_campaign` folds the events of
that campaign), then loops at most `--max-ticks` times over `campaign_tick`, passing its
own in-memory copy along. A tick appends, in order: `CAMPAIGN_STAGE_STARTED` if the stage
was pending, `TASKRUN_REQUESTED`, then after the worker `TASKRUN_FAILED` or
`TASKRUN_COMPLETED`, `DELIVERABLE_PRODUCED` with the gate's result, `DECISION_RECORDED`,
and then one of `CAMPAIGN_PAUSED`, `DELIVERABLE_REJECTED`, or
(`DELIVERABLE_SUPERSEDED`) `DELIVERABLE_ACCEPTED` followed by
`CAMPAIGN_STAGE_ADVANCED` / `CAMPAIGN_COMPLETED`. `campaign revisit` supersedes the
deliverables of the target stage and every later one, resets these stages in memory, and
appends one `CAMPAIGN_REVISED`.

`will delegate`, `will patch propose` and the ticks of a campaign run with a harness all go
through `execute_delegation`: `POLICY_GATE_PASSED` or `_DENIED`, `BUDGET_SPENT` or
`BUDGET_HALTED`, `DELEGATION_REQUESTED`, then the harness, then `DELEGATION_COMPLETED` or
`_FAILED`. The first two take the wallet from the latest WillState snapshot (writing a first
one if there is none); a tick takes a fresh default wallet. Only `patch propose` writes the
wallet back, on every path, after archiving the diff if it is valid.

Every append is a transaction of its own and no lock spans two of them. `load_campaign`
takes the whole campaign from six event types, only a reference from
`DELIVERABLE_ACCEPTED`, and nothing from the others.

### What is hard about it

* **A process dies between two commits.** Accepting a deliverable and advancing the cursor
  are two events; so are superseding the old deliverable and accepting the new one; a
  revisit supersedes several before its one snapshot.
* **Memory is ahead of the ledger.** Quota counters move in memory after the event, and
  are persisted only by a later snapshot, if there is one.
* **Two commands on one campaign** each write snapshots of a private copy.
* **Legal sequences nobody wrote**: a revisit forward, `create-btc` again, a revisit after
  completion, a run after a rejection.
* **Counters at their limit**: task runs, revisions, worker cost, ticks.
* **A wallet read, held for minutes and written back**, by commands that do not know of
  each other, with a snapshot row and its event in two transactions.
* **A timestamp taken before its commit**: events and snapshots are read back by timestamps
  that need not rise in the order of the rows.
* **Files written one after the other**, text, then metadata, beside an evidence file, by
  commands that may die in between, and read back by a gate that parses them differently from
  how it describes itself.
* **Numbers a float has and nobody had in mind**: NaN, infinity and overflow in a price cache.
* **Order of rules** in `decide`, and order of events for one task run.

The hazards are listed one by one, with the line where each bites, in `PROJECT.json`.

### What makes each part correct

* *Engine*: no accepted deliverable is duplicated, lost or left referenced after it was
  replaced; stages are delivered in order; quotas hold; a reference is always to something
  that passed its gate; every command ends; a campaign that can be delivered is.
* *Projection*: between ticks, memory and ledger agree; the projection has one frontier.
* *Ledger*: one story per task run, phases in order, closed runs closed for good.
* *Decision*: the boundary always blocks, the Soul is always heard, more use is never
  answered with less interruption.
* *Delegation and wallet*: nothing runs that was denied or unaffordable, no wallet is
  overdrawn, a wallet written back contains every spending and none that did not happen,
  no patch comes from a delegation that failed or leaked.
* *Event store*: no reader sees an event before one it builds on, and readers agree with the
  order of commits when appends do not overlap.
* *Executors and gate*: what is accepted has the form a stage asks for and stays as it was
  accepted; who keeps to the brief is not turned away; evidence comes from a series the checks
  are meant to let pass and its figures are those meant; only a death or an overflow leaves a
  task run without a verdict.
* *Policy gate*: a value policy only narrows it, and nothing lifts its floor.

## 2. Modules

| Module | What it is |
|---|---|
| `Autonomy` | `decide()` and what it consults, as operators |
| `AutonomyScope` | an envelope and policy fixed by the human, counters that grow, new facts every tick; the properties of `decide()` |
| `AutonomyMC` | capabilities and floors for TLC |
| `AutonomyProofs` | theorems about `AutonomyScope` |
| `Campaign` | engine, projection and commands, and their properties |
| `Delivery` | the abstract contract: deliver the next stage, halt, rework |
| `CampaignDelivery` | the refinement mapping from `Campaign` to `Delivery` |
| `CampaignMC` | symmetry for TLC |
| `CampaignProofs` | theorems about `Campaign` with any number of commands at once |
| `CampaignSequentialProofs` | theorems about `Campaign` with one command at a time, and that it implements `Delivery` |
| `PolicyGate` | `run_policy_gate` and the proposals of delegations, as operators |
| `Delegation` | governed delegation, the wallet and its snapshots, and their properties |
| `Account` | the abstract account: a charge is saved, or its command dies |
| `DelegationAccount` | the refinement mapping from `Delegation` to `Account` |
| `DelegationMC` | symmetry for TLC |
| `DelegationProofs` | theorems about `Delegation` with any number of commands at once, and about `PolicyGate` |
| `DelegationSequentialProofs` | theorems about `Delegation` with one command at a time, and that it keeps the account of `Account` |
| `Ledger` | the event store: timestamp, commit, reading by time |
| `LedgerMC` | symmetry for TLC |
| `LedgerProofs` | theorems about `Ledger` |
| `ArtifactGate` | parsers, code fence, metadata and `validate_artifact`, as operators, and what they are meant to tell |
| `Backtest` | record checks and figures of the backtest, as operators, and what they are meant to be |
| `ArtifactProofs` | what the parsers find, the gate lets pass and the loops of the backtest report, for texts and series of any length |
| `Execution` | executors as processes that write files, and the gate that reads them |
| `ExecutionMC` | texts and price caches for TLC |
| `ExecutionProofs` | theorems about `Execution` |

`Campaign` instantiates `Autonomy` and calls `Autonomy!Decide` in `DecideStage`, with the
envelope and the usage the engine builds for it (`Envelope`, `Usage`), so the engine is
checked with the real rules and not with an arbitrary verdict. `Delegation` stands beside
it: the campaign sees of a delegation that its task run succeeds or fails (`Fallible`), the
delegation sees of the campaign that a tick starts one. `Delegation` asks `PolicyGate` about
the proposals its commands build. `Execution` opens up the one step of `Campaign` between
`RequestTask` and `ProduceDeliverable`: it extends `ArtifactGate` and `Backtest`, and its
`InHousePasses` is what lets `Campaign` say that the gate passes every fake artifact
(`GateResults("fake")`). `Ledger` opens up the append, which is atomic and in commit order
in `Campaign` and `Delegation`.

### `Campaign`: state

| Variable | In the code |
|---|---|
| `stored` | the campaign `load_campaign` would return now |
| `runs` | one record per `TASKRUN_REQUESTED`: stage, last phase, gate result, verdict and level. Its number stands for the task run and for the deliverable it produced |
| `superseded` | deliverables named by `DELIVERABLE_SUPERSEDED` events |
| `revised` | `CAMPAIGN_REVISED` events since the last `CAMPAIGN_STARTED` |
| `pc` | the commit a process comes to next |
| `mem`, `ticks`, `worker`, `task`, `idx` | the process's `campaign`, iterations left, `--worker`, current task run, and stage of the `for` loop in `revisit_stage` |
| `used` | how much of each bound is used: bookkeeping of the model |

The ledger's rows are not kept one by one. `stored` is folded as events are appended,
which gives what `load_campaign` computes as long as events are read back in the order
they were committed. `list_events` sorts by a timestamp taken before the commit; when that
makes no difference is what `QuietReadsAgree` in `Ledger` says: always for one command at a
time, and for several as long as no append begins before another is committed.

### `Campaign`: actions

One action is one commit together with the in-memory work around it. Between two of them
another process may commit or this one may die (`Crash`).

| Action | In the code |
|---|---|
| `StartRun`, `StartRevisit` | the command starts and loads the campaign; `StartRevisit` is also the head of `revisit_stage` up to its loop. A revisit past the revision budget raises before anything changes and is no step |
| `CreateAgain` | `create-btc` with an existing id. `Init` is the state after the first one: no other command finds a campaign before |
| `StopAtGuard` | the three early returns of `campaign_tick` (not active, past the last stage, out of task runs) |
| `StartStage` | `_start_stage` |
| `RequestTask` | the `TaskRun`, its event, then the counters |
| `DenyTask`, `FailTask`, `CompleteTask` | `resolve_executor` fails; the executor reports failure; it succeeds |
| `ProduceDeliverable` | `validate_artifact` and `DELIVERABLE_PRODUCED` |
| `DecideStage` | `decide` and `DECISION_RECORDED` |
| `PauseCampaign`, `RejectDeliverable` | the two branches that do not accept |
| `SupersedeOld`, `AcceptDeliverable`, `Advance` | the accepting branch, one action per event |
| `RevisitStage`, `FinishRevisit` | an iteration of the loop of `revisit_stage`; its event |

`NextTick` is the loop of `campaign run`: statuses `completed`, `paused`, `not_active`,
`task_denied` and `deliverable_rejected` end it, `task_failed` and `advanced` do not.
`Exit` forgets the process's memory, so that states differ only by what still matters.

Operators marked *Mutant* stand before the definition they disturb. No action uses them:
each is that definition with a plausible slip, and for each checked property there is one
(in `PROJECT.json`) under which TLC finds the property violated.

### Abstractions

* Costs are whole numbers; `TaskCost` is one number since the engine gives every task run
  of a campaign the same default budget.
* `Workers`: `fake` always passes its gate, because it writes all the gate asks for (revision
  notes are taken to hold nothing that looks like a credential, which the gate would refuse);
  `claude` stands for `claude`, `codex` and the backtest executor, may fail, and may or may
  not pass; `unknown` is a name `resolve_executor` refuses.
* The gate is a Boolean per task run. Artifact text and files are left to `Execution`.
* A brief (`executor.py:145-163`) is modelled by the deliverables it hands over
  (`BriefIsCurrent`).

### `Autonomy`

`Decide` takes records with the field names of `AutonomyEnvelope`, `EnvelopeUsage`, the
arguments of `decide` and `InterruptionPolicy`. `Route` is the ladder of rules, first match
wins; `Decide` raises its level to the floor set for the capability asked for and adds the
retry budget. `TrippedLimits` has `max_ticks`, `max_worker_runs` and `max_cost` only, as in
the code: the retry budgets are no circuit breaker. `AutonomyScope` drives it: it starts
from every envelope and lets each counter grow.

Two facts about how campaigns use it, visible in `Envelope` and `Usage`:
`ticks_used` is always 0 and `worker_runs_used` never reaches `max_task_runs + 1`, so the
only ceiling a campaign can trip is cost; and `revisits_used` is fed with `revisions_used`,
`max_revisits` with `max_revisions`, so the verdict `revisit` cannot come about.

A third one is in `Judge`: `engine.py:215` compares `stage.index`, which starts from 1
(`btc.py:67`), with `len(stages) - 1`. The stage that is finalized is therefore the last but
one, and the last one is accepted, although `decision.py:35` explains `finalize` by "last stage
passed; synthesise the final delivery". The model makes the comparison as it stands. Only the
verdict on record differs: the engine treats `accept` and `finalize` alike (`Accepting`), so no
property depends on it.

### `Delegation`

| Variable | In the code |
|---|---|
| `deals` | one record per delegation that reached the gate: the command it belongs to, the last of its events, and what the harness brought back |
| `snapshots`, `announced` | the rows of the `snapshots` table as committed, and the `SNAPSHOT_CREATED` events |
| `patches` | files under `data/delegation/`, by the delegation they come from |
| `clock`, `ts` | timestamps taken, and the one a process is writing with |
| `pc`, `kind`, `wallet`, `deal` | where a command is, which one it is, its `state.budget`, its delegation |

| Action | In the code |
|---|---|
| `Start` | `init`, `delegate`, `patch propose`, or a tick of `campaign run` that reaches its delegation |
| `LoadState` | `load_or_create_state` up to its return, or to its `create_snapshot` |
| `TakeTimestamp`, `InsertSnapshot`, `AnnounceSnapshot` | `create_snapshot`: `utc_now_iso`, the row, the event |
| `PassGate`, `DenyGate` | `run_policy_gate` and its event |
| `Charge`, `Halt` | `can_afford`, then `spend` with `BUDGET_SPENT`, or `BUDGET_HALTED` |
| `Request`, `Report` | `DELEGATION_REQUESTED`; the harness, the secret scan and the last event |
| `DraftPatch` | `validate_patch_text` and `save_patch_artifact` |

A snapshot is saved with a timestamp taken before its row is committed, and
`load_latest_snapshot` picks the last timestamp (`Latest`): of two writers the one that
commits last need not win. Timestamps are taken to be unique and to rise with time.

Left out: `replenish`, which no code calls, so a wallet only goes down; what a diff says. A
harness that is disabled, raises or times out is an `"error"` like one that exits with a
status. `Tasks` holds what each command leaves to its user: `will delegate` the kind, the
directory and the tools, `patch propose` the directory, a tick nothing; no command sets
`allow_write`. The value policy is in the snapshot, but `execute_delegation` calls the gate
without the state (`GateAllows`), so it plays no part: the default one would forbid every
delegation (`DefaultPolicyForbidsDelegations`). A tick spends from a fresh wallet and no
command writes it back, as the docstring of `resolve_executor` announces: the existence
budget does not bound a campaign.

`DelegationAccount` maps this to `Account`: the saved wallet's `spend_count`, the charges of
patch commands that have `BUDGET_SPENT` in the ledger and no snapshot yet, and those whose
command died. `will delegate` and ticks save nothing and are not part of the account.

### `PolicyGate`

`RunPolicyGate(proposal, policies)` is true when the code finds no reason to deny. Metadata
that may be missing, and the state that may not be given, are sets of at most one record. A
directory is how its text begins (with nothing, `/`, `~`, or else) and the parts of its path:
`.`, the default of `patch propose`, has none and is allowed, `~user` begins like `~` and is
denied as in the code; a tool stands for the pattern in its name. All of
`gates.py` is there, also for campaign and repository actions, which no command proposes yet.

### `Ledger`

| Variable | In the code |
|---|---|
| `rows` | the `events` table; the index of a row is its rowid. `carries` is what its writer had in memory, `seen` how many rows there were when it took its timestamp |
| `clock` | the system clock |
| `pc`, `pending`, `mem` | a process, the event it is appending, and the rows its campaign reflects |

| Action | In the code |
|---|---|
| `Load`, `Create` | a command loads the campaign, or makes one |
| `Stamp`, `Commit` | `append_event`: `utc_now_iso`, and the transaction |
| `Leave` | the command ends, dies, or gives up on a locked database |
| `SetBack` | somebody sets the system clock back |

A campaign is abstracted to the set of events it reflects. `Project` states in one expression
what the loop of `load_campaign` comes to: the last event that carries the whole campaign, and
the deliverables accepted after it. Timestamps have microseconds and are taken to differ,
except after the clock was set back; SQLite returns rows of equal timestamps in rowid order.
`list_events` can also start after a rowid (`after_rowid`), but nothing under `src/will` asks it
to, so there is no reader of that kind.

### `Execution`, `ArtifactGate`, `Backtest`

| Variable | In the code |
|---|---|
| `tasks` | one record per task run: its executor, what it was given, its phase |
| `evidence`, `artifact`, `meta` | the three files of a task run's directory, absent or with contents |
| `pc`, `task` | where a process is, and its task run |

| Action | In the code |
|---|---|
| `Request` | a task run, and the executor its worker and kind select |
| `RunFake`; `HarnessFails`, `RunHarness`; `CacheUnreadable`, `RunBacktest` | the three executors up to their first file or their early returns |
| `WriteEvidence`, `WriteArtifact`, `WriteMeta` | one file each; a single write is taken to be atomic |
| `Validate` | `validate_artifact` reads the files back |
| `Crash` | the process dies and leaves what it has written |

A text is a sequence of lines, each a kind (heading, bare `##`, prose, item, blank, fence,
credential) with a slug. The two parsers are modelled as they are: the one for sections runs
over the whole text, where the white space after `##` may be a line break, so that a bare
`##` takes the next line that is not blank for a heading; the one for sources goes line by
line and does not. The gate takes such a section for present. `HasForm` states what its parsers
let through, this case included; that the gate says otherwise of itself (`validators.py:102`: a
real `## <section>` heading) is what the run `HeadingsReal` shows. The stages
of the BTC campaign have no forbidden patterns and keep their files in their workspace, so
these two checks never decide and are left out. What a parser knows after each line is a
recursive function of the number of lines read (`SectionsRead`, `SourcesRead`). The sections a
task run has to have are its stage's (`RequiredBy`): those of S4, which the backtest writes, are
in `BacktestSections`; for the other stages they are a constant.

`Backtest` computes in fractions that include infinity and NaN, with windows of a few days for
50 and 200. A close may be a number, a text, a huge integer (whose `float()` raises an
`OverflowError` nobody catches), infinite or NaN: JSON has the last two as far as Python is
concerned, and neither of them is `<= 0`. The arithmetic is that of floats where it matters: a
comparison with NaN is false, `max` and `min` keep their first argument unless the second is
better, so that a NaN in the middle of a series leaves figures that look ordinary. A growth rate
(`_cagr`, `FloatLimit`) or a squared deviation (`_annualized_volatility`, `SquareLimit`) that
overflows ends the process (`Raised`), and its task run stays requested. A date is any
text that is not empty and stands as its place in the order of texts, for that is how the code
compares dates: nothing asks for an ISO date, and text order is day order only for those who
write one. Rounding is left out, and so are sums and ratios of finite prices that are too large
for a float.

## 3. What is checked

### Runs that pass

| Run | Question | Bounds |
|---|---|---|
| `CampaignSequential` | One command at a time, any of which may die between two commits: is every accepted deliverable live once (`OneLivePerStage`), still referenced (`LiveIsReferenced`), with one frontier (`Frontier`), memory and ledger in step (`MemoryInStep`), and is the delivery contract kept (`ImplementsDelivery`)? As long as none has died, does a stage refer to a superseded deliverable only while a command is dropping it (`ReferencesLive`), and is every worker briefed with the current ones (`BriefIsCurrent`)? Does every command return (`CommandsEnd`), and does a fake run with enough ticks and quota deliver, whatever the deaths before it have left (`FakeRunDelivers`)? | 3 stages, 3 commands of up to 3 ticks, 5 task runs, 1 revision, 1 crash, failing and unknown workers |
| `CampaignConcurrent` | What survives two commands at once, revisits of any stage and `create-btc` repeated: quotas, completion, sound references, `OneStoryPerRun`, and the inductive `Invariant` | 2 processes (symmetric), 2 stages, 3 commands of up to 2 ticks, 1 re-creation |
| `AutonomyLimits` | `decide()` under every envelope and every usage up to one past each limit that matters, floors included | limits 0..1, two capabilities, three floors |
| `DelegationSequential` | One command at a time, any of which may die: does the saved wallet miss no charge but one per crash (`OnlyCrashesLoseSpending`), is spending ever given back (`NeverRefunded`), is every snapshot announced (`SnapshotsAnnounced`), does every command end, and is the account of `Account` kept, its liveness included (`ImplementsAccount`)? | 4 commands of four kinds, 1 crash, a wallet of two charges that land on the threshold |
| `DelegationConcurrent` | Two commands at once, overwriting each other's wallet: is none overdrawn (`FundsSound`) or shown with spending the ledger does not have (`SavedIsBacked`), does governance hold (`OneStoryPerDelegation`, `PatchesVetted`), and the inductive `Invariant` | 2 processes (symmetric), 3 commands, 1 crash, a wallet whose second charge lands on the threshold and halts it |
| `Execution` | Two task runs at once: does what is accepted stay on disk as it was (`AcceptedIntact`) and have the form the parsers ask for (`AcceptedHasForm`), does the gate take who keeps to the brief (`BriefFollowedPasses`) and whatever the house writes (`InHousePasses`), does evidence come from a series the checks are meant to let pass (`EvidenceFromSeries`), are its figures those of a definition without the loops (`FiguresMatch`), and is a task run left without a verdict only by a death or an overflow (`OnlyDeathAbandons`)? | 2 processes (symmetric), 2 task runs, 1 crash, one text or price cache from outside. Texts: every one of 2 lines, and every one of 3 or 4 lines that lists a source, also in a fence. Caches: every 2 records of every kind, every series of up to 4 days and 3 prices, every series of 4 days and 2 prices with an infinite or NaN close on one of them, and two of 5 days with NaN in the middle |
| `Ledger` | Are events read in an order their writers could have meant (`CausesFirst`), does reading by time make the same campaign as commit order when appends do not overlap (`QuietReadsAgree`)? | 2 processes (symmetric), 4 events, 1 step of the clock back |

Why the bounds are enough. Three stages give a first, a middle and a last one, so a revisit
of the middle one has a stage before it to spare and one after it to reset. Three commands
allow a run that dies, one that repairs, and a revisit after it, or a run, a revisit that dies
and the run that finds what it left; three ticks are what it takes to deliver all stages in one
command. One crash suffices to
separate any two commits; `MaxTaskRuns = 5` and `MaxWorkerCost = 3` let the quota, and in
other behaviours the cost ceiling (four runs of cost 1), be what stops the campaign. In
`CampaignConcurrent` two ticks per command are what it takes for a tick to start from a copy
that the other command has made stale, and two task runs and one revision put both quotas
within reach of both commands. It has no crash: to the properties checked there a process that
died is one that takes no further step, and the theorems cover it.
`MaxCommands`, `MaxTicks`, `MaxCreates`, `MaxCrashes`, `MaxTasks`, `MaxOutside`, `MaxEvents`
and `MaxSetbacks` are the only bounds that are not constants of the code, with `MaxLines`,
`MaxDays` and `MaxClose` of `ExecutionMC`.
Symmetry is used in `CampaignConcurrent`, `DelegationConcurrent`, `Execution` and `Ledger`,
which check no liveness property. In both wallets the second
charge lands exactly on the threshold and halts the wallet: two charges exhaust the sequential
one (4, cost 2, threshold 0), and what is left of the concurrent one (5, cost 2, threshold 1) is
its threshold, which may not be spent. Four sequential commands
allow two charges, a refusal, and a crash among them. In `Execution` the second task run is
a fake one, which is enough to write beside the first; four lines are the shortest text that
heads the two sections, lists a source and has one line to spare; four days with windows of
one and two days buy, sell and buy again, and with NaN in the middle of five there are ordinary
days before and after it. In `Ledger` four events allow two campaigns or two
commands that each load, and append over each other.
`CHECK_DEADLOCK FALSE`: once the allowed commands are used up and all have returned there is
nothing left to do, and that is the end of the story, not a deadlock. That a command never
gets stuck is `CommandsEnd`. `AutonomyLimits` checks deadlock.

Restrictions of the sequential properties, which are the code's and not the model's:
`BriefIsCurrent` and `ReferencesLive` say "as long as no command has died", because they fail
after a crash inside `revisit_stage` or between `DELIVERABLE_SUPERSEDED` and
`DELIVERABLE_ACCEPTED`, when a superseded deliverable is still referred to; what
`CampaignSequential` checks beyond types and `CommandsEnd` fails with two commands at once or with
revisits of a stage ahead of the cursor (`ForwardRevisits`). What remains true then is what
`CampaignConcurrent` checks and the theorems prove. Likewise `OnlyCrashesLoseSpending` and
`NeverRefunded` fail with two `patch propose` at once: each saves the copy it loaded, and the
later one forgets what the earlier one spent. `DelegationConcurrent` checks what is left.

### Fairness

`FairSpec` is `Spec` with weak fairness of each process's own steps
(`Tick(p) \/ Revisit(p)`). The code justifies it: `campaign run` is a bounded loop, worker
calls go through `subprocess.run` with a timeout, a commit that finds the database locked for
longer than SQLite's timeout raises (a `Crash`) rather than waits, and no command waits for
another's answer. In `Delegation` it is weak fairness of `Work(p)`, for the same reasons.
The abstract `Account` asks that an open
charge is settled, which is what the fairness of the command that holds it gives.
Nothing is assumed of users:
starting a command, crashing and re-creating are not fair. `FakeRunDelivers` is checked with
one command at a time: the run itself must not die, commands before it may have; with two at
once, the other command may pause or rewind the campaign.

### Runs that find a disagreement

| Run | What the repository says | What the code does |
|---|---|---|
| `CompletedAllAccepted` | `tests/test_campaigns.py:57`: a completed campaign has all stages accepted; `decision.py:31`: revisit is to "rework an earlier stage" | `revisit_stage` moves the cursor to any stage, also forward, past stages that were never delivered |
| `RequestsQuota` | `schemas.py:67`: the counters "bound how much of the campaign's *allowance* has been used (task runs, revisions)" | a failed, denied or rejected task run writes no snapshot, so its count is forgotten and repeated commands exceed `max_task_runs` |
| `BlockingHalts` | `policy.py:45`: a blocking level "halts the campaign to wait for a human" | `ask_human` is handled like `revise`: the campaign stays active and the next command runs the stage again |
| `HeadingsReal` | `validators.py:102-103`: "every required section must exist as a real `## <section>` heading" | the white space after `##` may be a line break for `_SECTION_HEADING_RE`: a bare `##` makes a section of the line below it |
| `ClosesChecked` | `executor.py:344`: "close must be positive", and line 342: "close is not numeric" | `float()` takes NaN, and `NaN <= 0` is false: a backtest of a series with NaN in it is accepted |

## 4. What is proved

For every set of processes, number of stages, quota, wallet, cost and bound:

* `CampaignProofs!Safety`: `Spec => []Invariant`, and from it `TypesHold`, `QuotasHold`,
  `CompletionIsTheEnd`, `ReferencesHold`, `RunsHaveOneOwner`; `StoriesHold` proves the
  action property `OneStoryPerRun`.
* `CampaignSequentialProofs`, for one command at a time and a campaign created once
  (`OneCommand`): `InStep`, `LiveReferenced`, `OneLive`; without revisits of a stage ahead of
  the cursor also `FrontierHolds` and `DeliveryImplemented`, that `Campaign` implements
  `Delivery`; these five through any number of crashes. Also
  `ReferencesStayLive` and, without revisits ahead, `BriefsAreCurrent`, which speak of the time
  before any command has died.
* `AutonomyProofs`: `TypesHold`, `BoundaryHolds`, `SoulIsHeard`, `MoreUseNeverMilder`, for
  every limit, capability set and permission floor.
* `DelegationProofs!Safety`: `Spec => []Invariant`, and from it `TypesHold`, `FundsHold`,
  `BackingHolds`, `VettingHolds`; `StoriesHold` proves `OneStoryPerDelegation`.
* `DelegationSequentialProofs`, for one command at a time and any number of crashes: `InSequence`,
  and from it `SpendingKept`, `AnnouncedInTime`, `NothingRefunded`; `AccountKept` is the safety
  part of `ImplementsAccount`: initial states map to initial states of `Account`, steps to its
  steps or to stutters.
* `LedgerProofs!Safety`: `Spec => []Invariant`, and from it `TypesHold`, `CausesReadFirst`,
  `QuietReadsHold`, for any number of commands, events and set-backs.
* `ExecutionProofs!Safety`: `Spec => []Invariant`, and from it `TypesHold` and
  `AcceptedStaysIntact`, for any texts, caches, notes and number of processes; `EvidenceSound`,
  that evidence comes of dates that rise as text, each with a close above zero, infinite or NaN,
  for any sequence of records; `FiguresAreMeant`, that evidence reports what is meant, for series
  and windows of any length, with infinite and NaN closes anywhere in them.
* `ExecutionProofs!VerdictsStand`: `Spec => []Judged`, and from it, with the lemmas of
  `ArtifactProofs`, `AcceptedTextsHaveForm`, `FollowedBriefsPass` and `HouseTextsPass`, for
  texts of any length, every list of required sections, any notes and labels.
* `ArtifactProofs`: `SectionsAreHeaded`, `CountedIffSourced` and `PassedHasForm`, which are
  about the parsers and the gate by themselves; `WorstFallFound`, `NoFallFound`,
  `CrossoverTrades` and `CrossoverEarnsNights`, about the loops of the backtest.
* `DelegationProofs`: `PolicyOnlyNarrows`, `FloorHolds` and `DefaultPolicyForbidsDelegations`,
  for every proposal and value policy.

The assumptions are those named in `Campaign`, `AutonomyScope`, `Delegation`, `Ledger`,
`Execution` and `Backtest`: constants
are naturals, texts are sequences of lines (`TextsAssumption`) and required sections one of
slugs that has the sources in it, as every stage of `btc.py` has (`SectionsAssumption`), there is
a stage, workers and commands are among the modelled ones, floors are levels, a wallet starts above its threshold, a delegation costs something, and a price cache is
a sequence of records of the kinds `Backtest` tells apart (`CachesAssumption`; what is no such
sequence is `unreadable`). The hypotheses of the sequential theorems (`OneCommand`,
`~ForwardRevisits`) are those of the runs that check the same properties, and
each is needed: without it the property fails, as section 3 says.

**The argument for campaigns.** None of the properties is inductive alone. A reference is sound because
the run it names was accepted, and accepting requires that the gate passed; but the step that
records it (`AcceptDeliverable`) happens two commits after the decision, so one must know
that the run is still `decided`, still for this stage, and still this process's:
`RunsOwned`, with uniqueness, so that no other process moves it meanwhile. That the decision
recorded stands on the gate's result is `DecidedOnGate`. The guards at the head of
`campaign_tick` are made once and used for the whole tick: `AtWork` carries "active, with a
stage under the cursor, and a run left" to the commits after. `SupersededWasAccepted` keeps
`superseded` within the ledger. Snapshots of stale memory overwrite the projection at will,
which is why every conjunct about `stored` is stated for every `mem[p]` too.

The proof regroups `Invariant` per process and per run, so that a step of one process leaves
the facts about the others untouched, then treats each action by itself. `StoriesHold` needs
the invariant in the unprimed state only.

**The argument for one campaign command at a time.** `MemoryInStep` is inductive given
`Invariant`: the only process there is owns the projection, so what it has in memory differs
from `stored` only by what its step in progress has not committed yet. The proof reads off
that a step changes the projection in one of five ways (`Rests`, `Halts`, `Accepts`,
`Advances`, `GoesBack`), and every property is then proved against the five and not against
nineteen actions. `LiveIsReferenced` needs what an acceptance overwrites to be superseded
already, also if the process that superseded it has died: that is the last line of
`TickInStep`. `Frontier` needs that a revisit under way goes back from where the projection
still is (`Behind`), which is where forward revisits enter. `ReferencesLive` is the reverse,
and holds as long as whoever began to drop a deliverable finishes. For the refinement,
`Rests` and `Accepts` are stutters of `Delivery`, the other three its three actions; that the
deliverable of `Advances` is not delivered for another stage is uniqueness of references in
`Invariant`, that there is one left is a count of the task runs commands can request
(`Bounded`), and what counts as delivered is what the cursor is past, by `Frontier`.

**The argument for delegations.** A patch is vetted because the process that archives it
still owns the delegation it ran (`DealsOwned`): nobody else moves that record between the
verification and the archive. A saved wallet is backed because every copy that may yet be
saved is (`WalletsBacked`): a copy is taken from a saved one, and a charge adds one to the copy
and one delegation to the set of charged ones, whose cardinality never falls, whatever the
other commands do. `will delegate` and ticks need no backing, since they save nothing. That
the wallet loaded is one that was saved needs that there is a row with the last timestamp
(`LastExists`, by well-foundedness of inclusion among intervals) and that timestamps
are bounded by the clock (`StampsTaken`). The proof treats the store and the moving process
apart; `OneMoves` says why the others are not disturbed.

**The argument for one wallet at a time.** `Sequential` says what the ledger, the table of
snapshots and the one command in progress know of each other. Rows are in the order of their
timestamps (`InOrder`), so that the last timestamp is the last row: with two writers it need
not be. A command holds at most one charge that is not saved (`Held`) and at most one row that
is not announced (`Late`); what is missing beyond these was lost by a command that died, and
`Counted` bounds it by the number of crashes. The proof follows the account: a step rests,
charges, saves or loses a charge, which is also what the step of `Account` it maps to is.

**The argument for the event store.** An event builds on rows its writer had in memory, and
these were committed before it took its timestamp: `KnownRows` keeps, for every row and every
event under way, the number of rows there were at that moment (`seen`) and says that what it
carries is among them. `SeenIsEarlier` says that those rows have earlier timestamps, which
holds while the clock only rises; `CausesFirst` is the two together. When no append
overlapped another, every row has seen all rows before it, so timestamps rise with rowids,
the two orders are one, and so are the two campaigns (`QuietReadsAgree`).

**The argument for task runs.** What is accepted stays intact because a file is written only
by the process that works on its task run (`RunsOwned`), in the directory of that task run
(`Workspace`), before the gate: `FilesAsWritten` carries the files from one write to the next
up to the verdict, and nothing is written to a closed task run. Neither the parsers nor the
figures are opened: that theorem holds whatever they compute. `EvidenceSound` opens the checks
of the price cache: they compare a record with the one before it only, and what is meant is
that all dates rise. `DatesInOrder` closes the gap by well-foundedness of the naturals, which is
as much induction as the prover can use.

**The argument for the gate.** A verdict is about the text the executor had in hand, although
the gate reads two files: `Judged` says that both are still what was written when the verdict
is given and ever after, and that what was rejected would be rejected again. What is left is a
fact about texts. The parsers are opened by the state they are in after each line:
`OpenMeans` says when a bare heading waits for its slug, `SourcesMean` when the list of sources
is being read. Each such fact holds before the first line and is kept by the next, and
`Throughout` turns that into a fact about every line: it is the induction the prover lacks, by
the smallest line where the fact would fail, with a set in the place of a property. From
there the three theorems go different ways. What passes is headed and sourced, since the
parsers find nothing else. A brief that is kept has no bare heading, so that no heading is
swallowed, and loses only blank lines and its fence before it is read. The texts of the house may
contain bare headings, in a note or in the label of a cache, which is written twice; they pass
because each of their own headings stands below a blank line, and that below a line that is
neither blank nor bare (`WellSpaced`, `SpacedHeadingFound`), so that nothing given to them can
swallow it.

**The argument for the figures.** A loop over a series is a recursive function of the days done
so far; `Loop` shows that there is one such function, and that its values stay in the set
they start in. What holds after each day is then shown as for the parsers, with `Throughout`.
`_max_drawdown` has after each value the largest value so far (`PeakAt`) and the smallest ratio
of a value to one before it (`WorstAt`), provided the first value is a number: NaN is neither
above a peak nor below a worst ratio, so the loop passes over it, while a first
value that is NaN or infinite makes it report no fall whatever comes after (`NoFallFound`). The crossover is after each day
in the market or out of it as the averages say, of which NaN makes neither a buyer nor a seller;
its trades are the days where that changes, for every series (`CrossoverTrades`). Where every
close is a number it is worth what `Growth` makes of the nights (`AtDay`): buying and selling keep
the worth (`Bought`), a night in the market multiplies it by what the price does
(`HeldOvernight`). Figures are compared by ratios, so that a series in other units has the
same worst fall (`FallOfShares`). Order on fractions with infinity and NaN is an order only where
the value in the middle is not NaN (`AtMostTransitive`), which is why each of these facts says
where NaN can be. Rounding is outside the model.

**Only model-checked.** Liveness: `CommandsEnd`, `FakeRunDelivers`, and the fairness
`ImplementsAccount` asks for beyond `AccountKept`. `OnlyDeathAbandons`. The runs that find a
disagreement, each of which is a behaviour TLC exhibits.

## 5. Not modelled, and why

* Text beyond the lines the gate tells apart: instructions, reasons, titles, diffs (whether one
  is valid is a Boolean in `Delegation`), what a credential looks like.
* Backtest figures that are one formula without a case: the volatility and growth rate themselves
  (whether they overflow is modelled), the returns of the DCA and buy-and-hold baselines, rounding;
  floating point error, and costs as fractions.
* Checks of the gate that never decide for the BTC campaign: the boundary of the workspace,
  forbidden patterns, a missing hash.
* Fields nothing reads: `max_stages`, `max_data_refreshes`, `require_human_approval`.
* `will/controller`, `will/artifacts`, `will/lenses`: types for a future resident loop. The
  engine never calls a lens, so `soul_blocker` is false in `Judge`; `AutonomyScope` varies it.
* Configuration and ids: read-only or pure, ids are taken to be unique.
* `list_events` with a limit or newest first: it only selects rows to show; after a rowid: no
  code asks for it.
* `src/scripts`, data and documents: a one-shot download over the network.

## 6. Plan

Done: `Autonomy` and `AutonomyScope`; `Campaign`; `Delivery` and its refinement;
`PolicyGate`; `Delegation`; `Account` and its refinement; `Ledger`; `ArtifactGate`,
`Backtest` and `Execution`; the proofs above, for many commands and for one. Next:

1. **Patch drafting**: `validate_patch_text` over kinds of diff lines, in the manner of
   `ArtifactGate`.
