----------------------------- MODULE Delegation -----------------------------
(***************************************************************************)
(* Governed delegation and the wallet it draws on: execute_delegation      *)
(* (gate, budget, run, verify, an event each) as `will delegate`,          *)
(* `will patch propose` and the ticks of campaign run use it, and the      *)
(* WillState snapshots that carry the existence budget.                    *)
(*                                                                         *)
(* Each command is a process that reads the latest snapshot once and works *)
(* on its own copy; patch propose alone writes the budget back.  An action *)
(* is one commit, or the work between two at which another process may get *)
(* ahead: reading the wallet, taking a timestamp, archiving a patch.       *)
(***************************************************************************)
EXTENDS Integers, Sequences, FiniteSets, PolicyGate

CONSTANTS
  Procs,          \* slots in which a command may be running
  Kinds,          \* the commands users start
  Initial,        \* ExistenceBudget.initial, the balance of a fresh wallet
  HaltThreshold,  \* ExistenceBudget.halt_threshold
  Cost,           \* action_cost(NETWORK_READ)
  MaxCommands,    \* bound: commands started in a behaviour
  MaxCrashes      \* bound: processes that die between two steps

ASSUME KindsAssumption == Kinds \subseteq {"init", "delegate", "patch", "tick"}
ASSUME WalletAssumption == /\ Initial \in Int
                           /\ HaltThreshold \in Int
                           /\ HaltThreshold < Initial
                           /\ Cost \in Nat \ {0}
ASSUME BoundsAssumption == MaxCommands \in Nat /\ MaxCrashes \in Nat

VARIABLES
  deals,      \* one record per governed delegation: what its events say
  snapshots,  \* rows of the snapshots table, in commit order
  announced,  \* snapshots with a SNAPSHOT_CREATED event
  patches,    \* delegations whose diff was archived as a patch
  clock,      \* timestamps taken
  pc,         \* where each process is
  kind,       \* the command it runs
  wallet,     \* its copy of the budget
  deal,       \* its delegation
  ts,         \* the timestamp of the snapshot it is writing
  used        \* how much of each bound has been used

store == <<deals, snapshots, announced, patches, clock>>
local == <<pc, kind, wallet, deal, ts>>
vars == <<store, local, used>>

PCs == {"idle", "load", "gate", "budget", "request", "run", "validate",
        "stamp", "insert", "announce"}
Phases == {"denied", "passed", "halted", "spent", "requested",
           "completed", "failed"}

(* What a harness may come back with: an error (also when it is disabled,  *)
(* raises or times out), output that holds credential material, or neither.*)
Reports == {"error", "leaked", "clean"}
NoReport == "none"

Deals == [kind : Kinds, phase : Phases, report : Reports \cup {NoReport}]

(* An ExistenceBudget.  Nothing replenishes it, so those fields are left   *)
(* out, and initial and halt_threshold are constants.                      *)
Wallets == [balance : Int, total_spent : Int, spend_count : Nat, halted : BOOLEAN]

FreshWallet ==
  [balance |-> Initial, total_spent |-> 0, spend_count |-> 0, halted |-> FALSE]

NoDeal == 0

(***************************************************************************)
(* The budget, the gate and the verification.                              *)
(***************************************************************************)
CanAfford(w, amount) == ~w.halted /\ w.balance - amount >= HaltThreshold

(* Mutant: a wallet that lands on the threshold is not halted. *)
SpendPastHalt(w, amount) ==
  LET balance == w.balance - amount IN
  [balance |-> balance,
   total_spent |-> w.total_spent + amount,
   spend_count |-> w.spend_count + 1,
   halted |-> balance < HaltThreshold]

Spend(w, amount) ==
  LET balance == w.balance - amount IN
  [balance |-> balance,
   total_spent |-> w.total_spent + amount,
   spend_count |-> w.spend_count + 1,
   halted |-> balance <= HaltThreshold]

(* What a command asks of the gate.  `will delegate` takes kind, directory *)
(* and tools from the user, patch propose a directory; a campaign tick     *)
(* leaves none of them open.                                               *)
ReadTools == {"read"}
Directory(begins, parts) == [begins |-> begins, parts |-> parts]
DataDirectory == Directory("other", <<"data">>)
Directories ==
  {DataDirectory, Directory("other", <<>>), Directory("nothing", <<>>),
   Directory("/", <<"/", "data">>), Directory("~", <<"~user">>),
   Directory("other", <<"data", "..", "..">>)}
Tasks(k) ==
  [kind : CASE k = "patch" -> {"propose_patch"}
            [] k = "tick" -> {"research_topic", "run_analysis"}
            [] OTHER -> ReadonlyKinds,
   cwd : IF k = "tick" THEN {DataDirectory} ELSE Directories,
   allowed_tools : IF k = "delegate" THEN {ReadTools, {"read", "write"}} ELSE {ReadTools},
   allow_write : {FALSE}]
Proposals(k) == {BuildDelegationProposal(task) : task \in Tasks(k)}

(* The gate is asked without the state, so without its value policy.       *)
GateAllows(proposal) == RunPolicyGate(proposal, {})

(* Mutant: the report is not scanned. *)
PassesUnscanned(report) == report # "error"

Passes(report) == report = "clean"

(***************************************************************************)
(* Snapshots.                                                              *)
(***************************************************************************)
(* load_latest_snapshot: the row with the last timestamp, which need not   *)
(* be the one committed last.                                              *)
Latest ==
  (CHOOSE row \in {snapshots[i] : i \in DOMAIN snapshots} :
     \A i \in DOMAIN snapshots : snapshots[i].ts <= row.ts).budget

(***************************************************************************)
(* What a step does to the process that takes it.                          *)
(***************************************************************************)
Exit(p) ==
  /\ pc' = [pc EXCEPT ![p] = "idle"]
  /\ kind' = [kind EXCEPT ![p] = "init"]
  /\ wallet' = [wallet EXCEPT ![p] = FreshWallet]
  /\ deal' = [deal EXCEPT ![p] = NoDeal]
  /\ ts' = [ts EXCEPT ![p] = 0]

Goto(p, where) == pc' = [pc EXCEPT ![p] = where] /\ UNCHANGED <<kind, ts>>

(* A delegation is over: patch propose saves the wallet, the others drop   *)
(* it.                                                                     *)
Finish(p) ==
  IF kind[p] = "patch" THEN Goto(p, "stamp") /\ UNCHANGED <<wallet, deal>> ELSE Exit(p)

Record(p, phase) == deals' = [deals EXCEPT ![deal[p]].phase = phase]

Init ==
  /\ deals = <<>> /\ snapshots = <<>>
  /\ announced = {} /\ patches = {}
  /\ clock = 0
  /\ pc = [p \in Procs |-> "idle"]
  /\ kind = [p \in Procs |-> "init"]
  /\ wallet = [p \in Procs |-> FreshWallet]
  /\ deal = [p \in Procs |-> NoDeal]
  /\ ts = [p \in Procs |-> 0]
  /\ used = [commands |-> 0, crashes |-> 0]

(* A campaign tick delegates from a fresh wallet, the others from the      *)
(* latest snapshot's.                                                      *)
Start(p, k) ==
  /\ pc[p] = "idle"
  /\ used.commands < MaxCommands
  /\ used' = [used EXCEPT !.commands = @ + 1]
  /\ pc' = [pc EXCEPT ![p] = IF k = "tick" THEN "gate" ELSE "load"]
  /\ kind' = [kind EXCEPT ![p] = k]
  /\ UNCHANGED <<store, wallet, deal, ts>>

(* Mutant: the budget of the snapshot is not handed on. *)
LoadStateOnly(p) ==
  /\ pc[p] = "load"
  /\ \/ /\ snapshots = <<>>
        /\ Goto(p, "stamp")
     \/ /\ snapshots # <<>>
        /\ kind[p] # "init"
        /\ Goto(p, "gate")
  /\ UNCHANGED <<store, used, wallet, deal>>

(* load_or_create_state: without a snapshot a first one is written. *)
LoadState(p) ==
  /\ pc[p] = "load"
  /\ \/ /\ snapshots = <<>>
        /\ Goto(p, "stamp")
        /\ UNCHANGED <<wallet, deal>>
     \/ /\ snapshots # <<>>
        /\ kind[p] # "init"
        /\ Goto(p, "gate")
        /\ wallet' = [wallet EXCEPT ![p] = Latest]
        /\ UNCHANGED deal
     \/ /\ snapshots # <<>>
        /\ kind[p] = "init"
        /\ Exit(p)
  /\ UNCHANGED <<store, used>>

(***************************************************************************)
(* create_snapshot: timestamp, row, event.                                 *)
(***************************************************************************)
TakeTimestamp(p) ==
  /\ pc[p] = "stamp"
  /\ clock' = clock + 1
  /\ ts' = [ts EXCEPT ![p] = clock + 1]
  /\ pc' = [pc EXCEPT ![p] = "insert"]
  /\ UNCHANGED <<deals, snapshots, announced, patches, kind, wallet, deal, used>>

InsertSnapshot(p) ==
  /\ pc[p] = "insert"
  /\ snapshots' = Append(snapshots, [ts |-> ts[p], budget |-> wallet[p]])
  /\ Goto(p, "announce")
  /\ UNCHANGED <<deals, announced, patches, clock, wallet, deal, used>>

(* Mutant: only the first snapshot of a command is announced. *)
AnnounceFirstOnly(p) ==
  /\ pc[p] = "announce"
  /\ announced' = IF deal[p] = NoDeal THEN announced \cup {ts[p]} ELSE announced
  /\ IF kind[p] # "init" /\ deal[p] = NoDeal
     THEN Goto(p, "gate") /\ UNCHANGED <<wallet, deal>>
     ELSE Exit(p)
  /\ UNCHANGED <<deals, snapshots, patches, clock, used>>

(* The first snapshot done, the command goes on; the saved wallet ends it. *)
AnnounceSnapshot(p) ==
  /\ pc[p] = "announce"
  /\ announced' = announced \cup {ts[p]}
  /\ IF kind[p] # "init" /\ deal[p] = NoDeal
     THEN Goto(p, "gate") /\ UNCHANGED <<wallet, deal>>
     ELSE Exit(p)
  /\ UNCHANGED <<deals, snapshots, patches, clock, used>>

(***************************************************************************)
(* execute_delegation.                                                     *)
(***************************************************************************)
Opened(p, phase) ==
  deals' = Append(deals, [kind |-> kind[p], phase |-> phase, report |-> NoReport])

PassGate(p, proposal) ==
  /\ pc[p] = "gate"
  /\ GateAllows(proposal)
  /\ Opened(p, "passed")
  /\ deal' = [deal EXCEPT ![p] = Len(deals) + 1]
  /\ Goto(p, "budget")
  /\ UNCHANGED <<snapshots, announced, patches, clock, wallet, used>>

(* Mutant: a denied delegation goes on to the budget. *)
DenyGateIgnored(p, proposal) ==
  /\ pc[p] = "gate"
  /\ ~GateAllows(proposal)
  /\ Opened(p, "denied")
  /\ deal' = [deal EXCEPT ![p] = Len(deals) + 1]
  /\ Goto(p, "budget")
  /\ UNCHANGED <<snapshots, announced, patches, clock, wallet, used>>

(* patch propose saves the wallet it loaded even then. *)
DenyGate(p, proposal) ==
  /\ pc[p] = "gate"
  /\ ~GateAllows(proposal)
  /\ Opened(p, "denied")
  /\ IF kind[p] = "patch"
     THEN /\ deal' = [deal EXCEPT ![p] = Len(deals) + 1]
          /\ Goto(p, "stamp")
          /\ UNCHANGED wallet
     ELSE Exit(p)
  /\ UNCHANGED <<snapshots, announced, patches, clock, used>>

Charge(p) ==
  /\ pc[p] = "budget"
  /\ CanAfford(wallet[p], Cost)
  /\ wallet' = [wallet EXCEPT ![p] = Spend(@, Cost)]
  /\ Record(p, "spent")
  /\ Goto(p, "request")
  /\ UNCHANGED <<snapshots, announced, patches, clock, deal, used>>

(* Mutant: the cost is taken before the wallet is asked whether it has it. *)
HaltSpent(p) ==
  /\ pc[p] = "budget"
  /\ ~CanAfford(wallet[p], Cost)
  /\ Record(p, "halted")
  /\ IF kind[p] = "patch"
     THEN /\ Goto(p, "stamp")
          /\ wallet' = [wallet EXCEPT ![p] = Spend(@, Cost)]
          /\ UNCHANGED deal
     ELSE Exit(p)
  /\ UNCHANGED <<snapshots, announced, patches, clock, used>>

(* Mutant: a command without money waits for some. *)
HaltWaiting(p) ==
  /\ pc[p] = "budget"
  /\ ~CanAfford(wallet[p], Cost)
  /\ Record(p, "halted")
  /\ UNCHANGED <<snapshots, announced, patches, clock, local, used>>

(* BUDGET_HALTED: the delegation is blocked. *)
Halt(p) ==
  /\ pc[p] = "budget"
  /\ ~CanAfford(wallet[p], Cost)
  /\ Record(p, "halted")
  /\ Finish(p)
  /\ UNCHANGED <<snapshots, announced, patches, clock, used>>

Request(p) ==
  /\ pc[p] = "request"
  /\ Record(p, "requested")
  /\ Goto(p, "run")
  /\ UNCHANGED <<snapshots, announced, patches, clock, wallet, deal, used>>

Reported(p, report) ==
  deals' = [deals EXCEPT ![deal[p]].phase = IF Passes(report) THEN "completed" ELSE "failed",
                         ![deal[p]].report = report]

(* Mutant: a patch command whose delegation failed returns at once. *)
ReportUnsaved(p, report) ==
  /\ pc[p] = "run"
  /\ Reported(p, report)
  /\ IF kind[p] = "patch" /\ Passes(report)
     THEN Goto(p, "validate") /\ UNCHANGED <<wallet, deal>>
     ELSE Exit(p)
  /\ UNCHANGED <<snapshots, announced, patches, clock, used>>

(* The harness comes back, and its report is verified. *)
Report(p, report) ==
  /\ pc[p] = "run"
  /\ Reported(p, report)
  /\ IF kind[p] = "patch" /\ Passes(report)
     THEN Goto(p, "validate") /\ UNCHANGED <<wallet, deal>>
     ELSE Finish(p)
  /\ UNCHANGED <<snapshots, announced, patches, clock, used>>

(* validate_patch_text, and the archive of a diff that passes it. *)
DraftPatch(p, valid) ==
  /\ pc[p] = "validate"
  /\ patches' = IF valid THEN patches \cup {deal[p]} ELSE patches
  /\ Goto(p, "stamp")
  /\ UNCHANGED <<deals, snapshots, announced, clock, wallet, deal, used>>

(* The process dies after its last step. *)
Crash(p) ==
  /\ pc[p] # "idle"
  /\ used.crashes < MaxCrashes
  /\ used' = [used EXCEPT !.crashes = @ + 1]
  /\ Exit(p)
  /\ UNCHANGED store

(***************************************************************************)
(* The specification.                                                      *)
(***************************************************************************)
Work(p) ==
  \/ LoadState(p)
  \/ TakeTimestamp(p)
  \/ InsertSnapshot(p)
  \/ AnnounceSnapshot(p)
  \/ \E proposal \in Proposals(kind[p]) :
       PassGate(p, proposal) \/ DenyGate(p, proposal)
  \/ Charge(p)
  \/ Halt(p)
  \/ Request(p)
  \/ \E report \in Reports : Report(p, report)
  \/ \E valid \in BOOLEAN : DraftPatch(p, valid)

Next ==
  \E p \in Procs :
    \/ \E k \in Kinds : Start(p, k)
    \/ Work(p)
    \/ Crash(p)

Spec == Init /\ [][Next]_vars

(* A running command gets to its next step: the harness has a timeout, and *)
(* nothing else in it waits.                                               *)
FairSpec == Spec /\ \A p \in Procs : WF_vars(Work(p))

-----------------------------------------------------------------------------
(***************************************************************************)
(* Properties that hold however commands interleave and die.               *)
(***************************************************************************)
(* Every variable stays in its type; only written snapshots are announced. *)
TypeOK ==
  /\ deals \in Seq(Deals)
  /\ snapshots \in Seq([ts : Nat, budget : Wallets])
  /\ announced \subseteq {snapshots[i].ts : i \in DOMAIN snapshots}
  /\ patches \subseteq DOMAIN deals
  /\ clock \in Nat
  /\ pc \in [Procs -> PCs]
  /\ kind \in [Procs -> {"init", "delegate", "patch", "tick"}]
  /\ wallet \in [Procs -> Wallets]
  /\ deal \in [Procs -> Nat]
  /\ ts \in [Procs -> 0..clock]
  /\ used \in [commands : Nat, crashes : Nat]

(* No wallet, saved or in memory, is overdrawn, its books balance, and it  *)
(* is halted exactly at the threshold: a spend that lands on it still goes *)
(* through, the next one does not.                                         *)
Funds(w) ==
  /\ w.balance >= HaltThreshold
  /\ w.balance = Initial - w.total_spent
  /\ w.total_spent = w.spend_count * Cost
  /\ w.halted <=> w.balance <= HaltThreshold
FundsSound ==
  /\ \A i \in DOMAIN snapshots : Funds(snapshots[i].budget)
  /\ \A p \in Procs : Funds(wallet[p])

(* A saved wallet never shows spending the ledger does not: although stale *)
(* copies are written over each other, every charge in it has a            *)
(* BUDGET_SPENT event of a patch delegation behind it.                     *)
Charged(k) ==
  {d \in DOMAIN deals : deals[d].kind = k
     /\ deals[d].phase \in {"spent", "requested", "completed", "failed"}}
SavedIsBacked ==
  \A i \in DOMAIN snapshots :
    snapshots[i].budget.spend_count <= Cardinality(Charged("patch"))

(* A patch is archived only for a delegation that ran, under governance,   *)
(* to a report without error or credential material.                       *)
PatchesVetted ==
  \A d \in patches : /\ deals[d].kind = "patch"
                     /\ deals[d].phase = "completed"
                     /\ deals[d].report = "clean"

(* The ledger tells one story per delegation: nothing is requested of a    *)
(* harness before the gate passed and the wallet was charged, and what was *)
(* denied, halted, completed or failed stays so.                           *)
NextPhases ==
  [denied |-> {}, passed |-> {"halted", "spent"}, halted |-> {},
   spent |-> {"requested"}, requested |-> {"completed", "failed"},
   completed |-> {}, failed |-> {}]
OneStoryPerDelegation ==
  [][/\ \A d \in DOMAIN deals :
       /\ d \in DOMAIN deals'
       /\ \/ deals'[d] = deals[d]
          \/ deals'[d].phase \in NextPhases[deals[d].phase]
     /\ \A d \in DOMAIN deals' \ DOMAIN deals :
          deals'[d].phase \in {"denied", "passed"}]_vars

(* The inductive invariant behind the theorems.  A delegation in progress  *)
(* belongs to one process and stands in the ledger where that process left *)
(* it; a snapshot's event comes after its row, and a row's timestamp was   *)
(* taken; a wallet that may yet be saved is backed by the ledger, too.     *)
PhaseAt ==
  [budget |-> "passed", request |-> "spent", run |-> "requested", validate |-> "completed"]
AtWork(p) == pc[p] \in {"budget", "request", "run", "validate"}
DealsOwned ==
  /\ \A p \in Procs : AtWork(p) => /\ deal[p] \in DOMAIN deals
                                   /\ deals[deal[p]].kind = kind[p]
                                   /\ deals[deal[p]].phase = PhaseAt[pc[p]]
                                   /\ pc[p] = "validate" => /\ kind[p] = "patch"
                                                            /\ deals[deal[p]].report = "clean"
  /\ \A p, q \in Procs : AtWork(p) /\ AtWork(q) /\ p # q => deal[p] # deal[q]
RunningKnown == \A p \in Procs : pc[p] # "idle" => kind[p] \in Kinds
Stamps == {snapshots[i].ts : i \in DOMAIN snapshots}
StampsTaken ==
  /\ Stamps \subseteq 0..clock
  /\ \A p \in Procs : pc[p] = "announce" => ts[p] \in Stamps
WalletsBacked ==
  \A p \in Procs :
    kind[p] = "patch" \/ pc[p] \notin {"request", "run", "validate"} =>
      wallet[p].spend_count <= Cardinality(Charged("patch"))
Invariant ==
  /\ TypeOK
  /\ RunningKnown
  /\ DealsOwned
  /\ StampsTaken
  /\ FundsSound
  /\ WalletsBacked
  /\ SavedIsBacked
  /\ PatchesVetted

(***************************************************************************)
(* Properties of commands that run one at a time, any of which may die.    *)
(***************************************************************************)
AtRest == \A p \in Procs : pc[p] = "idle"

(* The saved wallet misses no charge of a patch delegation, except one for *)
(* every command that died before it could save.                           *)
OnlyCrashesLoseSpending ==
  AtRest /\ snapshots # <<>> =>
    Cardinality(Charged("patch")) - Latest.spend_count \in 0..used.crashes

(* Money once seen spent is never back, nor a halt lifted, whatever failed *)
(* or was denied in between.                                               *)
NeverRefunded ==
  [][snapshots # <<>> =>
       /\ Latest'.spend_count >= Latest.spend_count
       /\ Latest.halted => Latest'.halted]_vars

(* Every snapshot is announced by an event, but for those of commands that *)
(* died in between.                                                        *)
SnapshotsAnnounced ==
  AtRest => Len(snapshots) - Cardinality(announced) \in 0..used.crashes

(* Every command returns to the shell. *)
CommandsEnd == \A p \in Procs : pc[p] # "idle" ~> pc[p] = "idle"
=============================================================================
