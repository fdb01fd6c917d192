----------------------------- MODULE PolicyGate -----------------------------
(***************************************************************************)
(* run_policy_gate: the deterministic verdict on a proposed action.  A     *)
(* proposal is denied as soon as there is one reason to; which reasons     *)
(* there were is left out.                                                 *)
(*                                                                         *)
(* Structured metadata that may be missing is a set of at most one record. *)
(* A directory is what its text begins with ("/", "~", "other", or nothing *)
(* when it is empty) and the parts of its path: none for ".".  A tool      *)
(* stands for the pattern that occurs in its name, or for "read" when none *)
(* does.                                                                   *)
(***************************************************************************)
EXTENDS Integers, Sequences

DelegationSentinel == "will:delegate"
CampaignSentinel == "will:campaign"
ReadonlyKinds == {"analyze_repo", "research_topic", "run_analysis", "propose_patch"}
ForbiddenTools == {"write", "edit", "create", "delete", "commit", "push", "bash", "shell"}
CampaignOps == {"tick", "revisit", "report"}
HardcodedForbidden == {"credential", "self_modify", "reproduce"}
SelfRepoAllowedCommands ==
  {<<"git", "status", "--short", "--branch">>,
   <<"python3", "-m", "json.tool", "data/papers/manifest.json">>,
   <<"python3", "-m", "json.tool", "data/sources/manifest.json">>}

(* The command of a structural action: its sentinel, then its kind.        *)
HasSentinel(command, sentinel) == command # <<>> /\ command[1] = sentinel
Names(command, kind) == Len(command) >= 2 /\ command[2] = kind

SafeDelegationCwd(cwd) ==
  /\ cwd.begins \notin {"nothing", "/", "~"}
  /\ \A i \in DOMAIN cwd.parts : cwd.parts[i] # ".."

DelegationAllowed(proposal) ==
  /\ HasSentinel(proposal.command, DelegationSentinel)
  /\ proposal.delegation_task # {}
  /\ \A task \in proposal.delegation_task :
       /\ ~task.allow_write
       /\ task.kind \in ReadonlyKinds
       /\ Names(proposal.command, task.kind)
       /\ SafeDelegationCwd(task.cwd)
       /\ task.allowed_tools \cap ForbiddenTools = {}

(* Rework needs a stage, a note and evidence.                              *)
CampaignAllowed(proposal) ==
  /\ HasSentinel(proposal.command, CampaignSentinel)
  /\ proposal.campaign_op # {}
  /\ \A op \in proposal.campaign_op :
       /\ op.op \in CampaignOps
       /\ Names(proposal.command, op.op)
       /\ op.campaign_id
       /\ op.op = "revisit" => op.stage_id /\ op.note /\ op.evidence

(* A value policy, where the caller hands one over, adds to the floor.     *)
Forbidden(policies) ==
  HardcodedForbidden \cup
    UNION {policy.forbidden_action_classes
             \cup (IF policy.allow_network_read THEN {} ELSE {"network_read"}) :
             policy \in policies}

RunPolicyGate(proposal, policies) ==
  /\ proposal.action_class \notin Forbidden(policies)
  /\ proposal.action_class = "financial" => proposal.dry_run
  /\ proposal.action_class # "external_write"
  /\ proposal.environment = "self_repo" /\ proposal.command # <<>> =>
       proposal.command \in SelfRepoAllowedCommands
  /\ proposal.environment = "pi_agent" => DelegationAllowed(proposal)
  /\ proposal.environment = "campaign" => CampaignAllowed(proposal)

DefaultValuePolicy ==
  [allow_network_read |-> FALSE, forbidden_action_classes |-> HardcodedForbidden]

(* build_delegation_proposal: every delegation is a network read.          *)
BuildDelegationProposal(task) ==
  [environment |-> "pi_agent",
   action_class |-> "network_read",
   command |-> <<DelegationSentinel, task.kind>>,
   dry_run |-> TRUE,
   delegation_task |-> {task},
   campaign_op |-> {}]
=============================================================================
