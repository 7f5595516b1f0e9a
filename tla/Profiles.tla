------------------------------ MODULE Profiles ------------------------------
(***************************************************************************)
(* How the fixer treats a repository (app/fixer/profiles.py): which label  *)
(* asks for a run, who may ask, whose acts are ignored.  Trust is spelled  *)
(* twice: as a set of accounts for the webhook, and as associations of the *)
(* account that applied the label for the drain.                           *)
(***************************************************************************)
EXTENDS Naturals

CONSTANTS
  Owner,          \* FixerConfig.owner, also the tv approver
  Collaborators,  \* the accounts Forgejo reports for a repository
  Bot,            \* FixerConfig.bot_actor
  FeedbackBot,    \* files the tv reports
  Allowlist,      \* Config.allowlist: the enrolled repositories
  KillSwitch      \* Config.kill_switch

(* RepoTrackers refuses a fixed trusted set other than the owner, and the   *)
(* owner is no bot.                                                         *)
ASSUME ProfileAssumption == Owner \notin {Bot, FeedbackBot} /\ KillSwitch \in BOOLEAN

PausedLabel == "paused"
HumanLabel == "needs-human"
InProgressLabel == "agent-in-progress"
ApprovalLabel == "needs-approval"

ProfileFor(repo) ==
  IF repo = "tv"
  THEN [trigger |-> "approved", trusted |-> {Owner}, ignored |-> {Bot, FeedbackBot},
        comments |-> TRUE, ci |-> "none", cleared |-> {ApprovalLabel}]
  ELSE [trigger |-> "broken", trusted |-> Collaborators \cup {Owner}, ignored |-> {Bot},
        comments |-> FALSE, ci |-> "woodpecker", cleared |-> {}]

(* clear_on_approval: what is taken off an issue that was read with labels. *)
ClearedOf(repo, labels) == ProfileFor(repo).cleared \cap labels

Association(actor) ==
  IF actor = Owner THEN "OWNER" ELSE IF actor \in Collaborators THEN "COLLABORATOR" ELSE "NONE"

TrustedAssociations(repo) ==
  IF repo = "tv" THEN {"OWNER"} ELSE {"OWNER", "MEMBER", "COLLABORATOR"}

(* The most recent application of the trigger label, among the label        *)
(* additions in the issue's timeline, is by a trusted account.              *)
LabeledByTrusted(repo, timeline) ==
  \E n \in DOMAIN timeline :
    /\ timeline[n].label = ProfileFor(repo).trigger
    /\ \A m \in DOMAIN timeline : m > n => timeline[m].label # ProfileFor(repo).trigger
    /\ Association(timeline[n].actor) \in TrustedAssociations(repo)
=============================================================================
