------------------------------- MODULE Gates -------------------------------
(***************************************************************************)
(* The admission gates of the webhook (app/fixer/gates.py): whether a      *)
(* delivery starts a run, continues one with its comment, or which gate    *)
(* refuses it.  Pure; the per-repo lock is the receiver's.                 *)
(***************************************************************************)
EXTENDS Profiles

TriggeringEvents == {"issues", "issue_label"}
TriggeringActions == {"opened", "label_updated"}

(* A comment on a repository where comments trigger. *)
ByComment(d) == d.event = "issue_comment" /\ ProfileFor(d.repo).comments

(* relay: the comment is addressed to the reporter. *)
IsTrigger(d) ==
  /\ d.open /\ ProfileFor(d.repo).trigger \in d.labels
  /\ IF ByComment(d) THEN d.action = "created" /\ ~d.relay
     ELSE d.event \in TriggeringEvents /\ d.action \in TriggeringActions

(* Mutant: the trust gate is gone. *)
DecideUntrusted(d) ==
  IF ~IsTrigger(d) THEN "not-a-trigger"
  ELSE IF d.actor \in ProfileFor(d.repo).ignored THEN "own-action"
  ELSE IF ByComment(d) /\ InProgressLabel \in d.labels THEN "run-in-progress"
  ELSE IF PausedLabel \in d.labels THEN "paused"
  ELSE IF KillSwitch THEN "kill-switch"
  ELSE IF d.repo \notin Allowlist THEN "repo-not-enrolled"
  ELSE IF ByComment(d) THEN "continue" ELSE "dispatch"

(* decide and _decide_comment: the first gate that refuses. *)
Decide(d) ==
  IF ~IsTrigger(d) THEN "not-a-trigger"
  ELSE IF d.actor \in ProfileFor(d.repo).ignored THEN "own-action"
  ELSE IF ByComment(d) /\ InProgressLabel \in d.labels THEN "run-in-progress"
  ELSE IF PausedLabel \in d.labels THEN "paused"
  ELSE IF KillSwitch THEN "kill-switch"
  ELSE IF d.actor \notin ProfileFor(d.repo).trusted THEN "untrusted-actor"
  ELSE IF d.repo \notin Allowlist THEN "repo-not-enrolled"
  ELSE IF ByComment(d) THEN "continue" ELSE "dispatch"

Admitted(d) == Decide(d) \in {"dispatch", "continue"}
=============================================================================
