--------------------------- MODULE DispatchPolicy ---------------------------
(***************************************************************************)
(* The drain's choice (app/afk/dispatch_policy.py) among the issues its    *)
(* trackers list (app/afk/tracker.py): at most one issue per repository,   *)
(* the most urgent that no gate excludes.  Pure.                           *)
(*                                                                         *)
(* What is known of an issue: repo, number, labels, the timeline of its    *)
(* label additions, named: the issues its body says it is blocked by, and  *)
(* prios: the numbers of its priority labels.                              *)
(***************************************************************************)
EXTENDS Profiles

(* The body is all that is read: whether a blocker is open is not asked. *)
BlockedBy(issue) == issue.named

Priority(issue) ==
  IF issue.prios = {} THEN 0 ELSE CHOOSE p \in issue.prios : \A q \in issue.prios : p <= q

IsEligible(issue, inFlight) ==
  /\ HumanLabel \notin issue.labels
  /\ LabeledByTrusted(issue.repo, issue.timeline)
  /\ issue.repo \in Allowlist /\ issue.repo \notin inFlight
  /\ BlockedBy(issue) = {}

(* _dispatch_sort_key *)
Before(a, b) ==
  \/ Priority(a) < Priority(b)
  \/ Priority(a) = Priority(b) /\ a.number < b.number

(* The issues to start now; the batch is worked through in this order.      *)
SelectDispatchable(issues, inFlight) ==
  LET eligible == {i \in issues : IsEligible(i, inFlight)}
  IN IF KillSwitch THEN {}
     ELSE {i \in eligible : \A k \in eligible : k.repo = i.repo => k = i \/ Before(i, k)}
=============================================================================
