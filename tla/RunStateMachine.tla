-------------------------- MODULE RunStateMachine --------------------------
(***************************************************************************)
(* The decision table of app/afk/run_state_machine.py: what a tick does    *)
(* next with one run, from the state of its turn, the CI verdict on its    *)
(* commit and its own bookkeeping.  Pure; FixerLoop acts on its answers.   *)
(***************************************************************************)
EXTENDS Integers

CONSTANTS
  FixForwardMaxAttempts,  \* Config.fix_forward_max_attempts
  FixForwardMaxSeconds,   \* Config.fix_forward_max_seconds
  MaxRedispatchAttempts,  \* Config.max_redispatch_attempts
  CloseDeferMaxSeconds,   \* Config.close_defer_max_seconds
  CiVerdictMaxSeconds     \* Config.ci_verdict_max_seconds

(* loop_config refuses a deferral ceiling of zero and a negative restart    *)
(* bound, and nothing sets the verdict ceiling; the other two bounds are    *)
(* whatever the environment says.                                           *)
ASSUME RunConfigAssumption ==
  /\ CloseDeferMaxSeconds \in Nat \ {0}
  /\ MaxRedispatchAttempts \in Nat /\ CiVerdictMaxSeconds \in Nat
  /\ FixForwardMaxAttempts \in Int /\ FixForwardMaxSeconds \in Int

(* "unknown" is the None of an unreachable runner or an unlisted thread.    *)
Turns == {"running", "idle", "error", "vanished", "unknown"}
Verdicts == {"none", "pending", "green", "red"}
Actions == {"wait", "close_success", "escalate_prepush", "fix_forward",
            "freeze_escalate", "redispatch", "escalate_no_verdict"}

TerminalTurns == {"error", "idle"}
OverTurns == TerminalTurns \cup {"vanished"}

(* sincePush = -1 stands for a declaration time that is not known. *)
NotKnown == -1
RunStates ==
  [turn : Turns, ci : Verdicts, pushed : BOOLEAN, fixes : Nat, redispatches : Nat,
   elapsed : Nat, sincePush : Nat \cup {NotKnown}]

SecondsWaitingForVerdict(s) == IF s.sincePush # NotKnown THEN s.sincePush ELSE s.elapsed

(* Mutant: only the number of attempts is looked at. *)
AttemptsRemaining(s) == s.fixes < FixForwardMaxAttempts

FixForwardBudgetRemaining(s) ==
  s.fixes < FixForwardMaxAttempts /\ s.elapsed < FixForwardMaxSeconds

(* The turn is still the authority on this run: acting would race it. *)
Deferring(s) == s.turn = "running" /\ s.elapsed < CloseDeferMaxSeconds

(* Mutant: a pushed run waits for its verdict for ever. *)
PushedActionNoCeiling(s) ==
  IF Deferring(s) THEN "wait"
  ELSE IF s.ci = "green" THEN "close_success"
  ELSE IF s.ci = "red" THEN
    IF s.turn # "running" /\ FixForwardBudgetRemaining(s)
      THEN "fix_forward" ELSE "freeze_escalate"
  ELSE "wait"

PushedAction(s) ==
  IF Deferring(s) THEN "wait"
  ELSE IF s.ci = "green" THEN "close_success"
  ELSE IF s.ci = "red" THEN
    IF s.turn # "running" /\ FixForwardBudgetRemaining(s)
      THEN "fix_forward" ELSE "freeze_escalate"
  ELSE IF s.turn \in OverTurns /\ SecondsWaitingForVerdict(s) >= CiVerdictMaxSeconds
    THEN "escalate_no_verdict" ELSE "wait"

UnpushedAction(s) ==
  IF s.turn = "vanished" THEN
    IF s.redispatches < MaxRedispatchAttempts THEN "redispatch" ELSE "escalate_prepush"
  ELSE IF s.turn \in TerminalTurns THEN "escalate_prepush" ELSE "wait"

(* Mutant: a verdict on a commit is acted on while its turn still runs. *)
NextActionEager(s) ==
  IF s.pushed
  THEN PushedAction([s EXCEPT !.turn = IF s.turn = "running" THEN "idle" ELSE s.turn])
  ELSE UnpushedAction(s)

NextAction(s) == IF s.pushed THEN PushedAction(s) ELSE UnpushedAction(s)
=============================================================================
