--------------------------- MODULE FixerLoopProofs ---------------------------
(***************************************************************************)
(* The decision table, and safety of the fixer's loop, for every set of    *)
(* issues, every number of jobs and mishaps, and every configuration:      *)
(* types, no lock without a run behind it, no run for an issue that a      *)
(* person holds.  And while no call fails and the actors keep out of each  *)
(* other's way: one run at a time, no run closed on a verdict that does    *)
(* not hold, and no job uncounted.                                         *)
(***************************************************************************)
EXTENDS FixerLoop, FiniteSetTheorems, TLAPS

-----------------------------------------------------------------------------
(* What next_action promises, for every run state and for every             *)
(* configuration that loop_config lets through.                             *)

(* The table is total: every run state gets one of the seven actions        *)
(* (run_state_machine.py:88-90).                                            *)
THEOREM EveryStateDecided ==
  ASSUME NEW s \in RunStates
  PROVE  NextAction(s) \in Actions
<1>1. CASE s.pushed
  BY <1>1 DEF NextAction, PushedAction, Actions
<1>2. CASE ~s.pushed
  BY <1>2 DEF NextAction, UnpushedAction, Actions
<1> QED BY <1>1, <1>2

(* A second agent never joins a turn that is known to be live, and a run    *)
(* whose turn is live is not given up as one that pushed nothing            *)
(* (run_state_machine.py:93-102).                                           *)
THEOREM NoTurnBesideLiveOne ==
  ASSUME NEW s \in RunStates, s.turn = "running"
  PROVE  NextAction(s) \notin {"fix_forward", "redispatch", "escalate_prepush", "escalate_no_verdict"}
<1>1. CASE s.pushed
  BY <1>1 DEF NextAction, PushedAction, OverTurns, TerminalTurns
<1>2. CASE ~s.pushed
  BY <1>2 DEF NextAction, UnpushedAction, TerminalTurns
<1> QED BY <1>1, <1>2

(* A live turn is interrupted, if at all, past the deferral ceiling and on  *)
(* a verdict.                                                               *)
THEOREM LiveTurnDeferredTo ==
  ASSUME NEW s \in RunStates, s.turn = "running", NextAction(s) # "wait"
  PROVE  s.pushed /\ s.ci \in {"green", "red"} /\ s.elapsed >= CloseDeferMaxSeconds
<1>1. s.pushed
  BY DEF NextAction, UnpushedAction, TerminalTurns
<1>2. ~Deferring(s) /\ s.ci \in {"green", "red"}
  BY <1>1 DEF NextAction, PushedAction, OverTurns, TerminalTurns
<1>3. s.elapsed \in Int /\ CloseDeferMaxSeconds \in Int
  BY RunConfigAssumption DEF RunStates
<1> QED BY <1>1, <1>2, <1>3 DEF Deferring

(* A runner that cannot be asked ends no run and starts none again, as long *)
(* as CI has not spoken (run_state_machine.py:77-79, execute_client.py:48-51). *)
THEOREM UnknownTurnWaits ==
  ASSUME NEW s \in RunStates, s.turn = "unknown", s.pushed => s.ci \in {"none", "pending"}
  PROVE  NextAction(s) = "wait"
<1>1. CASE s.pushed
  BY <1>1 DEF NextAction, PushedAction, OverTurns, TerminalTurns
<1>2. CASE ~s.pushed
  BY <1>2 DEF NextAction, UnpushedAction, TerminalTurns
<1> QED BY <1>1, <1>2

(* No ended run is waited for beyond the verdict ceiling, measured from the *)
(* declaration of its commit or, if that is not known, from its start.      *)
THEOREM EndedRunMovesOn ==
  ASSUME NEW s \in RunStates, s.turn \in OverTurns,
         s.pushed => SecondsWaitingForVerdict(s) >= CiVerdictMaxSeconds
  PROVE  NextAction(s) # "wait"
<1>1. s.turn # "running" /\ ~Deferring(s)
  BY DEF OverTurns, TerminalTurns, Deferring
<1>2. CASE s.pushed
  BY <1>1, <1>2 DEF NextAction, PushedAction
<1>3. CASE ~s.pushed
  BY <1>3 DEF NextAction, UnpushedAction, OverTurns
<1> QED BY <1>2, <1>3

(* Both budgets are strict, neither pays for the other, and no run that     *)
(* pushed is started again from the issue (run_state_machine.py:127-136,    *)
(* 155-166).                                                                *)
THEOREM BudgetsBound ==
  ASSUME NEW s \in RunStates
  PROVE  /\ NextAction(s) = "fix_forward" =>
              /\ s.pushed /\ s.ci = "red"
              /\ s.fixes < FixForwardMaxAttempts /\ s.elapsed < FixForwardMaxSeconds
         /\ NextAction(s) = "redispatch" =>
              ~s.pushed /\ s.turn = "vanished" /\ s.redispatches < MaxRedispatchAttempts
<1>1. CASE s.pushed
  BY <1>1 DEF NextAction, PushedAction, FixForwardBudgetRemaining
<1>2. CASE ~s.pushed
  BY <1>2 DEF NextAction, UnpushedAction
<1> QED BY <1>1, <1>2

-----------------------------------------------------------------------------
(* The inductive invariant.  The first five parts and recv's are TypeOK;    *)
(* the others say what an actor in the middle of its work may rely on.      *)

IssuesOK ==
  /\ open \subseteq Issues /\ human \subseteq Issues /\ locked \subseteq Issues
  /\ footer \in [Issues -> Records] /\ marker \in [Issues -> Jobs \cup {None}]
  /\ hooks \subseteq Issues

JobsOK ==
  /\ status \in [Jobs -> {"unused", "live", "ended", "gone"}]
  /\ owner \in [Jobs -> Issues \cup {None}]
  /\ ci \in [Jobs -> Verdicts]
  /\ late \subseteq Jobs /\ overdue \subseteq Jobs /\ abandoned \subseteq Jobs

CountsOK ==
  /\ faults \in Nat /\ losses \in Nat /\ touches \in Nat
  /\ faults + losses + touches <= MaxMishaps

FlagOK == disorder \subseteq Disorders

RunRecords == [job : Jobs, start : Jobs, fixes : Nat, redispatches : Nat]

(* Where the tick holds an issue, a record, a job: the job is the issue's.  *)
TickOK ==
  /\ tick \in TickStates
  /\ tick.pc \in {"submit", "stamp", "record", "turn", "judge", "unlock", "close", "hand",
                  "resubmit", "persist"} => tick.issue \in Issues
  /\ tick.pc \in {"turn", "judge", "resubmit", "persist"} => tick.rec \in RunRecords
  /\ tick.pc \in {"stamp", "record", "persist"} =>
       tick.job \in Jobs /\ owner[tick.job] = tick.issue

RecvOK ==
  /\ recv \in RecvStates
  /\ recv.pc # "idle" => recv.issue \in Issues
  /\ recv.pc \in {"stamp", "record"} => recv.job \in Jobs /\ owner[recv.job] = recv.issue

(* Starting a job takes no job away from its issue. *)
OwnersUsed == \A j \in Jobs : status[j] = "unused" => owner[j] = None

(* Only a person labels an issue for a human while the drain is at work.    *)
QueueUnheld ==
  tick.pc = "listed" /\ "labelled" \notin disorder => tick.ready \cap human = {}

IInv ==
  /\ IssuesOK /\ JobsOK /\ CountsOK /\ FlagOK /\ TickOK /\ RecvOK
  /\ OwnersUsed /\ LockHasRun /\ QueueUnheld /\ HandedOverStaysOut

(* The invariant holds what TypeOK asks of every variable. *)
LEMMA InvariantTyped == IInv => TypeOK
BY DEF IInv, IssuesOK, JobsOK, CountsOK, FlagOK, TickOK, RecvOK, TypeOK

-----------------------------------------------------------------------------
(* Places of the tick. *)

(* Between two ticks nothing is kept. *)
LEMMA RestingTyped == Resting \in TickStates /\ Resting.pc = "idle"
BY DEF Resting, TickStates, TickPhases, Records, NoRecord, Turns, Actions

(* Whatever is left of its list, the tick is idle or takes the next issue. *)
LEMMA RestTyped ==
  ASSUME NEW todo \in SUBSET Issues
  PROVE  Rest(todo) \in TickStates /\ Rest(todo).pc \in {"idle", "next"}
BY RestingTyped DEF Rest, TickStates, TickPhases

(* So it is when it is done with an issue. *)
LEMMA DoneRests ==
  ASSUME tick \in TickStates
  PROVE  Done \in TickStates /\ Done.pc \in {"idle", "next"}
<1>1. tick.todo \ {tick.issue} \in SUBSET Issues
  BY DEF TickStates
<1> QED BY <1>1, RestTyped DEF Done

(* What the tick has read is a run state, so the table decides it. *)
LEMMA RunStateTyped ==
  ASSUME TickOK, JobsOK, tick.pc = "judge"
  PROVE  RunState \in RunStates
<1>1. /\ tick.rec.fixes \in Nat /\ tick.rec.redispatches \in Nat
      /\ tick.turn \in Turns /\ tick.elapsed \in Nat /\ tick.sincePush \in Nat \cup {NotKnown}
      /\ tick.commit \in Jobs \cup {None}
  BY DEF TickOK, TickStates, RunRecords
<1>2. (IF tick.commit = None THEN "none" ELSE ci[tick.commit]) \in Verdicts
  BY <1>1 DEF JobsOK, Verdicts
<1>3. (tick.commit # None) \in BOOLEAN
  OBVIOUS
<1> QED BY <1>1, <1>2, <1>3 DEF RunState, RunStates

(* The table's answer leads the tick to a place it knows, with the issue and the
   record it had. *)
LEMMA JudgeTyped ==
  ASSUME TickOK, JobsOK, Judge
  PROVE  /\ tick' \in TickStates /\ tick'.pc \in {"idle", "next", "resubmit", "unlock"}
         /\ tick'.pc \in {"resubmit", "unlock"} =>
              tick'.issue = tick.issue /\ tick'.rec = tick.rec
<1> DEFINE action == NextAction(RunState)
<1>1. tick \in TickStates /\ tick.pc = "judge"
  BY DEF TickOK, Judge
<1>2. action \in Actions
  BY <1>1, RunStateTyped, EveryStateDecided
<1>3. CASE action = "wait"
  <2>1. tick' = Done
    BY <1>3 DEF Judge
  <2> QED BY <1>1, <2>1, DoneRests
<1>4. CASE action # "wait"
  <2> HIDE DEF action
  <2>1. PICK pc \in {"resubmit", "unlock"} :
          tick' = [tick EXCEPT !.pc = pc, !.action = action, !.turn = "unknown",
                     !.elapsed = 0, !.sincePush = NotKnown]
    BY <1>4 DEF Judge, action
  <2> QED BY <1>1, <1>2, <2>1 DEF TickStates, TickPhases, Turns
<1> QED BY <1>3, <1>4

(* Job j is new and issue i's; all jobs that had an issue still have it.    *)
Started(i, j) ==
  /\ j \in Jobs /\ owner'[j] = i
  /\ \A k \in Jobs : owner[k] \in Issues => owner'[k] = owner[k]
  /\ JobsOK' /\ OwnersUsed'

(* Starting an unused job gives it its issue and disturbs no other job. *)
LEMMA StartEffect ==
  ASSUME JobsOK, OwnersUsed, NEW i \in Issues, NEW j \in Unused, Start(i, j),
         UNCHANGED <<ci, late, overdue, abandoned>>
  PROVE  Started(i, j)
<1>1. j \in Jobs /\ owner[j] = None /\ None \notin Issues
  BY LoopAssumption DEF Unused, OwnersUsed
<1>2. owner'[j] = i /\ \A k \in Jobs : owner[k] \in Issues => owner'[k] = owner[k]
  BY <1>1 DEF Start, JobsOK
<1>3. JobsOK'
  BY <1>1 DEF Start, JobsOK
<1>4. OwnersUsed'
  BY <1>1 DEF Start, JobsOK, OwnersUsed
<1> QED BY <1>1, <1>2, <1>3, <1>4 DEF Started

(* The invariant holds when nothing has happened yet. *)
LEMMA InitEstablishes == Init => IInv
<1> SUFFICES ASSUME Init PROVE IInv
  OBVIOUS
<1> USE DEF Init
<1>1. IssuesOK
  BY LoopAssumption DEF IssuesOK, Records, NoRecord
<1>2. JobsOK
  BY DEF JobsOK, Verdicts
<1>3. CountsOK
  BY LoopAssumption DEF CountsOK
<1>4. FlagOK
  BY DEF FlagOK
<1>5. TickOK /\ QueueUnheld /\ HandedOverStaysOut
  BY RestingTyped DEF TickOK, QueueUnheld, HandedOverStaysOut
<1>6. RecvOK
  BY DEF RecvOK, RecvStates, Listening
<1>7. OwnersUsed /\ LockHasRun
  BY DEF OwnersUsed, LockHasRun
<1> QED BY <1>1, <1>2, <1>3, <1>4, <1>5, <1>6, <1>7 DEF IInv

-----------------------------------------------------------------------------
(* One lemma per action. *)

(* A delivery at most starts a dispatch of the handler. *)
LEMMA ReceivePreserves ==
  ASSUME IInv, NEW x \in Issues, Receive(x)
  PROVE  IInv'
<1> USE DEF IInv
<1>1. IssuesOK'
  BY DEF IssuesOK, Receive, tracker
<1>2. FlagOK'
  BY DEF FlagOK, Receive, Disorders
<1>3. RecvOK'
  BY DEF RecvOK, RecvStates, Receive, service
<1>4. JobsOK' /\ CountsOK' /\ TickOK' /\ OwnersUsed' /\ LockHasRun' /\ QueueUnheld'
   /\ HandedOverStaysOut'
  BY DEF JobsOK, Receive, service, clocks, history, CountsOK, bounds, TickOK, TickStates,
     OwnersUsed, LockHasRun, tracker, QueueUnheld, HandedOverStaysOut
<1> QED BY <1>1, <1>2, <1>3, <1>4

(* The handler's new job was unused: no other job changes its issue. *)
LEMMA ReceiverSubmitsPreserves ==
  ASSUME IInv, ReceiverSubmits
  PROVE  IInv'
<1> USE DEF IInv
<1>1. PICK j \in Unused :
        Start(recv.issue, j) /\ recv' = [recv EXCEPT !.pc = "stamp", !.job = j]
  BY DEF ReceiverSubmits
<1>2. /\ recv \in RecvStates /\ recv.issue \in Issues
      /\ UNCHANGED <<open, human, locked, footer, marker, hooks, tick, ci, late, overdue,
                     faults, losses, touches, abandoned, disorder>>
  BY DEF ReceiverSubmits, RecvOK, tracker, clocks, bounds, history
<1>3. Started(recv.issue, j)
  BY <1>1, <1>2, StartEffect
<1>4. RecvOK'
  BY <1>1, <1>2, <1>3 DEF Started, RecvOK, RecvStates
<1>5. TickOK'
  BY <1>2, <1>3 DEF Started, TickOK, TickStates
<1>6. LockHasRun'
  BY <1>2, <1>3 DEF Started, LockHasRun, IssuesOK
<1>7. QueueUnheld' /\ HandedOverStaysOut'
  BY <1>1, <1>2 DEF QueueUnheld, HandedOverStaysOut, RecvStates
<1>8. IssuesOK' /\ CountsOK' /\ FlagOK'
  BY <1>2 DEF IssuesOK, CountsOK, FlagOK
<1> QED BY <1>3, <1>4, <1>5, <1>6, <1>7, <1>8 DEF Started

(* The label goes on the issue of the handler's job. *)
LEMMA ReceiverStampsPreserves ==
  ASSUME IInv, ReceiverStamps
  PROVE  IInv'
<1> USE DEF IInv
<1>1. IssuesOK'
  BY DEF IssuesOK, ReceiverStamps, RecvOK, RecvStates, tracker
<1>2. RecvOK'
  BY DEF RecvOK, RecvStates, ReceiverStamps, service
<1>3. LockHasRun'
  BY DEF LockHasRun, ReceiverStamps, RecvOK, RecvStates, tracker, service
<1>4. JobsOK' /\ CountsOK' /\ FlagOK' /\ TickOK' /\ OwnersUsed' /\ QueueUnheld'
   /\ HandedOverStaysOut'
  BY DEF JobsOK, ReceiverStamps, service, clocks, history, CountsOK, bounds, FlagOK, TickOK,
     TickStates, OwnersUsed, QueueUnheld, tracker, HandedOverStaysOut
<1> QED BY <1>1, <1>2, <1>3, <1>4

(* The footer names the handler's job; the handler is done. *)
LEMMA ReceiverRecordsPreserves ==
  ASSUME IInv, ReceiverRecords
  PROVE  IInv'
<1> USE DEF IInv
<1>1. IssuesOK'
  BY DEF IssuesOK, ReceiverRecords, RecvOK, RecvStates, FirstRecord, Records, tracker
<1>2. RecvOK'
  BY DEF RecvOK, RecvStates, ReceiverRecords, Listening, service
<1>3. JobsOK' /\ CountsOK' /\ FlagOK' /\ TickOK' /\ OwnersUsed' /\ LockHasRun' /\ QueueUnheld'
   /\ HandedOverStaysOut'
  BY DEF JobsOK, ReceiverRecords, service, clocks, history, CountsOK, bounds, FlagOK, TickOK,
     TickStates, OwnersUsed, LockHasRun, tracker, QueueUnheld, HandedOverStaysOut
<1> QED BY <1>1, <1>2, <1>3

(* The handler drops what it was doing; the tracker keeps what it wrote. *)
LEMMA ReceiverFailsPreserves ==
  ASSUME IInv, ReceiverFails
  PROVE  IInv'
<1> USE DEF IInv
<1>1. CountsOK'
  BY LoopAssumption DEF CountsOK, May, ReceiverFails, bounds
<1>2. RecvOK'
  BY DEF RecvOK, RecvStates, ReceiverFails, Listening, service
<1>3. IssuesOK' /\ JobsOK' /\ FlagOK' /\ TickOK' /\ OwnersUsed' /\ LockHasRun' /\ QueueUnheld'
   /\ HandedOverStaysOut'
  BY DEF IssuesOK, ReceiverFails, tracker, JobsOK, service, clocks, history, FlagOK, TickOK,
     TickStates, OwnersUsed, LockHasRun, QueueUnheld, HandedOverStaysOut
<1> QED BY <1>1, <1>2, <1>3

(* The queue leaves out the issues that people hold. *)
LEMMA ListReadyPreserves ==
  ASSUME IInv, ListReady
  PROVE  IInv'
<1> USE DEF IInv
<1>1. TickOK'
  BY DEF TickOK, TickStates, ListReady, TickPhases, IssuesOK, service
<1>2. QueueUnheld'
  BY DEF QueueUnheld, ListReady, TickOK, TickStates, tracker
<1>3. HandedOverStaysOut'
  BY DEF HandedOverStaysOut, ListReady, TickOK, TickStates, tracker
<1>4. IssuesOK' /\ JobsOK' /\ CountsOK' /\ FlagOK' /\ RecvOK' /\ OwnersUsed' /\ LockHasRun'
  BY DEF IssuesOK, ListReady, tracker, JobsOK, service, clocks, history, CountsOK, bounds,
     FlagOK, RecvOK, RecvStates, OwnersUsed, LockHasRun
<1> QED BY <1>1, <1>2, <1>3, <1>4

(* The issue to start comes from the queue. *)
LEMMA ReadLockPreserves ==
  ASSUME IInv, ReadLock
  PROVE  IInv'
<1> USE DEF IInv
<1>1. FlagOK'
  BY DEF FlagOK, ReadLock, Disorders
<1>2. TickOK'
  BY RestingTyped DEF TickOK, TickStates, ReadLock, TickPhases, service
<1>3. QueueUnheld'
  BY DEF QueueUnheld, ReadLock, TickOK, TickStates, Resting, tracker
<1>4. HandedOverStaysOut'
  BY DEF HandedOverStaysOut, ReadLock, TickOK, TickStates, Resting, QueueUnheld, First, tracker
<1>5. IssuesOK' /\ JobsOK' /\ CountsOK' /\ RecvOK' /\ OwnersUsed' /\ LockHasRun'
  BY DEF IssuesOK, ReadLock, tracker, JobsOK, service, clocks, history, CountsOK, bounds,
     RecvOK, RecvStates, OwnersUsed, LockHasRun
<1> QED BY <1>1, <1>2, <1>3, <1>4, <1>5

(* The drain's new job was unused: no other job changes its issue. *)
LEMMA DrainSubmitsPreserves ==
  ASSUME IInv, DrainSubmits
  PROVE  IInv'
<1> USE DEF IInv
<1>1. PICK j \in Unused :
        Start(tick.issue, j) /\ tick' = [tick EXCEPT !.pc = "stamp", !.job = j]
  BY DEF DrainSubmits
<1>2. /\ tick \in TickStates /\ tick.issue \in Issues
      /\ UNCHANGED <<open, human, locked, footer, marker, hooks, recv, ci, late, overdue,
                     faults, losses, touches, abandoned, disorder>>
  BY DEF DrainSubmits, TickOK, tracker, clocks, bounds, history
<1>3. Started(tick.issue, j)
  BY <1>1, <1>2, StartEffect
<1>4. TickOK'
  BY <1>1, <1>2, <1>3 DEF Started, TickOK, TickStates, TickPhases
<1>5. RecvOK'
  BY <1>2, <1>3 DEF Started, RecvOK, RecvStates
<1>6. LockHasRun'
  BY <1>2, <1>3 DEF Started, LockHasRun, IssuesOK
<1>7. QueueUnheld' /\ HandedOverStaysOut'
  BY <1>1, <1>2 DEF QueueUnheld, HandedOverStaysOut, TickStates
<1>8. IssuesOK' /\ CountsOK' /\ FlagOK'
  BY <1>2 DEF IssuesOK, CountsOK, FlagOK
<1> QED BY <1>3, <1>4, <1>5, <1>6, <1>7, <1>8 DEF Started

(* The label goes on the issue of the drain's job. *)
LEMMA DrainStampsPreserves ==
  ASSUME IInv, DrainStamps
  PROVE  IInv'
<1> USE DEF IInv
<1>1. IssuesOK'
  BY DEF IssuesOK, DrainStamps, TickOK, tracker
<1>2. TickOK'
  BY DEF TickOK, TickStates, DrainStamps, TickPhases, service
<1>3. LockHasRun'
  BY DEF LockHasRun, DrainStamps, TickOK, tracker, service
<1>4. QueueUnheld'
  BY DEF QueueUnheld, DrainStamps, TickOK, TickStates, tracker
<1>5. HandedOverStaysOut'
  BY DEF HandedOverStaysOut, DrainStamps, TickOK, TickStates, tracker
<1>6. JobsOK' /\ CountsOK' /\ FlagOK' /\ RecvOK' /\ OwnersUsed'
  BY DEF JobsOK, DrainStamps, service, clocks, history, CountsOK, bounds, FlagOK, RecvOK,
     RecvStates, OwnersUsed
<1> QED BY <1>1, <1>2, <1>3, <1>4, <1>5, <1>6

(* The footer names the drain's job; the drain is over. *)
LEMMA DrainRecordsPreserves ==
  ASSUME IInv, DrainRecords
  PROVE  IInv'
<1> USE DEF IInv
<1>1. IssuesOK'
  BY DEF IssuesOK, DrainRecords, TickOK, FirstRecord, Records, tracker
<1>2. TickOK'
  BY RestingTyped DEF TickOK, TickStates, DrainRecords, TickPhases, service
<1>3. QueueUnheld'
  BY DEF QueueUnheld, DrainRecords, TickOK, TickStates, Resting, tracker
<1>4. HandedOverStaysOut'
  BY DEF HandedOverStaysOut, DrainRecords, TickOK, TickStates, Resting, tracker
<1>5. JobsOK' /\ CountsOK' /\ FlagOK' /\ RecvOK' /\ OwnersUsed' /\ LockHasRun'
  BY DEF JobsOK, DrainRecords, service, clocks, history, CountsOK, bounds, FlagOK, RecvOK,
     RecvStates, OwnersUsed, LockHasRun, tracker
<1> QED BY <1>1, <1>2, <1>3, <1>4, <1>5

(* The watch begins with the locked issues, or ends at once. *)
LEMMA ListHeldPreserves ==
  ASSUME IInv, ListHeld
  PROVE  IInv'
<1> USE DEF IInv
<1>1. TickOK'
  BY RestingTyped DEF TickOK, TickStates, ListHeld, TickPhases, Held, IssuesOK, service
<1>2. QueueUnheld'
  BY DEF QueueUnheld, ListHeld, Resting, tracker
<1>3. HandedOverStaysOut'
  BY DEF HandedOverStaysOut, ListHeld, Resting, tracker
<1>4. IssuesOK' /\ JobsOK' /\ CountsOK' /\ FlagOK' /\ RecvOK' /\ OwnersUsed' /\ LockHasRun'
  BY DEF IssuesOK, ListHeld, tracker, JobsOK, service, clocks, history, CountsOK, bounds,
     FlagOK, RecvOK, RecvStates, OwnersUsed, LockHasRun
<1> QED BY <1>1, <1>2, <1>3, <1>4

(* The tick keeps the footer, the declared commit and the ages of one issue. *)
LEMMA ReadCommentsPreserves ==
  ASSUME IInv, ReadComments
  PROVE  IInv'
<1> USE DEF IInv
<1>1. FlagOK'
  BY DEF FlagOK, ReadComments, Disorders
<1>2. TickOK'
  <2>1. PICK i \in tick.todo :
          tick' = [tick EXCEPT !.issue = i, !.rec = footer[i], !.commit = marker[i],
                     !.pc = IF footer[i] = NoRecord THEN "unlock" ELSE "turn",
                     !.action = IF footer[i] = NoRecord THEN "orphan" ELSE "wait",
                     !.elapsed = IF footer[i].start \in late THEN CloseDeferMaxSeconds ELSE 0,
                     !.sincePush = IF marker[i] = None THEN NotKnown
                                   ELSE IF marker[i] \in overdue THEN CiVerdictMaxSeconds ELSE 0]
    BY DEF ReadComments
  <2>2. /\ tick \in TickStates
        /\ i \in Issues /\ footer[i] \in Records /\ marker[i] \in Jobs \cup {None}
    BY DEF TickOK, TickStates, IssuesOK
  <2> DEFINE pc == IF footer[i] = NoRecord THEN "unlock" ELSE "turn"
             action == IF footer[i] = NoRecord THEN "orphan" ELSE "wait"
             elapsed == IF footer[i].start \in late THEN CloseDeferMaxSeconds ELSE 0
             sincePush == IF marker[i] = None THEN NotKnown
                          ELSE IF marker[i] \in overdue THEN CiVerdictMaxSeconds ELSE 0
  <2>3. pc \in TickPhases /\ action \in Actions \cup {"orphan"}
    BY DEF Actions, TickPhases
  <2>4. elapsed \in Nat /\ sincePush \in Nat \cup {NotKnown}
    BY RunConfigAssumption
  <2>5. pc \in {"turn", "unlock"} /\ (pc = "turn" => footer[i] \in RunRecords)
    BY <2>2 DEF Records, RunRecords
  <2>6. tick' = [tick EXCEPT !.issue = i, !.rec = footer[i], !.commit = marker[i], !.pc = pc,
                   !.action = action, !.elapsed = elapsed, !.sincePush = sincePush]
    BY <2>1
  <2> HIDE DEF pc, action, elapsed, sincePush
  <2>7. tick' \in TickStates
    BY <2>2, <2>3, <2>4, <2>6 DEF TickStates
  <2>8. tick'.pc = pc /\ tick'.issue = i /\ tick'.rec = footer[i]
    BY <2>2, <2>6 DEF TickStates
  <2> QED BY <2>2, <2>5, <2>7, <2>8 DEF TickOK
<1>3. QueueUnheld'
  BY DEF QueueUnheld, ReadComments, TickOK, TickStates, tracker
<1>4. HandedOverStaysOut'
  BY DEF HandedOverStaysOut, ReadComments, TickOK, TickStates, tracker
<1>5. IssuesOK' /\ JobsOK' /\ CountsOK' /\ RecvOK' /\ OwnersUsed' /\ LockHasRun'
  BY DEF IssuesOK, ReadComments, tracker, JobsOK, service, clocks, history, CountsOK, bounds,
     RecvOK, RecvStates, OwnersUsed, LockHasRun
<1> QED BY <1>1, <1>2, <1>3, <1>4, <1>5

(* A live, ended or forgotten job has a turn state. *)
LEMMA ReadTurnPreserves ==
  ASSUME IInv, ReadTurn
  PROVE  IInv'
<1> USE DEF IInv
<1>1. TickOK'
  BY DEF TickOK, TickStates, ReadTurn, TickPhases, TurnsOf, Turns, service
<1>2. QueueUnheld'
  BY DEF QueueUnheld, ReadTurn, TickOK, TickStates, tracker
<1>3. HandedOverStaysOut'
  BY DEF HandedOverStaysOut, ReadTurn, TickOK, TickStates, tracker
<1>4. IssuesOK' /\ JobsOK' /\ CountsOK' /\ FlagOK' /\ RecvOK' /\ OwnersUsed' /\ LockHasRun'
  BY DEF IssuesOK, ReadTurn, tracker, JobsOK, service, clocks, history, CountsOK, bounds,
     FlagOK, RecvOK, RecvStates, OwnersUsed, LockHasRun
<1> QED BY <1>1, <1>2, <1>3, <1>4

(* The failed call leaves a turn state too. *)
LEMMA TurnUnknownPreserves ==
  ASSUME IInv, TurnUnknown
  PROVE  IInv'
<1> USE DEF IInv
<1>1. CountsOK'
  BY LoopAssumption DEF CountsOK, May, TurnUnknown, bounds
<1>2. TickOK'
  BY DEF TickOK, TickStates, TurnUnknown, TickPhases, Turns, service
<1>3. QueueUnheld'
  BY DEF QueueUnheld, TurnUnknown, TickOK, TickStates, tracker
<1>4. HandedOverStaysOut'
  BY DEF HandedOverStaysOut, TurnUnknown, TickOK, TickStates, tracker
<1>5. IssuesOK' /\ JobsOK' /\ FlagOK' /\ RecvOK' /\ OwnersUsed' /\ LockHasRun'
  BY DEF IssuesOK, TurnUnknown, tracker, JobsOK, service, clocks, history, FlagOK, RecvOK,
     RecvStates, OwnersUsed, LockHasRun
<1> QED BY <1>1, <1>2, <1>3, <1>4, <1>5

(* The state machine answers with one of its actions. *)
LEMMA JudgePreserves ==
  ASSUME IInv, Judge
  PROVE  IInv'
<1> USE DEF IInv
<1>1. TickOK'
  BY JudgeTyped DEF TickOK, TickStates, Judge, service
<1>2. QueueUnheld'
  BY JudgeTyped DEF QueueUnheld, Judge, tracker
<1>3. HandedOverStaysOut'
  BY JudgeTyped DEF HandedOverStaysOut, Judge, tracker
<1>4. IssuesOK' /\ JobsOK' /\ CountsOK' /\ FlagOK' /\ RecvOK' /\ OwnersUsed' /\ LockHasRun'
  BY DEF IssuesOK, Judge, tracker, JobsOK, service, clocks, history, CountsOK, bounds,
     FlagOK, RecvOK, RecvStates, OwnersUsed, LockHasRun
<1> QED BY <1>1, <1>2, <1>3, <1>4

(* A label that goes away needs no job. *)
LEMMA UnlockPreserves ==
  ASSUME IInv, Unlock
  PROVE  IInv'
<1> USE DEF IInv
<1>1. IssuesOK'
  BY DEF IssuesOK, Unlock, tracker
<1>2. JobsOK'
  BY DEF JobsOK, Unlock, Live, service, clocks, history
<1>3. TickOK'
  BY DEF TickOK, TickStates, Unlock, TickPhases, service
<1>4. LockHasRun'
  BY DEF LockHasRun, Unlock, tracker, service
<1>5. QueueUnheld'
  BY DEF QueueUnheld, Unlock, TickOK, TickStates, tracker
<1>6. HandedOverStaysOut'
  BY DEF HandedOverStaysOut, Unlock, TickOK, TickStates, tracker
<1>7. CountsOK' /\ FlagOK' /\ RecvOK' /\ OwnersUsed'
  BY DEF CountsOK, Unlock, bounds, FlagOK, history, RecvOK, RecvStates, service, OwnersUsed
<1> QED BY <1>1, <1>2, <1>3, <1>4, <1>5, <1>6, <1>7

(* The issue is closed and the tick goes on. *)
LEMMA ClosePreserves ==
  ASSUME IInv, Close
  PROVE  IInv'
<1> USE DEF IInv
<1>0. tick' \in TickStates /\ tick'.pc \in {"idle", "next"}
  BY DoneRests DEF Close, TickOK
<1>1. IssuesOK'
  BY DEF IssuesOK, Close, tracker
<1>2. TickOK'
  BY <1>0 DEF TickOK, TickStates, Close, service
<1>3. QueueUnheld'
  BY <1>0 DEF QueueUnheld, Close, tracker
<1>4. HandedOverStaysOut'
  BY <1>0 DEF HandedOverStaysOut, Close, tracker
<1>5. JobsOK' /\ CountsOK' /\ FlagOK' /\ RecvOK' /\ OwnersUsed' /\ LockHasRun'
  BY DEF JobsOK, Close, service, clocks, history, CountsOK, bounds, FlagOK, RecvOK,
     RecvStates, OwnersUsed, LockHasRun, tracker
<1> QED BY <1>1, <1>2, <1>3, <1>4, <1>5

(* A person gets the issue while the tick is not reading its queue. *)
LEMMA HandOverPreserves ==
  ASSUME IInv, HandOver
  PROVE  IInv'
<1> USE DEF IInv
<1>0. tick' \in TickStates /\ tick'.pc \in {"idle", "next"}
  BY DoneRests DEF HandOver, TickOK
<1>1. IssuesOK'
  BY DEF IssuesOK, HandOver, TickOK, tracker
<1>2. TickOK'
  BY <1>0 DEF TickOK, TickStates, HandOver, service
<1>3. QueueUnheld'
  BY <1>0 DEF QueueUnheld, HandOver, tracker
<1>4. HandedOverStaysOut'
  BY <1>0 DEF HandedOverStaysOut, HandOver, tracker
<1>5. JobsOK' /\ CountsOK' /\ FlagOK' /\ RecvOK' /\ OwnersUsed' /\ LockHasRun'
  BY DEF JobsOK, HandOver, service, clocks, history, CountsOK, bounds, FlagOK, RecvOK,
     RecvStates, OwnersUsed, LockHasRun, tracker
<1> QED BY <1>1, <1>2, <1>3, <1>4, <1>5

(* The corrective turn's job was unused: no other job changes its issue. *)
LEMMA ResubmitPreserves ==
  ASSUME IInv, Resubmit
  PROVE  IInv'
<1> USE DEF IInv
<1>1. PICK j \in Unused :
        Start(tick.issue, j) /\ tick' = [tick EXCEPT !.pc = "persist", !.job = j]
  BY DEF Resubmit
<1>2. /\ tick.pc = "resubmit" /\ tick \in TickStates /\ tick.issue \in Issues
      /\ UNCHANGED <<open, human, locked, footer, marker, hooks, recv, ci, late, overdue,
                     faults, losses, touches, abandoned, disorder>>
  BY DEF Resubmit, TickOK, tracker, clocks, bounds, history
<1>3. Started(tick.issue, j)
  BY <1>1, <1>2, StartEffect
<1>4. TickOK'
  BY <1>1, <1>2, <1>3 DEF Started, TickOK, TickStates, TickPhases
<1>5. RecvOK'
  BY <1>2, <1>3 DEF Started, RecvOK, RecvStates
<1>6. LockHasRun'
  BY <1>2, <1>3 DEF Started, LockHasRun, IssuesOK
<1>7. QueueUnheld' /\ HandedOverStaysOut'
  BY <1>1, <1>2 DEF QueueUnheld, HandedOverStaysOut, TickStates
<1>8. IssuesOK' /\ CountsOK' /\ FlagOK'
  BY <1>2 DEF IssuesOK, CountsOK, FlagOK
<1> QED BY <1>3, <1>4, <1>5, <1>6, <1>7, <1>8 DEF Started

(* The new footer still is a record: its counts only grow. *)
LEMMA PersistPreserves ==
  ASSUME IInv, Persist
  PROVE  IInv'
<1> USE DEF IInv
<1>0. tick' \in TickStates /\ tick'.pc \in {"idle", "next"}
  BY DoneRests DEF Persist, TickOK
<1>1. IssuesOK'
  <2>1. /\ tick.issue \in Issues /\ tick.rec \in RunRecords /\ tick.job \in Jobs
    BY DEF Persist, TickOK
  <2>2. PICK f \in {0, 1}, r \in {0, 1} :
          footer' = [footer EXCEPT ![tick.issue] =
            [tick.rec EXCEPT !.job = tick.job, !.fixes = @ + f, !.redispatches = @ + r]]
    BY DEF Persist
  <2>3. [tick.rec EXCEPT !.job = tick.job, !.fixes = @ + f, !.redispatches = @ + r] \in Records
    <3>1. tick.rec.fixes + f \in Nat /\ tick.rec.redispatches + r \in Nat
      BY <2>1 DEF RunRecords
    <3> QED BY <2>1, <3>1 DEF RunRecords, Records
  <2>4. footer' \in [Issues -> Records]
    BY <2>2, <2>3 DEF IssuesOK
  <2> QED BY <2>4 DEF IssuesOK, Persist
<1>2. TickOK'
  BY <1>0 DEF TickOK, TickStates, Persist, service
<1>3. QueueUnheld'
  BY <1>0 DEF QueueUnheld, Persist, tracker
<1>4. HandedOverStaysOut'
  BY <1>0 DEF HandedOverStaysOut, Persist, tracker
<1>5. JobsOK' /\ CountsOK' /\ FlagOK' /\ RecvOK' /\ OwnersUsed' /\ LockHasRun'
  BY DEF JobsOK, Persist, service, clocks, history, CountsOK, bounds, FlagOK, RecvOK,
     RecvStates, OwnersUsed, LockHasRun, tracker
<1> QED BY <1>1, <1>2, <1>3, <1>4, <1>5

(* The next tick starts afresh; the tracker keeps what this one wrote. *)
LEMMA TickFailsPreserves ==
  ASSUME IInv, TickFails
  PROVE  IInv'
<1> USE DEF IInv
<1>1. CountsOK'
  BY LoopAssumption DEF CountsOK, May, TickFails, bounds
<1>2. TickOK'
  BY RestingTyped DEF TickOK, TickStates, TickFails, TickPhases, service
<1>3. QueueUnheld'
  BY DEF QueueUnheld, TickFails, Resting, tracker
<1>4. HandedOverStaysOut'
  BY DEF HandedOverStaysOut, TickFails, Resting, tracker
<1>5. IssuesOK' /\ JobsOK' /\ FlagOK' /\ RecvOK' /\ OwnersUsed' /\ LockHasRun'
  BY DEF IssuesOK, TickFails, tracker, JobsOK, service, clocks, history, FlagOK, RecvOK,
     RecvStates, OwnersUsed, LockHasRun
<1> QED BY <1>1, <1>2, <1>3, <1>4, <1>5

(* The commit is named by a job and stands on an issue. *)
LEMMA DeclarePreserves ==
  ASSUME IInv, NEW x \in Jobs, Declare(x)
  PROVE  IInv'
<1> USE DEF IInv
<1>1. IssuesOK'
  BY DEF IssuesOK, Declare, JobsOK, tracker
<1>2. JobsOK'
  BY DEF JobsOK, Declare, Verdicts, service, clocks, history
<1>3. CountsOK' /\ FlagOK' /\ TickOK' /\ RecvOK' /\ OwnersUsed' /\ LockHasRun' /\ QueueUnheld'
   /\ HandedOverStaysOut'
  BY DEF CountsOK, Declare, bounds, FlagOK, history, TickOK, TickStates, service, RecvOK,
     RecvStates, OwnersUsed, LockHasRun, tracker, QueueUnheld, HandedOverStaysOut
<1> QED BY <1>1, <1>2, <1>3

(* A job that ends keeps its issue. *)
LEMMA JobEndsPreserves ==
  ASSUME IInv, NEW x \in Jobs, JobEnds(x)
  PROVE  IInv'
<1> USE DEF IInv
<1>1. JobsOK'
  BY DEF JobsOK, JobEnds, service, clocks, history
<1>2. OwnersUsed'
  BY DEF OwnersUsed, JobEnds, service
<1>3. IssuesOK' /\ CountsOK' /\ FlagOK' /\ TickOK' /\ RecvOK' /\ LockHasRun' /\ QueueUnheld'
   /\ HandedOverStaysOut'
  BY DEF IssuesOK, JobEnds, tracker, CountsOK, bounds, FlagOK, history, TickOK, TickStates,
     service, RecvOK, RecvStates, LockHasRun, QueueUnheld, HandedOverStaysOut
<1> QED BY <1>1, <1>2, <1>3

(* A verdict is one of CI's. *)
LEMMA CiReportsPreserves ==
  ASSUME IInv, NEW x \in Jobs, CiReports(x)
  PROVE  IInv'
<1> USE DEF IInv
<1>1. JobsOK'
  BY DEF JobsOK, CiReports, Verdicts, service, clocks, history
<1>2. IssuesOK' /\ CountsOK' /\ FlagOK' /\ TickOK' /\ RecvOK' /\ OwnersUsed' /\ LockHasRun'
   /\ QueueUnheld' /\ HandedOverStaysOut'
  BY DEF IssuesOK, CiReports, tracker, CountsOK, bounds, FlagOK, history, TickOK, TickStates,
     service, RecvOK, RecvStates, OwnersUsed, LockHasRun, QueueUnheld, HandedOverStaysOut
<1> QED BY <1>1, <1>2

(* Only a clock moves. *)
LEMMA RunAgesPreserves ==
  ASSUME IInv, NEW x \in Jobs, RunAges(x)
  PROVE  IInv'
<1> USE DEF IInv
<1>1. JobsOK'
  BY DEF JobsOK, RunAges, service, clocks, history
<1>2. IssuesOK' /\ CountsOK' /\ FlagOK' /\ TickOK' /\ RecvOK' /\ OwnersUsed' /\ LockHasRun'
   /\ QueueUnheld' /\ HandedOverStaysOut'
  BY DEF IssuesOK, RunAges, tracker, CountsOK, bounds, FlagOK, history, TickOK, TickStates,
     service, RecvOK, RecvStates, OwnersUsed, LockHasRun, QueueUnheld, HandedOverStaysOut
<1> QED BY <1>1, <1>2

(* Only a clock moves. *)
LEMMA CommitAgesPreserves ==
  ASSUME IInv, NEW x \in Jobs, CommitAges(x)
  PROVE  IInv'
<1> USE DEF IInv
<1>1. JobsOK'
  BY DEF JobsOK, CommitAges, service, clocks, history
<1>2. IssuesOK' /\ CountsOK' /\ FlagOK' /\ TickOK' /\ RecvOK' /\ OwnersUsed' /\ LockHasRun'
   /\ QueueUnheld' /\ HandedOverStaysOut'
  BY DEF IssuesOK, CommitAges, tracker, CountsOK, bounds, FlagOK, history, TickOK,
     TickStates, service, RecvOK, RecvStates, OwnersUsed, LockHasRun, QueueUnheld,
     HandedOverStaysOut
<1> QED BY <1>1, <1>2

(* A job whose record is gone keeps its issue. *)
LEMMA RestartPreserves ==
  ASSUME IInv, Restart
  PROVE  IInv'
<1> USE DEF IInv
<1>1. JobsOK'
  BY DEF JobsOK, Restart, service, clocks, history
<1>2. CountsOK'
  BY LoopAssumption DEF CountsOK, May, Restart, bounds
<1>3. RecvOK'
  BY DEF RecvOK, RecvStates, Restart, Listening, service
<1>4. OwnersUsed'
  BY DEF OwnersUsed, Restart, JobsOK, service
<1>5. IssuesOK' /\ TickOK' /\ LockHasRun' /\ QueueUnheld' /\ HandedOverStaysOut'
  BY DEF IssuesOK, Restart, tracker, TickOK, TickStates, service,
     LockHasRun, QueueUnheld, HandedOverStaysOut
<1>6. FlagOK'
  BY DEF FlagOK, Restart, Disorders
<1> QED BY <1>1, <1>2, <1>3, <1>4, <1>5, <1>6

(* A job whose record is gone keeps its issue. *)
LEMMA ForgetPreserves ==
  ASSUME IInv, NEW x \in Jobs, Forget(x)
  PROVE  IInv'
<1> USE DEF IInv
<1>1. JobsOK'
  BY DEF JobsOK, Forget, service, clocks, history
<1>2. CountsOK'
  BY LoopAssumption DEF CountsOK, May, Forget, bounds
<1>3. OwnersUsed'
  BY DEF OwnersUsed, Forget, JobsOK, service
<1>4. IssuesOK' /\ FlagOK' /\ TickOK' /\ RecvOK' /\ LockHasRun' /\ QueueUnheld'
   /\ HandedOverStaysOut'
  BY DEF IssuesOK, Forget, tracker, FlagOK, history, TickOK, TickStates, service, RecvOK,
     RecvStates, LockHasRun, QueueUnheld, HandedOverStaysOut
<1> QED BY <1>1, <1>2, <1>3, <1>4

(* A person who labels what the drain is about to start is on record.       *)
LEMMA PersonRelabelsPreserves ==
  ASSUME IInv, NEW x \in Issues, PersonRelabels(x)
  PROVE  IInv'
<1> USE DEF IInv
<1>1. human' \subseteq human \cup {x} /\ disorder \subseteq disorder'
  BY DEF PersonRelabels
<1>2. x \in human' \ human /\ Queued(x) => "labelled" \in disorder'
  BY DEF PersonRelabels
<1>3. IssuesOK'
  BY DEF IssuesOK, PersonRelabels, tracker
<1>4. CountsOK'
  BY LoopAssumption DEF CountsOK, May, PersonRelabels, bounds
<1>5. tick' = tick
  BY DEF PersonRelabels
<1>6. QueueUnheld'
  BY <1>1, <1>2, <1>5 DEF QueueUnheld, Queued
<1>7. HandedOverStaysOut'
  BY <1>1, <1>2, <1>5 DEF HandedOverStaysOut, Queued
<1>8. FlagOK'
  BY DEF FlagOK, PersonRelabels, Disorders
<1>9. JobsOK' /\ TickOK' /\ RecvOK' /\ OwnersUsed' /\ LockHasRun'
  BY DEF JobsOK, PersonRelabels, service, clocks, history, TickOK, TickStates,
     RecvOK, RecvStates, OwnersUsed, LockHasRun, tracker
<1> QED BY <1>3, <1>4, <1>6, <1>7, <1>8, <1>9

(* A person changes neither labels nor jobs. *)
LEMMA PersonClosesPreserves ==
  ASSUME IInv, NEW x \in Issues, PersonCloses(x)
  PROVE  IInv'
<1> USE DEF IInv
<1>1. IssuesOK'
  BY DEF IssuesOK, PersonCloses, tracker
<1>2. CountsOK'
  BY LoopAssumption DEF CountsOK, May, PersonCloses, bounds
<1>3. JobsOK' /\ FlagOK' /\ TickOK' /\ RecvOK' /\ OwnersUsed' /\ LockHasRun' /\ QueueUnheld'
   /\ HandedOverStaysOut'
  BY DEF JobsOK, PersonCloses, service, clocks, history, FlagOK, TickOK, TickStates, RecvOK,
     RecvStates, OwnersUsed, LockHasRun, tracker, QueueUnheld, HandedOverStaysOut
<1> QED BY <1>1, <1>2, <1>3

(* A person changes neither labels nor jobs. *)
LEMMA PersonReopensPreserves ==
  ASSUME IInv, NEW x \in Issues, PersonReopens(x)
  PROVE  IInv'
<1> USE DEF IInv
<1>1. IssuesOK'
  BY DEF IssuesOK, PersonReopens, tracker
<1>2. JobsOK'
  BY DEF JobsOK, PersonReopens, service, clocks
<1>3. CountsOK'
  BY LoopAssumption DEF CountsOK, May, PersonReopens, bounds
<1>4. FlagOK'
  BY DEF FlagOK, PersonReopens, Disorders
<1>5. TickOK' /\ RecvOK' /\ OwnersUsed' /\ LockHasRun' /\ QueueUnheld' /\ HandedOverStaysOut'
  BY DEF PersonReopens, TickOK, TickStates, service, RecvOK, RecvStates,
     OwnersUsed, LockHasRun, tracker, QueueUnheld, HandedOverStaysOut
<1> QED BY <1>1, <1>2, <1>3, <1>4, <1>5

-----------------------------------------------------------------------------
(* Every step of the system, and the theorems. *)

(* A step that changes nothing. *)
LEMMA StutterPreserves ==
  ASSUME IInv, UNCHANGED vars
  PROVE  IInv'
<1> USE DEF vars, tracker, service, clocks, bounds, history
<1>1. IssuesOK' /\ JobsOK' /\ CountsOK' /\ FlagOK'
  BY DEF IInv, IssuesOK, JobsOK, CountsOK, FlagOK
<1>2. TickOK' /\ RecvOK'
  BY DEF IInv, TickOK, RecvOK
<1>3. OwnersUsed' /\ LockHasRun' /\ QueueUnheld' /\ HandedOverStaysOut'
  BY DEF IInv, OwnersUsed, LockHasRun, QueueUnheld, HandedOverStaysOut
<1> QED BY <1>1, <1>2, <1>3 DEF IInv

(* What the receiver, the tick, agents, CI, the clocks, people and mishaps do. *)
LEMMA StepPreserves == IInv /\ [Next]_vars => IInv'
<1> SUFFICES ASSUME IInv, [Next]_vars
             PROVE  IInv'
  OBVIOUS
<1>1. CASE Receiver
  BY <1>1, ReceiverSubmitsPreserves, ReceiverStampsPreserves, ReceiverRecordsPreserves DEF Receiver
<1>2. CASE Tick
  BY <1>2, ListReadyPreserves, ReadLockPreserves, DrainSubmitsPreserves, DrainStampsPreserves,
     DrainRecordsPreserves, ListHeldPreserves, ReadCommentsPreserves, ReadTurnPreserves,
     JudgePreserves, UnlockPreserves, ClosePreserves, HandOverPreserves, ResubmitPreserves,
     PersistPreserves DEF Tick
<1>3. CASE Environment
  <2>1. CASE \E i \in Issues : Receive(i)
    BY <2>1, ReceivePreserves
  <2>2. CASE ReceiverFails \/ TickFails \/ TurnUnknown \/ Restart
    BY <2>2, ReceiverFailsPreserves, TickFailsPreserves, TurnUnknownPreserves, RestartPreserves
  <2>3. CASE \E j \in Jobs : Declare(j) \/ JobEnds(j) \/ CiReports(j)
    BY <2>3, DeclarePreserves, JobEndsPreserves, CiReportsPreserves
  <2>4. CASE \E j \in Jobs : RunAges(j) \/ CommitAges(j) \/ Forget(j)
    BY <2>4, RunAgesPreserves, CommitAgesPreserves, ForgetPreserves
  <2>5. CASE \E i \in Issues : PersonRelabels(i) \/ PersonCloses(i) \/ PersonReopens(i)
    BY <2>5, PersonRelabelsPreserves, PersonClosesPreserves, PersonReopensPreserves
  <2> QED BY <1>3, <2>1, <2>2, <2>3, <2>4, <2>5 DEF Environment
<1>4. CASE UNCHANGED vars
  BY <1>4, StutterPreserves
<1> QED BY <1>1, <1>2, <1>3, <1>4 DEF Next

(* The invariant holds in every reachable state. *)
THEOREM LoopInvariant == Spec => []IInv
<1> QED BY InitEstablishes, StepPreserves, PTL DEF Spec

(* Every variable keeps its type: in particular the tick never comes to a   *)
(* place of its handlers without the issue, record and job it needs there,  *)
(* and the mishaps stay within their bound.                                 *)
THEOREM LoopTyped == Spec => []TypeOK
<1> QED BY LoopInvariant, InvariantTyped, PTL

(* No phantom lock: whichever calls fail and whoever crashes, an issue with *)
(* the in-progress label has had a job, so a tick that finds it has a run   *)
(* to follow or a dead one to give up.                                      *)
THEOREM LocksHaveRuns == Spec => []LockHasRun
<1>1. IInv => LockHasRun
  BY DEF IInv
<1> QED BY <1>1, LoopInvariant, PTL

(* The drain starts a run for an issue labelled for a human only where a    *)
(* person put that label on after the queue was listed: what the loop       *)
(* itself handed over, in this tick or in an earlier one, stays out.        *)
THEOREM HandedOverStaysOutOfQueue == Spec => []HandedOverStaysOut
<1>1. IInv => HandedOverStaysOut
  BY DEF IInv
<1> QED BY <1>1, LoopInvariant, PTL

-----------------------------------------------------------------------------
(* The second invariant: what holds in orderly histories, where no call has *)
(* failed and the two actors have kept out of each other's way.             *)

(* At most one issue is locked and open, and it was not when an actor read  *)
(* the lock as free.                                                        *)
ClaimInv ==
  /\ ~(Claiming(tick) /\ Claiming(recv))
  /\ Claiming(tick) \/ Claiming(recv) => Held = {}
  /\ \A i, k \in Held : i = k

(* The tick watches locked issues: nobody else takes the label off. *)
Watching == {"turn", "judge", "unlock", "resubmit", "persist"}
WatchInv ==
  /\ tick.pc \in Watching \cup {"record"} => tick.issue \in locked
  /\ tick.pc = "next" => tick.todo \subseteq locked
  /\ tick.pc \in Watching \cup {"close", "hand"} => tick.todo \ {tick.issue} \subseteq locked

(* A live job keeps its issue locked, or is about to be stamped; the footer *)
(* names it, or is about to.                                                *)
LockInv ==
  \A j \in Following :
    /\ \/ owner[j] \in locked
       \/ tick.pc = "stamp" /\ tick.job = j
       \/ recv.pc = "stamp" /\ recv.job = j
    /\ \/ footer[owner[j]].job = j
       \/ tick.pc \in {"stamp", "record", "persist"} /\ tick.job = j
       \/ recv.pc \in {"stamp", "record"} /\ recv.job = j

(* Nobody but these jobs runs while an actor is at these places. *)
RecvAlone ==
  /\ recv.pc = "submit" => Following = {}
  /\ recv.pc \in {"stamp", "record"} => Following \subseteq {recv.job}
TickAlone ==
  /\ tick.pc = "submit" => Following = {}
  /\ tick.pc = "stamp" => Following \subseteq {tick.job}
  /\ tick.issue \in open =>
       /\ tick.pc \in {"record", "persist"} => Following \subseteq {tick.job}
       /\ tick.pc \in {"turn", "judge", "unlock"} => Following \subseteq {tick.rec.job}
       /\ tick.pc = "judge" /\ tick.turn \in OverTurns => Following = {}
       /\ tick.pc = "resubmit" => Following = {}
TurnInv == tick.pc = "judge" => tick.turn # "unknown"

Places == ClaimInv /\ WatchInv /\ LockInv /\ RecvAlone /\ TickAlone /\ TurnInv

-----------------------------------------------------------------------------
(* What a step does to the jobs that are followed, and to the locks.        *)

(* Nothing, if it leaves jobs and issues alone. *)
LEMMA SameFollowing ==
  ASSUME UNCHANGED <<status, owner, open, abandoned>>
  PROVE  Following' = Following
BY DEF Following, Live

(* The issues that are locked and open change with these two only. *)
LEMMA SameHeld ==
  ASSUME UNCHANGED <<open, locked>>
  PROVE  Held' = Held
BY DEF Held

(* Followed are jobs, of open issues. *)
LEMMA FollowedOpen ==
  ASSUME JobsOK
  PROVE  \A j \in Following : j \in Jobs /\ owner[j] \in open /\ status[j] = "live"
BY DEF Following, Live

(* A new job is followed besides, if its issue is open. *)
LEMMA StartFollows ==
  ASSUME JobsOK, OwnersUsed, NEW i \in Issues, NEW j \in Unused, Start(i, j),
         UNCHANGED <<open, abandoned>>
  PROVE  /\ Following' \subseteq Following \cup {j}
         /\ i \notin open => Following' \subseteq Following
         /\ owner'[j] = i /\ j \notin Following
         /\ \A k \in Following : owner'[k] = owner[k]
<1>1. j \in Jobs /\ status[j] = "unused"
  BY DEF Unused
<1>2. /\ status' = [status EXCEPT ![j] = "live"] /\ owner' = [owner EXCEPT ![j] = i]
      /\ open' = open /\ abandoned' = abandoned
  BY DEF Start
<1>3. /\ \A k \in Jobs : k # j => status'[k] = status[k] /\ owner'[k] = owner[k]
      /\ owner'[j] = i
  BY <1>1, <1>2 DEF JobsOK
<1>4. j \notin Following
  BY <1>1 DEF Following, Live
<1>5. \A k \in Following' : k # j => k \in Following
  BY <1>2, <1>3 DEF Following, Live
<1>6. i \notin open => j \notin Following'
  BY <1>2, <1>3 DEF Following
<1>7. \A k \in Following : owner'[k] = owner[k]
  BY <1>3, <1>4 DEF Following, Live
<1> QED BY <1>3, <1>4, <1>5, <1>6, <1>7

(* A step that only ends jobs, closes issues or changes what neither actor  *)
(* keeps nor the lock is made of.                                           *)
LEMMA LessToFollow ==
  ASSUME Places, UNCHANGED <<tick, recv, locked, footer, owner>>, open' \subseteq open,
         Following' \subseteq Following
  PROVE  Places'
<1>1. Held' \subseteq Held
  BY DEF Held
<1>2. ClaimInv'
  BY <1>1 DEF Places, ClaimInv, Claiming
<1>3. WatchInv'
  BY DEF Places, WatchInv
<1>4. LockInv'
  BY DEF Places, LockInv
<1>5. RecvAlone' /\ TickAlone' /\ TurnInv'
  BY DEF Places, RecvAlone, TickAlone, TurnInv
<1> QED BY <1>2, <1>3, <1>4, <1>5 DEF Places

(* A tick that leaves its issue, or has not taken one yet, keeps nobody.    *)
LEMMA TickLeaves ==
  ASSUME Places, UNCHANGED recv, Following' \subseteq Following, Held' \subseteq Held,
         tick'.pc \in {"idle", "listed", "watch", "next", "close", "hand"}, WatchInv', LockInv'
  PROVE  Places'
<1>1. ClaimInv'
  BY DEF Places, ClaimInv, Claiming
<1>2. RecvAlone' /\ TickAlone' /\ TurnInv'
  BY DEF Places, RecvAlone, TickAlone, TurnInv
<1> QED BY <1>1, <1>2 DEF Places

-----------------------------------------------------------------------------
(* The places of the actors, one lemma per action: the handler. *)

(* Free means that nobody is followed, unless an actor is about to stamp.   *)
LEMMA FreeMeansNobody ==
  ASSUME IInv, Places, Held = {}, tick.pc # "stamp", recv.pc # "stamp"
  PROVE  Following = {}
BY FollowedOpen DEF IInv, Places, LockInv, Held

(* A delivery that finds the lock free finds nobody followed. *)
LEMMA ReceivePlaces ==
  ASSUME IInv, Places, NEW x \in Issues, Receive(x), Orderly'
  PROVE  Places'
<1>1. /\ UNCHANGED <<tick, locked, footer, owner, status, open, abandoned>> /\ recv.pc = "idle"
      /\ \/ recv' = recv
         \/ recv'.pc = "submit" /\ Held = {} /\ ~Claiming(tick)
  BY DEF Receive, tracker, service, Orderly, IInv, RecvOK, RecvStates
<1>2. Following' = Following /\ Held' = Held
  BY <1>1, SameFollowing, SameHeld
<1>3. recv'.pc = "submit" => Following' = {}
  BY <1>1, <1>2, FreeMeansNobody DEF Claiming
<1>4. ClaimInv'
  BY <1>1, <1>2 DEF Places, ClaimInv, Claiming
<1>5. WatchInv' /\ LockInv'
  BY <1>1, <1>2 DEF Places, WatchInv, LockInv
<1>6. RecvAlone' /\ TickAlone' /\ TurnInv'
  BY <1>1, <1>2, <1>3 DEF Places, RecvAlone, TickAlone, TurnInv
<1> QED BY <1>4, <1>5, <1>6 DEF Places

(* The job the handler starts is the only one. *)
LEMMA ReceiverSubmitsPlaces ==
  ASSUME IInv, Places, ReceiverSubmits
  PROVE  Places'
<1>1. PICK j \in Unused :
        Start(recv.issue, j) /\ recv' = [recv EXCEPT !.pc = "stamp", !.job = j]
  BY DEF ReceiverSubmits
<1>2. /\ UNCHANGED <<tick, locked, footer, open, abandoned>> /\ recv.pc = "submit"
      /\ recv'.pc = "stamp" /\ recv'.job = j /\ recv.issue \in Issues
  BY <1>1 DEF ReceiverSubmits, tracker, history, IInv, RecvOK, RecvStates
<1>3. Held' = Held /\ Held = {} /\ ~Claiming(tick) /\ Following = {}
  BY <1>2, SameHeld DEF Places, ClaimInv, Claiming, RecvAlone
<1>4. /\ Following' \subseteq {j} /\ (recv.issue \notin open => Following' = {})
      /\ owner'[j] = recv.issue
  BY <1>1, <1>2, <1>3, StartFollows DEF IInv
<1>5. ClaimInv'
  BY <1>2, <1>3 DEF ClaimInv, Claiming
<1>6. WatchInv' /\ LockInv' /\ RecvAlone' /\ TurnInv'
  BY <1>2, <1>4 DEF Places, WatchInv, LockInv, RecvAlone, TurnInv
<1>7. TickAlone'
  <2>1. tick.pc \in Watching \cup {"record"} => tick.issue \notin open
    BY <1>3 DEF Places, WatchInv, Held
  <2>2. tick.pc \notin {"submit", "stamp"}
    BY <1>3 DEF Claiming
  <2> QED BY <1>2, <2>1, <2>2 DEF TickAlone, Watching
<1> QED BY <1>5, <1>6, <1>7 DEF Places

(* Its label is the only one. *)
LEMMA ReceiverStampsPlaces ==
  ASSUME IInv, Places, ReceiverStamps
  PROVE  Places'
<1>1. /\ UNCHANGED <<tick, footer, owner, status, open, abandoned>> /\ recv.pc = "stamp"
      /\ recv'.pc = "record" /\ recv'.job = recv.job /\ locked' = locked \cup {recv.issue}
      /\ owner[recv.job] = recv.issue
  BY DEF ReceiverStamps, service, history, IInv, RecvOK, RecvStates
<1>2. Following' = Following
  BY <1>1, SameFollowing
<1>3. Held = {} /\ ~Claiming(tick) /\ Held' \subseteq {recv.issue}
  BY <1>1 DEF Places, ClaimInv, Claiming, Held
<1>4. ClaimInv'
  BY <1>1, <1>3 DEF ClaimInv, Claiming
<1>5. WatchInv' /\ LockInv' /\ RecvAlone' /\ TickAlone' /\ TurnInv'
  BY <1>1, <1>2 DEF Places, WatchInv, LockInv, RecvAlone, TickAlone, TurnInv
<1> QED BY <1>4, <1>5 DEF Places

(* Its footer names the job that is followed. *)
LEMMA ReceiverRecordsPlaces ==
  ASSUME IInv, Places, ReceiverRecords
  PROVE  Places'
<1>1. /\ UNCHANGED <<tick, locked, owner, status, open, abandoned>> /\ recv.pc = "record"
      /\ recv'.pc = "idle" /\ recv.issue \in Issues
      /\ footer' = [footer EXCEPT ![recv.issue] = FirstRecord(recv.job)]
      /\ owner[recv.job] = recv.issue
  BY DEF ReceiverRecords, service, history, IInv, RecvOK, RecvStates, Listening
<1>2. Following' = Following /\ Held' = Held
  BY <1>1, SameFollowing, SameHeld
<1>3. footer'[recv.issue].job = recv.job
  BY <1>1 DEF IInv, IssuesOK, FirstRecord
<1>4. LockInv'
  BY <1>1, <1>2, <1>3 DEF Places, LockInv, RecvAlone
<1>5. ClaimInv'
  BY <1>1, <1>2 DEF Places, ClaimInv, Claiming
<1>6. WatchInv' /\ RecvAlone' /\ TickAlone' /\ TurnInv'
  BY <1>1, <1>2 DEF Places, WatchInv, RecvAlone, TickAlone, TurnInv
<1> QED BY <1>4, <1>5, <1>6 DEF Places

-----------------------------------------------------------------------------
(* The tick. *)

(* Reading the queue touches no place. *)
LEMMA ListReadyPlaces ==
  ASSUME IInv, Places, ListReady
  PROVE  Places'
<1>1. /\ UNCHANGED <<recv, locked, footer, owner, status, open, abandoned>>
      /\ tick.pc = "idle" /\ tick'.pc = "listed"
  BY DEF ListReady, tracker, service, history, IInv, TickOK, TickStates
<1>2. Following' = Following /\ Held' = Held
  BY <1>1, SameFollowing, SameHeld
<1>3. WatchInv' /\ LockInv'
  BY <1>1, <1>2 DEF Places, WatchInv, Watching, LockInv
<1> QED BY <1>1, <1>2, <1>3, TickLeaves

(* A tick that finds the lock free finds nobody followed. *)
LEMMA ReadLockPlaces ==
  ASSUME IInv, Places, ReadLock, Orderly'
  PROVE  Places'
<1>1. /\ UNCHANGED <<recv, locked, footer, owner, status, open, abandoned>> /\ tick.pc = "listed"
      /\ \/ tick'.pc = "submit" /\ Held = {} /\ ~Claiming(recv)
         \/ tick'.pc = "watch"
  BY DEF ReadLock, tracker, service, Orderly, Resting
<1>2. Following' = Following /\ Held' = Held
  BY <1>1, SameFollowing, SameHeld
<1>3. WatchInv' /\ LockInv'
  BY <1>1, <1>2 DEF Places, WatchInv, Watching, LockInv
<1>4. CASE tick'.pc = "watch"
  BY <1>1, <1>2, <1>3, <1>4, TickLeaves
<1>5. CASE tick'.pc = "submit"
  <2>1. Following = {}
    BY <1>1, <1>5, FreeMeansNobody DEF Claiming
  <2>2. ClaimInv'
    BY <1>1, <1>2, <1>5 DEF Places, ClaimInv, Claiming
  <2>3. RecvAlone' /\ TickAlone' /\ TurnInv'
    BY <1>1, <1>2, <1>5, <2>1 DEF RecvAlone, TickAlone, TurnInv
  <2> QED BY <1>3, <2>2, <2>3 DEF Places
<1> QED BY <1>1, <1>4, <1>5

(* The job the drain starts is the only one. *)
LEMMA DrainSubmitsPlaces ==
  ASSUME IInv, Places, DrainSubmits
  PROVE  Places'
<1>1. PICK j \in Unused :
        Start(tick.issue, j) /\ tick' = [tick EXCEPT !.pc = "stamp", !.job = j]
  BY DEF DrainSubmits
<1>2. /\ UNCHANGED <<recv, locked, footer, open, abandoned>> /\ tick.pc = "submit"
      /\ tick'.pc = "stamp" /\ tick'.job = j /\ tick.issue \in Issues /\ recv.pc = "idle"
  BY <1>1 DEF DrainSubmits, ServiceAnswers, tracker, history, IInv, TickOK, TickStates
<1>3. Held' = Held /\ Held = {} /\ ~Claiming(recv) /\ Following = {}
  BY <1>2, SameHeld DEF Places, ClaimInv, Claiming, TickAlone
<1>4. Following' \subseteq {j}
  BY <1>1, <1>2, <1>3, StartFollows DEF IInv
<1>5. ClaimInv'
  BY <1>2, <1>3 DEF ClaimInv, Claiming
<1>6. WatchInv' /\ LockInv' /\ RecvAlone' /\ TickAlone' /\ TurnInv'
  BY <1>2, <1>4 DEF WatchInv, Watching, LockInv, RecvAlone, TickAlone, TurnInv
<1> QED BY <1>5, <1>6 DEF Places

(* Its label is the only one. *)
LEMMA DrainStampsPlaces ==
  ASSUME IInv, Places, DrainStamps
  PROVE  Places'
<1>1. /\ UNCHANGED <<recv, footer, owner, status, open, abandoned>> /\ tick.pc = "stamp"
      /\ tick'.pc = "record" /\ tick'.job = tick.job /\ tick'.issue = tick.issue
      /\ locked' = locked \cup {tick.issue} /\ owner[tick.job] = tick.issue
  BY DEF DrainStamps, service, history, IInv, TickOK, TickStates
<1>2. Following' = Following
  BY <1>1, SameFollowing
<1>3. Held = {} /\ ~Claiming(recv) /\ Held' \subseteq {tick.issue}
  BY <1>1 DEF Places, ClaimInv, Claiming, Held
<1>4. ClaimInv'
  BY <1>1, <1>3 DEF ClaimInv, Claiming
<1>5. WatchInv' /\ LockInv' /\ RecvAlone' /\ TickAlone' /\ TurnInv'
  BY <1>1, <1>2 DEF Places, WatchInv, Watching, LockInv, RecvAlone, TickAlone, TurnInv
<1> QED BY <1>4, <1>5 DEF Places

(* Its footer names the job that is followed. *)
LEMMA DrainRecordsPlaces ==
  ASSUME IInv, Places, DrainRecords
  PROVE  Places'
<1>1. /\ UNCHANGED <<recv, locked, owner, status, open, abandoned>> /\ tick.pc = "record"
      /\ tick'.pc = "watch" /\ tick.issue \in Issues
      /\ footer' = [footer EXCEPT ![tick.issue] = FirstRecord(tick.job)]
  BY DEF DrainRecords, service, history, IInv, TickOK, TickStates, Resting
<1>2. Following' = Following /\ Held' = Held
  BY <1>1, SameFollowing, SameHeld
<1>3. /\ footer'[tick.issue].job = tick.job
      /\ \A i \in Issues : i # tick.issue => footer'[i] = footer[i]
  BY <1>1 DEF IInv, IssuesOK, FirstRecord
<1>4. \A j \in Following : owner[j] \in Issues /\ (owner[j] = tick.issue => j = tick.job)
  BY <1>1, FollowedOpen DEF IInv, IssuesOK, Places, TickAlone
<1>5. \A j \in Following : j = tick.job => owner[j] = tick.issue
  BY <1>1 DEF IInv, TickOK
<1>6. LockInv'
  BY <1>1, <1>2, <1>3, <1>4, <1>5 DEF Places, LockInv
<1>7. WatchInv'
  BY <1>1 DEF WatchInv, Watching
<1> QED BY <1>1, <1>2, <1>6, <1>7, TickLeaves

(* The issues to watch are locked. *)
LEMMA ListHeldPlaces ==
  ASSUME IInv, Places, ListHeld
  PROVE  Places'
<1>1. /\ UNCHANGED <<recv, locked, footer, owner, status, open, abandoned>> /\ tick.pc = "watch"
      /\ tick'.pc \in {"idle", "next"} /\ tick'.todo \subseteq Held
  BY DEF ListHeld, tracker, service, history, Resting
<1>2. Following' = Following /\ Held' = Held
  BY <1>1, SameFollowing, SameHeld
<1>3. WatchInv' /\ LockInv'
  BY <1>1, <1>2 DEF Places, WatchInv, Watching, LockInv, Held
<1> QED BY <1>1, <1>2, <1>3, TickLeaves

(* The issue looked at is the locked one, if it is still open, so its       *)
(* footer names the only job that may be followed.                          *)
LEMMA ReadCommentsPlaces ==
  ASSUME IInv, Places, ReadComments, Orderly'
  PROVE  Places'
<1>1. PICK i \in tick.todo :
        /\ tick' = [tick EXCEPT !.issue = i, !.rec = footer[i], !.commit = marker[i],
                      !.pc = IF footer[i] = NoRecord THEN "unlock" ELSE "turn",
                      !.action = IF footer[i] = NoRecord THEN "orphan" ELSE "wait",
                      !.elapsed = IF footer[i].start \in late THEN CloseDeferMaxSeconds ELSE 0,
                      !.sincePush = IF marker[i] = None THEN NotKnown
                                    ELSE IF marker[i] \in overdue THEN CiVerdictMaxSeconds ELSE 0]
        /\ disorder' = disorder \cup (IF recv.pc = "record" /\ recv.issue = i THEN {"overlap"} ELSE {})
  BY DEF ReadComments
<1>2. /\ UNCHANGED <<recv, locked, footer, owner, status, open, abandoned>> /\ tick.pc = "next"
      /\ tick'.pc \in {"turn", "unlock"} /\ tick'.issue = i /\ tick'.rec = footer[i]
      /\ tick'.todo = tick.todo
  BY <1>1 DEF ReadComments, tracker, service, IInv, TickOK, TickStates
<1>3. ~(recv.pc = "record" /\ recv.issue = i) /\ i \in locked
  BY <1>1, <1>2 DEF Orderly, Places, WatchInv
<1>4. Following' = Following /\ Held' = Held
  BY <1>2, SameFollowing, SameHeld
<1>5. i \in open => Following \subseteq {footer[i].job}
  <2> SUFFICES ASSUME i \in open, NEW j \in Following
               PROVE  footer[i].job = j
    OBVIOUS
  <2>1. recv.pc # "stamp" /\ i \in Held
    BY <1>3 DEF Places, ClaimInv, Claiming, Held
  <2>2. owner[j] \in Held
    BY <1>2, <2>1, FollowedOpen DEF IInv, Places, LockInv, Held
  <2>3. owner[j] = i
    BY <2>1, <2>2 DEF Places, ClaimInv
  <2> QED BY <1>2, <1>3, <2>1, <2>3 DEF Places, LockInv, IInv, RecvOK
<1>6. ClaimInv' /\ WatchInv' /\ LockInv'
  BY <1>2, <1>3, <1>4 DEF Places, ClaimInv, Claiming, WatchInv, Watching, LockInv
<1>7. RecvAlone' /\ TickAlone' /\ TurnInv'
  BY <1>2, <1>4, <1>5 DEF Places, RecvAlone, TickAlone, TurnInv
<1> QED BY <1>6, <1>7 DEF Places

(* An ended turn was the only one. *)
LEMMA ReadTurnPlaces ==
  ASSUME IInv, Places, ReadTurn
  PROVE  Places'
<1>1. PICK turn \in TurnsOf(tick.rec.job) : tick' = [tick EXCEPT !.pc = "judge", !.turn = turn]
  BY DEF ReadTurn
<1>2. /\ UNCHANGED <<recv, locked, footer, owner, status, open, abandoned>> /\ tick.pc = "turn"
      /\ tick'.pc = "judge" /\ tick'.issue = tick.issue /\ tick'.rec = tick.rec
      /\ tick'.todo = tick.todo /\ tick'.turn = turn
  BY <1>1 DEF ReadTurn, tracker, service, history, IInv, TickOK, TickStates
<1>3. turn # "unknown" /\ (turn \in OverTurns => status[tick.rec.job] # "live")
  BY <1>1 DEF TurnsOf, OverTurns, TerminalTurns
<1>4. Following' = Following /\ Held' = Held
  BY <1>2, SameFollowing, SameHeld
<1>5. tick.issue \in open => Following \subseteq {tick.rec.job}
  BY <1>2 DEF Places, TickAlone
<1>6. tick.issue \in open /\ turn \in OverTurns => Following = {}
  BY <1>3, <1>5, FollowedOpen DEF IInv
<1>7. ClaimInv' /\ WatchInv' /\ LockInv'
  BY <1>2, <1>4 DEF Places, ClaimInv, Claiming, WatchInv, Watching, LockInv
<1>8. RecvAlone' /\ TickAlone' /\ TurnInv'
  BY <1>2, <1>3, <1>4, <1>5, <1>6 DEF Places, RecvAlone, TickAlone, TurnInv
<1> QED BY <1>7, <1>8 DEF Places

(* Another turn is asked for only when the run's own has ended; so it is    *)
(* alone, as the one to be released is.                                     *)
LEMMA JudgePlaces ==
  ASSUME IInv, Places, Judge
  PROVE  Places'
<1> DEFINE action == NextAction(RunState)
<1>1. /\ UNCHANGED <<recv, locked, footer, owner, status, open, abandoned>> /\ tick.pc = "judge"
      /\ tick \in TickStates /\ tick.turn \in Turns \ {"unknown"}
  BY DEF Judge, tracker, service, history, IInv, TickOK, TickStates, Places, TurnInv
<1>2. Following' = Following /\ Held' = Held
  BY <1>1, SameFollowing, SameHeld
<1>3. CASE action = "wait"
  <2>1. tick' = Done
    BY <1>3 DEF Judge
  <2>2. tick'.pc \in {"idle", "next"} /\ tick'.todo \subseteq tick.todo \ {tick.issue}
    BY <2>1 DEF Done, Rest, Resting
  <2>3. WatchInv' /\ LockInv'
    BY <1>1, <1>2, <2>2 DEF Places, WatchInv, Watching, LockInv
  <2> QED BY <1>1, <1>2, <2>2, <2>3, TickLeaves
<1>4. CASE action # "wait"
  <2>1. PICK pc \in {"resubmit", "unlock"} :
          /\ tick' = [tick EXCEPT !.pc = pc, !.action = action, !.turn = "unknown",
                        !.elapsed = 0, !.sincePush = NotKnown]
          /\ pc = "resubmit" => action \in {"fix_forward", "redispatch"}
    BY <1>4 DEF Judge
  <2> HIDE DEF action
  <2>2. /\ tick'.pc = pc /\ tick'.issue = tick.issue /\ tick'.rec = tick.rec /\ tick'.todo = tick.todo
    BY <1>1, <2>1 DEF TickStates
  <2>3. pc = "resubmit" => tick.turn \in OverTurns
    <3>1. RunState \in RunStates /\ RunState.turn = tick.turn
      BY <1>1, RunStateTyped DEF IInv, RunState
    <3>2. action \in {"fix_forward", "redispatch"} => tick.turn # "running"
      BY <3>1, NoTurnBesideLiveOne DEF action
    <3> QED BY <1>1, <2>1, <3>2 DEF OverTurns, TerminalTurns, Turns
  <2>4. ClaimInv' /\ WatchInv' /\ LockInv'
    BY <1>1, <1>2, <2>2 DEF Places, ClaimInv, Claiming, WatchInv, Watching, LockInv
  <2>5. RecvAlone' /\ TickAlone' /\ TurnInv'
    BY <1>1, <1>2, <2>2, <2>3 DEF Places, RecvAlone, TickAlone, TurnInv
  <2> QED BY <2>4, <2>5 DEF Places
<1> QED BY <1>3, <1>4

(* Where the lock goes, nobody is left to be followed. *)
LEMMA UnlockPlaces ==
  ASSUME IInv, Places, Unlock
  PROVE  Places'
<1>1. /\ UNCHANGED <<recv, footer, owner, status, open>> /\ tick.pc = "unlock"
      /\ tick'.pc \in {"close", "hand"} /\ tick'.issue = tick.issue /\ tick'.todo = tick.todo
      /\ locked' = locked \ {tick.issue} /\ abandoned' = abandoned \cup (Live \cap {tick.rec.job})
  BY DEF Unlock, service, history, IInv, TickOK, TickStates
<1>2. /\ Following' \subseteq Following /\ Held' \subseteq Held
      /\ tick.rec.job \notin Following'
  BY <1>1 DEF Following, Live, Held
<1>3. \A j \in Following' : owner[j] # tick.issue
  BY <1>1, <1>2, FollowedOpen DEF IInv, Places, TickAlone
<1>4. WatchInv'
  BY <1>1 DEF Places, WatchInv, Watching
<1>5. LockInv'
  BY <1>1, <1>2, <1>3 DEF Places, LockInv
<1> QED BY <1>1, <1>2, <1>4, <1>5, TickLeaves

(* What is left of the tick's list is still locked. *)
LEMMA DoneWatches ==
  ASSUME Places, tick.pc \in Watching \cup {"close", "hand"}, tick' = Done, UNCHANGED locked
  PROVE  tick'.pc \in {"idle", "next"} /\ WatchInv'
<1>1. tick'.pc \in {"idle", "next"} /\ tick'.todo \subseteq tick.todo \ {tick.issue}
  BY DEF Done, Rest, Resting
<1> QED BY <1>1 DEF Places, WatchInv, Watching

(* Closing takes an issue out of sight, and its jobs. *)
LEMMA ClosePlaces ==
  ASSUME IInv, Places, Close
  PROVE  Places'
<1>1. /\ UNCHANGED <<recv, locked, footer, owner, status, abandoned>> /\ tick.pc = "close"
      /\ tick' = Done /\ open' = open \ {tick.issue}
  BY DEF Close, service, history
<1>2. Following' \subseteq Following /\ Held' \subseteq Held
  BY <1>1 DEF Following, Live, Held
<1>3. tick'.pc \in {"idle", "next"} /\ WatchInv'
  BY <1>1, DoneWatches
<1>4. LockInv'
  BY <1>1, <1>2, <1>3 DEF Places, LockInv
<1> QED BY <1>1, <1>2, <1>3, <1>4, TickLeaves

(* The human label is none of the places. *)
LEMMA HandOverPlaces ==
  ASSUME IInv, Places, HandOver
  PROVE  Places'
<1>1. /\ UNCHANGED <<recv, locked, footer, owner, status, open, abandoned>> /\ tick.pc = "hand"
      /\ tick' = Done
  BY DEF HandOver, service, history
<1>2. Following' = Following /\ Held' = Held
  BY <1>1, SameFollowing, SameHeld
<1>3. tick'.pc \in {"idle", "next"} /\ WatchInv'
  BY <1>1, DoneWatches
<1>4. LockInv'
  BY <1>1, <1>2, <1>3 DEF Places, LockInv
<1> QED BY <1>1, <1>2, <1>3, <1>4, TickLeaves

(* A further job joins nobody: the run's own had ended. *)
LEMMA ResubmitPlaces ==
  ASSUME IInv, Places, Resubmit
  PROVE  Places'
<1>1. PICK j \in Unused :
        Start(tick.issue, j) /\ tick' = [tick EXCEPT !.pc = "persist", !.job = j]
  BY DEF Resubmit
<1>2. /\ UNCHANGED <<recv, locked, footer, open, abandoned>> /\ tick.pc = "resubmit"
      /\ tick'.pc = "persist" /\ tick'.job = j /\ tick'.issue = tick.issue /\ tick'.todo = tick.todo
      /\ tick.issue \in Issues /\ recv.pc = "idle"
  BY <1>1 DEF Resubmit, ServiceAnswers, tracker, history, IInv, TickOK, TickStates
<1>3. Held' = Held /\ tick.issue \in locked
  BY <1>2, SameHeld DEF Places, WatchInv, Watching
<1>4. /\ Following' \subseteq Following \cup {j}
      /\ tick.issue \notin open => Following' \subseteq Following
      /\ owner'[j] = tick.issue /\ \A k \in Following : owner'[k] = owner[k]
  BY <1>1, <1>2, StartFollows DEF IInv
<1>5. tick.issue \in open => Following = {}
  BY <1>2 DEF Places, TickAlone
<1>6. ClaimInv' /\ WatchInv'
  BY <1>2, <1>3 DEF Places, ClaimInv, Claiming, WatchInv, Watching
<1>7. LockInv'
  BY <1>2, <1>3, <1>4 DEF Places, LockInv
<1>8. RecvAlone' /\ TickAlone' /\ TurnInv'
  BY <1>2, <1>4, <1>5 DEF RecvAlone, TickAlone, TurnInv
<1> QED BY <1>6, <1>7, <1>8 DEF Places

(* The footer names it next. *)
LEMMA PersistPlaces ==
  ASSUME IInv, Places, Persist
  PROVE  Places'
<1>1. /\ UNCHANGED <<recv, locked, owner, status, open, abandoned>> /\ tick.pc = "persist"
      /\ tick' = Done /\ tick.issue \in Issues /\ tick.rec \in RunRecords
      /\ \A i \in Issues : i # tick.issue => footer'[i] = footer[i]
  BY DEF Persist, service, history, IInv, IssuesOK, TickOK
<1>2. footer'[tick.issue].job = tick.job
  BY <1>1 DEF Persist, IInv, IssuesOK, RunRecords
<1>3. Following' = Following /\ Held' = Held
  BY <1>1, SameFollowing, SameHeld
<1>4. tick'.pc \in {"idle", "next"} /\ WatchInv'
  BY <1>1, DoneWatches DEF Watching
<1>5. \A j \in Following : owner[j] \in Issues /\ (owner[j] = tick.issue => j = tick.job)
  BY <1>1, FollowedOpen DEF IInv, IssuesOK, Places, TickAlone
<1>6. \A j \in Following : j = tick.job => owner[j] = tick.issue
  BY <1>1 DEF IInv, TickOK
<1>7. LockInv'
  BY <1>1, <1>2, <1>3, <1>5, <1>6 DEF Places, LockInv
<1> QED BY <1>1, <1>3, <1>4, <1>7, TickLeaves

-----------------------------------------------------------------------------
(* Agents, CI, the pod and people. *)

(* A job that ends is followed no more. *)
LEMMA JobEndsPlaces ==
  ASSUME IInv, Places, NEW x \in Jobs, JobEnds(x)
  PROVE  Places'
<1>1. /\ UNCHANGED <<tick, recv, locked, footer, owner, open>>
      /\ status' = [status EXCEPT ![x] = "ended"] /\ abandoned' = abandoned \ {x}
  BY DEF JobEnds, tracker
<1>2. Following' \subseteq Following
  BY <1>1 DEF Following, Live, IInv, JobsOK
<1> QED BY <1>1, <1>2, LessToFollow

(* Forgetting an ended job changes nothing that is followed. *)
LEMMA ForgetPlaces ==
  ASSUME IInv, Places, NEW x \in Jobs, Forget(x)
  PROVE  Places'
<1>1. /\ UNCHANGED <<tick, recv, locked, footer, owner, open, abandoned>>
      /\ status' = [status EXCEPT ![x] = "gone"]
  BY DEF Forget, tracker, history
<1>2. Following' \subseteq Following
  BY <1>1 DEF Following, Live, IInv, JobsOK
<1> QED BY <1>1, <1>2, LessToFollow

(* A new pod has no live jobs. *)
LEMMA RestartPlaces ==
  ASSUME IInv, Places, Restart
  PROVE  Places'
<1>1. /\ UNCHANGED <<tick, locked, footer, owner, open>> /\ recv'.pc = "idle"
      /\ status' = [j \in Jobs |-> IF status[j] = "unused" THEN "unused" ELSE "gone"]
  BY DEF Restart, tracker, Listening
<1>2. Following' = {}
  BY <1>1 DEF Following, Live
<1>3. Held' = Held
  BY <1>1, SameHeld
<1>4. ClaimInv' /\ WatchInv' /\ LockInv'
  BY <1>1, <1>2, <1>3 DEF Places, ClaimInv, Claiming, WatchInv, LockInv
<1>5. RecvAlone' /\ TickAlone' /\ TurnInv'
  BY <1>1, <1>2 DEF Places, RecvAlone, TickAlone, TurnInv
<1> QED BY <1>4, <1>5 DEF Places

(* A person who closes an issue takes it out of sight, and its jobs. *)
LEMMA PersonClosesPlaces ==
  ASSUME IInv, Places, NEW x \in Issues, PersonCloses(x)
  PROVE  Places'
<1>1. /\ UNCHANGED <<tick, recv, locked, footer, owner, status, abandoned>> /\ open' \subseteq open
  BY DEF PersonCloses, service, history
<1>2. Following' \subseteq Following
  BY <1>1 DEF Following, Live
<1> QED BY <1>1, <1>2, LessToFollow

(* An issue that comes back is neither locked nor followed, and the tick is *)
(* not at work on it.                                                       *)
LEMMA PersonReopensPlaces ==
  ASSUME IInv, Places, NEW x \in Issues, PersonReopens(x), Orderly'
  PROVE  Places'
<1>1. /\ UNCHANGED <<tick, recv, locked, footer, owner, status, abandoned>>
      /\ open' = open \cup {x} /\ x \notin locked
      /\ \A j \in Live \ abandoned : owner[j] # x
  BY DEF PersonReopens, service, Orderly
<1>2. Following' = Following
  BY <1>1 DEF Following, Live
<1>3. Held' = Held
  BY <1>1 DEF Held
<1>4. ClaimInv' /\ WatchInv' /\ LockInv'
  BY <1>1, <1>2, <1>3 DEF Places, ClaimInv, Claiming, WatchInv, LockInv
<1>5. tick.pc \in Watching \cup {"record"} => (tick.issue \in open' <=> tick.issue \in open)
  BY <1>1 DEF Places, WatchInv
<1>6. RecvAlone' /\ TickAlone' /\ TurnInv'
  BY <1>1, <1>2, <1>5 DEF Places, RecvAlone, TickAlone, TurnInv, Watching
<1> QED BY <1>4, <1>6 DEF Places

(* Marks, clocks, verdicts and the human label are none of the places. *)
LEMMA OthersPlaces ==
  ASSUME IInv, Places, UNCHANGED <<tick, recv, open, locked, footer, service, abandoned>>
  PROVE  Places'
<1>1. Following' = Following
  BY SameFollowing DEF service
<1> QED BY <1>1, LessToFollow DEF service

-----------------------------------------------------------------------------
(* Every step. *)

(* Faults are not forgotten, nor what may spoil the lock. *)
LEMMA OrderlyBefore ==
  ASSUME IInv, [Next]_vars, Orderly'
  PROVE  Orderly /\ faults' = faults
<1>1. faults \in Nat /\ (faults' = faults \/ faults' = faults + 1) /\ disorder \ {"labelled"} \subseteq disorder'
  <2>1. CASE Receiver \/ Tick
    <3>1. faults' = faults /\ disorder \ {"labelled"} \subseteq disorder'
      BY <2>1 DEF Receiver, Tick, ReceiverSubmits, ReceiverStamps, ReceiverRecords, ListReady,
         ReadLock, DrainSubmits, DrainStamps, DrainRecords, ListHeld, ReadComments, ReadTurn,
         Judge, Unlock, Close, HandOver, Resubmit, Persist, bounds, history
    <3> QED BY <3>1 DEF IInv, CountsOK
  <2>2. CASE Environment
    <3>1. /\ faults' = faults \/ faults' = faults + 1
          /\ disorder \ {"labelled"} \subseteq disorder'
      BY <2>2 DEF Environment, Receive, ReceiverFails, TickFails, TurnUnknown, Restart, Declare,
         JobEnds, CiReports, RunAges, CommitAges, Forget, PersonRelabels, PersonCloses,
         PersonReopens, bounds, history
    <3> QED BY <3>1 DEF IInv, CountsOK
  <2>3. CASE UNCHANGED vars
    BY <2>3 DEF vars, bounds, history, IInv, CountsOK
  <2> QED BY <2>1, <2>2, <2>3 DEF Next
<1> QED BY <1>1 DEF Orderly

(* Every step of an orderly history keeps the places. *)
LEMMA StepPlaces ==
  ASSUME IInv, Places, [Next]_vars, Orderly'
  PROVE  Places'
<1>1. faults' = faults /\ faults \in Nat
  BY OrderlyBefore DEF IInv, CountsOK
<1>2. CASE Receiver
  BY <1>2, ReceiverSubmitsPlaces, ReceiverStampsPlaces, ReceiverRecordsPlaces DEF Receiver
<1>3. CASE Tick
  BY <1>3, ListReadyPlaces, ReadLockPlaces, DrainSubmitsPlaces, DrainStampsPlaces,
     DrainRecordsPlaces, ListHeldPlaces, ReadCommentsPlaces, ReadTurnPlaces, JudgePlaces,
     UnlockPlaces, ClosePlaces, HandOverPlaces, ResubmitPlaces, PersistPlaces DEF Tick
<1>4. CASE Environment
  <2>1. CASE \E i \in Issues : Receive(i)
    BY <2>1, ReceivePlaces
  <2>2. ~(ReceiverFails \/ TickFails \/ TurnUnknown)
    BY <1>1 DEF ReceiverFails, TickFails, TurnUnknown
  <2>3. CASE Restart
    BY <2>3, RestartPlaces
  <2>4. CASE \E j \in Jobs : JobEnds(j) \/ Forget(j)
    BY <2>4, JobEndsPlaces, ForgetPlaces
  <2>5. CASE \E j \in Jobs : Declare(j) \/ CiReports(j) \/ RunAges(j) \/ CommitAges(j)
    BY <2>5, OthersPlaces DEF Declare, CiReports, RunAges, CommitAges, tracker, history
  <2>6. CASE \E i \in Issues : PersonRelabels(i)
    BY <2>6, OthersPlaces DEF PersonRelabels, history
  <2>7. CASE \E i \in Issues : PersonCloses(i) \/ PersonReopens(i)
    BY <2>7, PersonClosesPlaces, PersonReopensPlaces
  <2> QED BY <1>4, <2>1, <2>2, <2>3, <2>4, <2>5, <2>6, <2>7 DEF Environment
<1>5. CASE UNCHANGED vars
  BY <1>5, OthersPlaces DEF vars, tracker, history
<1> QED BY <1>2, <1>3, <1>4, <1>5 DEF Next

(* Nobody is followed or at work at first. *)
LEMMA InitPlaces == Init => Places
<1> SUFFICES ASSUME Init
             PROVE  Places
  OBVIOUS
<1>1. /\ tick.pc = "idle" /\ recv.pc = "idle" /\ locked = {}
      /\ Following = {}
  BY DEF Init, Resting, Listening, Following, Live
<1>2. Held = {}
  BY <1>1 DEF Held
<1>3. ClaimInv /\ WatchInv /\ LockInv
  BY <1>1, <1>2 DEF ClaimInv, Claiming, WatchInv, Watching, LockInv
<1>4. RecvAlone /\ TickAlone /\ TurnInv
  BY <1>1 DEF RecvAlone, TickAlone, TurnInv
<1> QED BY <1>3, <1>4 DEF Places

(* The invariant of StepPlaces, in any history. *)
Calm == Orderly => Places

(* The actors are at these places in every orderly history. *)
THEOREM CalmInvariant == Spec => []Calm
<1>1. Init => Calm
  BY InitPlaces DEF Calm
<1>2. IInv /\ Calm /\ [Next]_vars => Calm'
  BY OrderlyBefore, StepPlaces DEF Calm
<1> QED BY <1>1, <1>2, LoopInvariant, PTL DEF Spec

(* Two followed jobs are one: an actor that is about to stamp keeps nobody  *)
(* but its own job; else both issues are locked and open, so the same, and  *)
(* its footer names both jobs, or the actor at work on it knows of one.     *)
LEMMA OneFollowed ==
  ASSUME IInv, Places
  PROVE  \A j, k \in Following : j = k
<1> SUFFICES ASSUME NEW j \in Following, NEW k \in Following
             PROVE  j = k
  OBVIOUS
<1>1. CASE recv.pc \in {"stamp", "record"}
  BY <1>1 DEF Places, RecvAlone
<1>2. CASE tick.pc = "stamp"
  BY <1>2 DEF Places, TickAlone
<1>3. CASE recv.pc \notin {"stamp", "record"} /\ tick.pc # "stamp"
  <2>1. owner[j] = owner[k] /\ owner[j] \in open
    BY <1>3, FollowedOpen DEF IInv, Places, LockInv, ClaimInv, Held
  <2>2. CASE tick.pc \in {"record", "persist"} /\ tick.issue = owner[j]
    BY <2>1, <2>2 DEF Places, TickAlone
  <2>3. CASE ~(tick.pc \in {"record", "persist"} /\ tick.issue = owner[j])
    <3>1. footer[owner[j]].job = j /\ footer[owner[k]].job = k
      BY <1>3, <2>1, <2>3 DEF Places, LockInv, IInv, TickOK
    <3> QED BY <2>1, <3>1
  <2> QED BY <2>2, <2>3
<1> QED BY <1>1, <1>2, <1>3

(* The lock keeps the repository to one run, for every number of issues,    *)
(* jobs and mishaps, unless a call fails, a dispatch of one actor overlaps  *)
(* one of the other (or the other's look at the same issue), or a person    *)
(* reopens an issue whose lock or live run its closing had hidden: restarts *)
(* of the service, lost records, CI, the clocks and every other hand on an  *)
(* issue do no harm.                                                        *)
THEOREM LockKeepsOneRun == Spec => []SecondRunExplained
<1>1. IInv /\ Calm => SecondRunExplained
  <2> SUFFICES ASSUME IInv, Calm, Orderly
               PROVE  OneRunPerRepo
    BY DEF SecondRunExplained
  <2> USE DEF OneRunPerRepo
  <2>1. CASE Following = {}
    BY <2>1, FS_EmptySet
  <2>2. CASE Following # {}
    <3>1. PICK j \in Following : TRUE
      BY <2>2
    <3>2. Following = {j}
      BY <3>1, OneFollowed DEF Calm
    <3> QED BY <3>2, FS_Singleton
  <2> QED BY <2>1, <2>2
<1> QED BY <1>1, LoopInvariant, CalmInvariant, PTL

(* What the tick's and the comments' numbers refer to: jobs of their issue. *)
OwnedInv ==
  /\ \A i \in Issues : marker[i] # None => owner[marker[i]] = i
  /\ \A i \in Issues : footer[i] # NoRecord => owner[footer[i].start] = i
  /\ tick.pc \in {"turn", "judge", "unlock"} /\ tick.commit # None => owner[tick.commit] = tick.issue
  /\ tick.pc \in {"turn", "judge", "resubmit", "persist"} => owner[tick.rec.start] = tick.issue

(* An old run is one whose clock has passed. *)
LateInv ==
  tick.pc \in {"turn", "judge"} /\ tick.elapsed >= CloseDeferMaxSeconds => tick.rec.start \in late

(* A further job is within its budget. *)
BudgetInv ==
  tick.pc \in {"resubmit", "persist"} =>
    \/ tick.action = "fix_forward" /\ tick.rec.fixes < FixForwardMaxAttempts
    \/ tick.action = "redispatch" /\ tick.rec.redispatches < MaxRedispatchAttempts

(* Jobs start in the order of their numbers. *)
OrderInv == \A j, k \in Jobs : status[j] # "unused" /\ status[k] = "unused" => j < k

Kept == OwnedInv /\ LateInv /\ BudgetInv /\ OrderInv

-----------------------------------------------------------------------------
(* What is kept in every history, orderly or not. *)

(* No action but those that start a job changes whose it is. *)
LEMMA StartsOrNot ==
  ASSUME IInv, [Next]_vars
  PROVE  \/ \E i \in Issues, j \in Unused : Start(i, j)
         \/ /\ owner' = owner
            /\ \A j \in Jobs : status'[j] = "unused" <=> status[j] = "unused"
<1>1. CASE Receiver
  BY <1>1 DEF Receiver, ReceiverSubmits, ReceiverStamps, ReceiverRecords, service, IInv, RecvOK
<1>2. CASE Tick
  <2>1. CASE DrainSubmits \/ Resubmit
    BY <2>1 DEF DrainSubmits, Resubmit, IInv, TickOK
  <2>2. CASE ~(DrainSubmits \/ Resubmit)
    BY <1>2, <2>2 DEF Tick, ListReady, ReadLock, DrainStamps, DrainRecords, ListHeld, ReadComments,
       ReadTurn, Judge, Unlock, Close, HandOver, Persist, service
  <2> QED BY <2>1, <2>2
<1>3. CASE Environment
  <2>1. CASE \E j \in Jobs : JobEnds(j) \/ Forget(j)
    BY <2>1 DEF JobEnds, Forget, IInv, JobsOK
  <2>2. CASE Restart
    BY <2>2 DEF Restart
  <2>3. CASE ~Restart /\ ~\E j \in Jobs : JobEnds(j) \/ Forget(j)
    BY <1>3, <2>3 DEF Environment, Receive, ReceiverFails, TickFails, TurnUnknown, Declare, CiReports,
       RunAges, CommitAges, PersonRelabels, PersonCloses, PersonReopens, service
  <2> QED BY <2>1, <2>2, <2>3
<1>4. CASE UNCHANGED vars
  BY <1>4 DEF vars, service
<1> QED BY <1>1, <1>2, <1>3, <1>4 DEF Next

(* Jobs stay with their issues, start in order, and runs do not grow young. *)
LEMMA JobsKept ==
  ASSUME IInv, OrderInv, [Next]_vars
  PROVE  /\ \A k \in Jobs : owner[k] \in Issues => owner'[k] = owner[k]
         /\ OrderInv' /\ late \subseteq late'
<1>1. late \subseteq late'
  <2>1. CASE Receiver \/ Tick
    BY <2>1 DEF Receiver, Tick, ReceiverSubmits, ReceiverStamps, ReceiverRecords, ListReady,
       ReadLock, DrainSubmits, DrainStamps, DrainRecords, ListHeld, ReadComments, ReadTurn,
       Judge, Unlock, Close, HandOver, Resubmit, Persist, clocks
  <2>2. CASE Environment
    BY <2>2 DEF Environment, Receive, ReceiverFails, TickFails, TurnUnknown, Restart, Declare,
       JobEnds, CiReports, RunAges, CommitAges, Forget, PersonRelabels, PersonCloses,
       PersonReopens, clocks
  <2>3. CASE UNCHANGED vars
    BY <2>3 DEF vars, clocks
  <2> QED BY <2>1, <2>2, <2>3 DEF Next
<1>2. CASE \E i \in Issues, j \in Unused : Start(i, j)
  <2>1. PICK i \in Issues, j \in Unused : Start(i, j)
    BY <1>2
  <2>2. j \in Jobs /\ owner[j] = None /\ None \notin Issues /\ \A k \in Unused : j <= k
    BY <2>1, LoopAssumption DEF IInv, OwnersUsed, Unused, Start
  <2>3. \A k \in Jobs : owner[k] \in Issues => owner'[k] = owner[k]
    BY <2>1, <2>2 DEF Start, IInv, JobsOK
  <2>4. \A k \in Jobs : status'[k] = IF k = j THEN "live" ELSE status[k]
    BY <2>1, <2>2 DEF Start, IInv, JobsOK
  <2>5. ASSUME NEW k \in Jobs, NEW l \in Jobs, status'[k] # "unused", status'[l] = "unused"
        PROVE  k < l
    <3>1. l # j /\ status[l] = "unused"
      BY <2>4, <2>5
    <3>2. k = j \/ status[k] # "unused"
      BY <2>4, <2>5
    <3>3. j <= l /\ j \in Int /\ l \in Int
      BY <2>2, <3>1, LoopAssumption DEF Unused, Jobs
    <3> QED BY <2>5, <3>1, <3>2, <3>3 DEF OrderInv
  <2> QED BY <1>1, <2>3, <2>5 DEF OrderInv
<1>3. CASE /\ owner' = owner
           /\ \A j \in Jobs : status'[j] = "unused" <=> status[j] = "unused"
  BY <1>1, <1>3 DEF OrderInv
<1> QED BY <1>2, <1>3, StartsOrNot

(* What the tick's and the comments' numbers refer to is kept by a step     *)
(* that changes neither.                                                    *)
LEMMA NumbersKept ==
  ASSUME IInv, Kept, [Next]_vars, UNCHANGED <<footer, marker>>,
         tick' = tick \/ tick'.pc \notin Watching
  PROVE  Kept'
<1>1. /\ \A k \in Jobs : owner[k] \in Issues => owner'[k] = owner[k]
      /\ OrderInv' /\ late \subseteq late'
  BY JobsKept DEF Kept
<1>2. \A i \in Issues : marker[i] # None => owner'[marker[i]] = i
  BY <1>1 DEF Kept, OwnedInv, IInv, IssuesOK
<1>3. \A i \in Issues : footer[i] # NoRecord => owner'[footer[i].start] = i
  BY <1>1 DEF Kept, OwnedInv, IInv, IssuesOK, Records
<1>4. CASE tick' = tick
  <2>1. tick.pc \in {"turn", "judge", "unlock"} /\ tick.commit # None => owner'[tick.commit] = tick.issue
    BY <1>1 DEF Kept, OwnedInv, IInv, TickOK, TickStates
  <2>2. tick.pc \in {"turn", "judge", "resubmit", "persist"} => owner'[tick.rec.start] = tick.issue
    BY <1>1 DEF Kept, OwnedInv, IInv, TickOK, RunRecords
  <2> QED BY <1>1, <1>2, <1>3, <1>4, <2>1, <2>2 DEF Kept, OwnedInv, LateInv, BudgetInv
<1>5. CASE tick'.pc \notin Watching
  BY <1>1, <1>2, <1>3, <1>5 DEF Kept, OwnedInv, LateInv, BudgetInv, Watching
<1> QED BY <1>4, <1>5

(* A footer is written by whoever started the run, or by the tick for the   *)
(* run it has read.                                                         *)
LEMMA FooterKept ==
  ASSUME IInv, Kept, [Next]_vars, ReceiverRecords \/ DrainRecords \/ Persist
  PROVE  Kept'
<1>1. /\ \A k \in Jobs : owner[k] \in Issues => owner'[k] = owner[k]
      /\ OrderInv' /\ late \subseteq late'
  BY JobsKept DEF Kept
<1>2. owner' = owner /\ marker' = marker
  BY DEF ReceiverRecords, DrainRecords, Persist, service
<1>3. \A i \in Issues : footer'[i] # NoRecord => owner[footer'[i].start] = i
  <2>1. CASE ReceiverRecords
    BY <2>1 DEF ReceiverRecords, FirstRecord, Kept, OwnedInv, IInv, IssuesOK, RecvOK
  <2>2. CASE DrainRecords
    BY <2>2 DEF DrainRecords, FirstRecord, Kept, OwnedInv, IInv, IssuesOK, TickOK
  <2>3. CASE Persist
    <3>1. /\ tick.issue \in Issues /\ tick.rec \in RunRecords /\ owner[tick.rec.start] = tick.issue
          /\ \A i \in Issues : i # tick.issue => footer'[i] = footer[i]
      BY <2>3 DEF Persist, Kept, OwnedInv, IInv, IssuesOK, TickOK
    <3>2. footer'[tick.issue].start = tick.rec.start
      BY <2>3, <3>1 DEF Persist, IInv, IssuesOK, RunRecords
    <3> QED BY <3>1, <3>2 DEF Kept, OwnedInv
  <2> QED BY <2>1, <2>2, <2>3
<1>4. tick' = tick \/ tick'.pc \in {"watch", "idle", "next"}
  <2>1. CASE ReceiverRecords
    BY <2>1 DEF ReceiverRecords
  <2>2. CASE DrainRecords
    BY <2>2 DEF DrainRecords, Resting
  <2>3. CASE Persist
    BY <2>3, DoneRests DEF Persist, IInv, TickOK
  <2> QED BY <2>1, <2>2, <2>3
<1>5. OwnedInv'
  BY <1>2, <1>3, <1>4 DEF Kept, OwnedInv
<1>6. LateInv' /\ BudgetInv'
  BY <1>1, <1>4 DEF Kept, LateInv, BudgetInv
<1> QED BY <1>1, <1>5, <1>6 DEF Kept

(* A commit is declared on its job's issue. *)
LEMMA DeclareKept ==
  ASSUME IInv, Kept, [Next]_vars, NEW x \in Jobs, Declare(x)
  PROVE  Kept'
<1>1. OrderInv' /\ UNCHANGED <<owner, footer, tick, late>> /\ marker' = [marker EXCEPT ![owner[x]] = x]
  BY JobsKept DEF Kept, Declare, service, clocks
<1>2. OwnedInv'
  BY <1>1 DEF Kept, OwnedInv, IInv, IssuesOK
<1> QED BY <1>1, <1>2 DEF Kept, LateInv, BudgetInv

(* The tick takes over what the comments and the clock say. *)
LEMMA ReadCommentsKept ==
  ASSUME IInv, Kept, [Next]_vars, ReadComments
  PROVE  Kept'
<1>1. PICK i \in tick.todo :
        tick' = [tick EXCEPT !.issue = i, !.rec = footer[i], !.commit = marker[i],
                   !.pc = IF footer[i] = NoRecord THEN "unlock" ELSE "turn",
                   !.action = IF footer[i] = NoRecord THEN "orphan" ELSE "wait",
                   !.elapsed = IF footer[i].start \in late THEN CloseDeferMaxSeconds ELSE 0,
                   !.sincePush = IF marker[i] = None THEN NotKnown
                                 ELSE IF marker[i] \in overdue THEN CiVerdictMaxSeconds ELSE 0]
  BY DEF ReadComments
<1>2. /\ OrderInv' /\ UNCHANGED <<owner, footer, marker, late>> /\ i \in Issues
      /\ tick'.issue = i /\ tick'.rec = footer[i] /\ tick'.commit = marker[i]
      /\ tick'.pc = IF footer[i] = NoRecord THEN "unlock" ELSE "turn"
      /\ tick'.elapsed = IF footer[i].start \in late THEN CloseDeferMaxSeconds ELSE 0
  BY <1>1, JobsKept DEF Kept, ReadComments, tracker, service, clocks, IInv, TickOK, TickStates
<1>3. OwnedInv'
  BY <1>2 DEF Kept, OwnedInv
<1>4. LateInv'
  BY <1>2, RunConfigAssumption DEF LateInv
<1>5. BudgetInv'
  BY <1>2 DEF BudgetInv
<1> QED BY <1>2, <1>3, <1>4, <1>5 DEF Kept

(* What the tick knows of the run it keeps while it asks for its turn. *)
LEMMA TurnKept ==
  ASSUME IInv, Kept, [Next]_vars, ReadTurn \/ TurnUnknown
  PROVE  Kept'
<1>1. PICK turn : tick' = [tick EXCEPT !.pc = "judge", !.turn = turn]
  BY DEF ReadTurn, TurnUnknown
<1>2. /\ OrderInv' /\ UNCHANGED <<owner, footer, marker, late>> /\ tick.pc = "turn" /\ tick'.pc = "judge"
      /\ tick'.issue = tick.issue /\ tick'.rec = tick.rec /\ tick'.commit = tick.commit
      /\ tick'.elapsed = tick.elapsed
  BY <1>1, JobsKept DEF Kept, ReadTurn, TurnUnknown, tracker, service, clocks, IInv, TickOK, TickStates
<1> QED BY <1>2 DEF Kept, OwnedInv, LateInv, BudgetInv

(* A further job is started within the budget the table looked at. *)
LEMMA JudgeKept ==
  ASSUME IInv, Kept, [Next]_vars, Judge
  PROVE  Kept'
<1> DEFINE action == NextAction(RunState)
<1>1. /\ OrderInv' /\ UNCHANGED <<owner, footer, marker, late>> /\ tick.pc = "judge" /\ tick \in TickStates
  BY JobsKept DEF Kept, Judge, tracker, service, clocks, IInv, TickOK
<1>2. CASE action = "wait"
  <2>1. tick'.pc \in {"idle", "next"}
    BY <1>2 DEF Judge, Done, Rest, Resting
  <2> QED BY <1>1, <2>1 DEF Kept, OwnedInv, LateInv, BudgetInv
<1>3. CASE action # "wait"
  <2>1. PICK pc \in {"resubmit", "unlock"} :
          /\ tick' = [tick EXCEPT !.pc = pc, !.action = action, !.turn = "unknown",
                        !.elapsed = 0, !.sincePush = NotKnown]
          /\ pc = "resubmit" => action \in {"fix_forward", "redispatch"}
    BY <1>3 DEF Judge
  <2>2. /\ action = "fix_forward" => tick.rec.fixes < FixForwardMaxAttempts
        /\ action = "redispatch" => tick.rec.redispatches < MaxRedispatchAttempts
    BY <1>1, RunStateTyped, BudgetsBound DEF IInv, RunState
  <2> HIDE DEF action
  <2>3. /\ tick'.pc = pc /\ tick'.issue = tick.issue /\ tick'.rec = tick.rec
        /\ tick'.commit = tick.commit /\ tick'.action = action
    BY <1>1, <2>1 DEF TickStates
  <2>4. OwnedInv' /\ LateInv'
    BY <1>1, <2>3 DEF Kept, OwnedInv, LateInv
  <2>5. BudgetInv'
    BY <2>1, <2>2, <2>3 DEF BudgetInv
  <2> QED BY <1>1, <2>4, <2>5 DEF Kept
<1> QED BY <1>2, <1>3

(* The tick starts a job for the issue whose record it has read. *)
LEMMA ResubmitKept ==
  ASSUME IInv, Kept, [Next]_vars, Resubmit
  PROVE  Kept'
<1>1. PICK j \in Unused : tick' = [tick EXCEPT !.pc = "persist", !.job = j]
  BY DEF Resubmit
<1>2. /\ UNCHANGED <<footer, marker>> /\ tick.pc = "resubmit" /\ tick'.pc = "persist"
      /\ tick'.issue = tick.issue /\ tick'.rec = tick.rec /\ tick'.action = tick.action
  BY <1>1 DEF Resubmit, tracker, IInv, TickOK, TickStates
<1>3. /\ \A k \in Jobs : owner[k] \in Issues => owner'[k] = owner[k]
      /\ OrderInv'
  BY JobsKept DEF Kept
<1>4. owner'[tick.rec.start] = tick.issue
  BY <1>2, <1>3 DEF Kept, OwnedInv, IInv, TickOK, RunRecords
<1>5. \A i \in Issues : marker[i] # None => owner'[marker[i]] = i
  BY <1>3 DEF Kept, OwnedInv, IInv, IssuesOK
<1>6. \A i \in Issues : footer[i] # NoRecord => owner'[footer[i].start] = i
  BY <1>3 DEF Kept, OwnedInv, IInv, IssuesOK, Records
<1>7. OwnedInv'
  BY <1>2, <1>4, <1>5, <1>6 DEF OwnedInv
<1>8. LateInv' /\ BudgetInv'
  BY <1>2 DEF Kept, LateInv, BudgetInv
<1> QED BY <1>3, <1>7, <1>8 DEF Kept

(* Every step keeps what the numbers refer to. *)
LEMMA StepKept == IInv /\ Kept /\ [Next]_vars => Kept'
<1> SUFFICES ASSUME IInv, Kept, [Next]_vars
             PROVE  Kept'
  OBVIOUS
<1>1. CASE Receiver
  <2>1. CASE ReceiverRecords
    BY <2>1, FooterKept
  <2>2. CASE ReceiverSubmits \/ ReceiverStamps
    BY <2>2, NumbersKept DEF ReceiverSubmits, ReceiverStamps, tracker
  <2> QED BY <1>1, <2>1, <2>2 DEF Receiver
<1>2. CASE Tick
  <2>1. CASE DrainRecords \/ Persist
    BY <2>1, FooterKept
  <2>2. CASE ReadComments \/ ReadTurn \/ Judge \/ Resubmit
    BY <2>2, ReadCommentsKept, TurnKept, JudgeKept, ResubmitKept
  <2>3. CASE ReadLock \/ ListHeld
    <3>1. UNCHANGED <<footer, marker>>
      BY <2>3 DEF ReadLock, ListHeld, tracker
    <3>2. CASE ReadLock
      BY <3>1, <3>2, NumbersKept DEF ReadLock, Resting, Watching
    <3>3. CASE ListHeld
      <4>1. tick'.pc \in {"idle", "next"}
        BY <3>3 DEF ListHeld, Resting
      <4> QED BY <3>1, <4>1, NumbersKept DEF Watching
    <3> QED BY <2>3, <3>2, <3>3
  <2>4. CASE ListReady \/ DrainSubmits \/ DrainStamps \/ Unlock
    <3>1. tick \in TickStates
      BY DEF IInv, TickOK
    <3>2. \/ tick'.pc \in {"listed", "stamp", "record"}
          \/ tick'.pc \in {"close", "hand"}
      BY <2>4, <3>1 DEF ListReady, DrainSubmits, DrainStamps, Unlock, TickStates
    <3>3. UNCHANGED <<footer, marker>>
      BY <2>4 DEF ListReady, DrainSubmits, DrainStamps, Unlock, tracker
    <3> QED BY <3>2, <3>3, NumbersKept DEF Watching
  <2>5. CASE Close \/ HandOver
    <3>1. UNCHANGED <<footer, marker>> /\ tick' = Done
      BY <2>5 DEF Close, HandOver
    <3> QED BY <3>1, DoneRests, NumbersKept DEF IInv, TickOK, Watching
  <2> QED BY <1>2, <2>1, <2>2, <2>3, <2>4, <2>5 DEF Tick
<1>3. CASE Environment
  <2>1. CASE TurnUnknown
    BY <2>1, TurnKept
  <2>2. CASE \E j \in Jobs : Declare(j)
    BY <2>2, DeclareKept
  <2>3. CASE TickFails
    BY <2>3, NumbersKept DEF TickFails, tracker, Resting, Watching
  <2>4. CASE ~TurnUnknown /\ ~TickFails /\ ~\E j \in Jobs : Declare(j)
    <3>1. UNCHANGED <<footer, marker, tick>>
      BY <1>3, <2>4 DEF Environment, Receive, ReceiverFails, Restart, JobEnds, CiReports, RunAges,
         CommitAges, Forget, PersonRelabels, PersonCloses, PersonReopens, tracker
    <3> QED BY <3>1, NumbersKept
  <2> QED BY <2>1, <2>2, <2>3, <2>4
<1>4. CASE UNCHANGED vars
  BY <1>4, NumbersKept DEF vars, tracker
<1> QED BY <1>1, <1>2, <1>3, <1>4 DEF Next

(* Nothing is referred to at first. *)
LEMMA InitKept == Init => Kept
<1> SUFFICES ASSUME Init
             PROVE  Kept
  OBVIOUS
<1>1. OwnedInv /\ LateInv /\ BudgetInv
  BY DEF Init, Resting, OwnedInv, LateInv, BudgetInv
<1>2. OrderInv
  BY DEF Init, OrderInv
<1> QED BY <1>1, <1>2 DEF Kept

(* In every history, faults and overlaps included: a footer and a marker
   refer to jobs of their own issue, and a further job was within its budget. *)
THEOREM KeptInvariant == Spec => []Kept
<1> QED BY InitKept, StepKept, LoopInvariant, PTL DEF Spec

(* What was true of the run when the tick decided to close it still is. *)
SettledInv ==
  tick.pc = "unlock" /\ tick.action = "close_success" =>
    /\ tick.commit # None /\ ci[tick.commit] = "green" /\ owner[tick.commit] = tick.issue
    /\ tick.rec.start \in late \/ \A j \in Following : owner[j] # tick.issue

-----------------------------------------------------------------------------
(* The tick's verdict when it acts on it. *)

(* The table closes a run only on a green commit. *)
LEMMA CloseMeansGreen ==
  ASSUME NEW s \in RunStates, NextAction(s) = "close_success"
  PROVE  s.pushed /\ s.ci = "green"
BY DEF NextAction, PushedAction, UnpushedAction

(* Green was the commit of this issue, and the turn over, or the run old.   *)
LEMMA JudgeSettles ==
  ASSUME IInv, Places, Kept, Judge, tick'.pc = "unlock", tick'.action = "close_success"
  PROVE  SettledInv'
<1> DEFINE action == NextAction(RunState)
<1>1. /\ UNCHANGED <<owner, status, open, abandoned, ci, late>> /\ tick.pc = "judge"
      /\ tick \in TickStates /\ RunState \in RunStates /\ tick.turn \in Turns \ {"unknown"}
  BY RunStateTyped DEF Judge, tracker, service, history, clocks, IInv, TickOK, TickStates, Places, TurnInv
<1>2. action # "wait"
  <2>1. action = "wait" => tick' = Done
    BY DEF Judge
  <2> QED BY <1>1, <2>1, DoneRests
<1>3. PICK pc \in {"resubmit", "unlock"} :
        tick' = [tick EXCEPT !.pc = pc, !.action = action, !.turn = "unknown",
                   !.elapsed = 0, !.sincePush = NotKnown]
  BY <1>2 DEF Judge
<1> HIDE DEF action
<1>4. /\ tick'.issue = tick.issue /\ tick'.rec = tick.rec /\ tick'.commit = tick.commit
      /\ action = "close_success"
  BY <1>1, <1>3 DEF TickStates
<1>5. RunState.ci = "green"
  BY <1>1, <1>4, CloseMeansGreen DEF action
<1>6. tick.commit # None /\ ci[tick.commit] = "green" /\ owner[tick.commit] = tick.issue
  BY <1>1, <1>5 DEF RunState, Kept, OwnedInv
<1>7. CASE tick.turn = "running"
  <2>1. RunState.turn = "running" /\ RunState.elapsed = tick.elapsed
    BY <1>7 DEF RunState
  <2>2. tick.elapsed >= CloseDeferMaxSeconds
    BY <1>1, <1>2, <2>1, LiveTurnDeferredTo DEF action
  <2>3. tick.rec.start \in late
    BY <1>1, <2>2 DEF Kept, LateInv
  <2> QED BY <1>1, <1>4, <1>6, <2>3 DEF SettledInv
<1>8. CASE tick.turn # "running"
  <2>1. tick.turn \in OverTurns
    BY <1>1, <1>8 DEF Turns, OverTurns, TerminalTurns
  <2>2. \A j \in Following : owner[j] # tick.issue
    BY <1>1, <2>1, FollowedOpen DEF Places, TickAlone, IInv
  <2>3. Following' = Following
    BY <1>1, SameFollowing
  <2> QED BY <1>1, <1>4, <1>6, <2>2, <2>3 DEF SettledInv
<1> QED BY <1>7, <1>8

(* A job that the tick's issue is followed for is followed already: the     *)
(* handler starts none beside a lock, and a reopened issue had none.        *)
LEMMA NoneJoins ==
  ASSUME IInv, Places, tick.pc = "unlock", [Next]_vars, tick' = tick, Orderly'
  PROVE  \A j \in Following' : owner'[j] = tick.issue => j \in Following
<1>1. tick.issue \in locked
  BY DEF Places, WatchInv, Watching
<1>2. tick.issue \notin open' => \A j \in Following' : owner'[j] # tick.issue
  BY DEF Following
<1>3. CASE UNCHANGED <<status, owner, open, abandoned>>
  BY <1>3, SameFollowing
<1>4. CASE Receiver
  <2>1. CASE ReceiverSubmits
    <3>1. tick.issue \notin open'
      BY <1>1, <2>1 DEF ReceiverSubmits, tracker, Places, ClaimInv, Claiming, Held
    <3> QED BY <1>2, <3>1
  <2>2. CASE ReceiverStamps \/ ReceiverRecords
    BY <1>3, <2>2 DEF ReceiverStamps, ReceiverRecords, service, history
  <2> QED BY <1>4, <2>1, <2>2 DEF Receiver
<1>5. ~Tick
  <2>1. Tick => Unlock
    BY DEF Tick, ListReady, ReadLock, DrainSubmits, DrainStamps, DrainRecords, ListHeld,
       ReadComments, ReadTurn, Judge, Close, HandOver, Resubmit, Persist
  <2>2. ~Unlock
    BY DEF Unlock, IInv, TickOK, TickStates
  <2> QED BY <2>1, <2>2
<1>6. CASE Environment
  <2>1. CASE \E x \in Jobs : JobEnds(x) \/ Forget(x)
    BY <2>1 DEF JobEnds, Forget, tracker, history, Following, Live, IInv, JobsOK
  <2>2. CASE Restart
    BY <2>2 DEF Restart, Following, Live
  <2>3. CASE \E x \in Issues : PersonCloses(x)
    BY <2>3 DEF PersonCloses, service, history, Following, Live
  <2>4. CASE \E x \in Issues : PersonReopens(x)
    <3>1. PICK x \in Issues : PersonReopens(x)
      BY <2>4
    <3>2. x # tick.issue
      BY <1>1, <3>1 DEF PersonReopens, Orderly
    <3> QED BY <3>1, <3>2 DEF PersonReopens, service, Following, Live
  <2>5. CASE \E x \in Jobs : Declare(x) \/ CiReports(x) \/ RunAges(x) \/ CommitAges(x)
    BY <1>3, <2>5 DEF Declare, CiReports, RunAges, CommitAges, tracker, service, history
  <2>6. CASE \E x \in Issues : Receive(x) \/ PersonRelabels(x)
    BY <1>3, <2>6 DEF Receive, PersonRelabels, tracker, service, history
  <2>7. CASE ReceiverFails \/ TickFails \/ TurnUnknown
    BY <1>3, <2>7 DEF ReceiverFails, TickFails, TurnUnknown, tracker, service, history
  <2> QED BY <1>6, <2>1, <2>2, <2>3, <2>4, <2>5, <2>6, <2>7 DEF Environment
<1>7. CASE UNCHANGED vars
  BY <1>3, <1>7 DEF vars, tracker, service, history
<1> QED BY <1>4, <1>5, <1>6, <1>7 DEF Next

(* A green commit stays green. *)
LEMMA GreenStays ==
  ASSUME IInv, [Next]_vars, NEW j \in Jobs, ci[j] = "green"
  PROVE  ci'[j] = "green"
<1>1. CASE Receiver \/ Tick
  BY <1>1 DEF Receiver, Tick, ReceiverSubmits, ReceiverStamps, ReceiverRecords, ListReady,
     ReadLock, DrainSubmits, DrainStamps, DrainRecords, ListHeld, ReadComments, ReadTurn,
     Judge, Unlock, Close, HandOver, Resubmit, Persist
<1>2. CASE Environment
  <2>1. CASE \E x \in Jobs : Declare(x) \/ CiReports(x)
    BY <2>1 DEF Declare, CiReports, Awaited, IInv, JobsOK
  <2>2. CASE ~\E x \in Jobs : Declare(x) \/ CiReports(x)
    BY <1>2, <2>2 DEF Environment, Receive, ReceiverFails, TickFails, TurnUnknown, Restart,
       JobEnds, RunAges, CommitAges, Forget, PersonRelabels, PersonCloses, PersonReopens
  <2> QED BY <2>1, <2>2
<1>3. CASE UNCHANGED vars
  BY <1>3 DEF vars
<1> QED BY <1>1, <1>2, <1>3 DEF Next

(* What was seen stays so while the tick is at its place. *)
LEMMA SettledStays ==
  ASSUME IInv, Places, Kept, SettledInv, [Next]_vars, tick' = tick, Orderly'
  PROVE  SettledInv'
<1> SUFFICES ASSUME tick.pc = "unlock", tick.action = "close_success"
             PROVE  /\ tick.commit # None /\ ci'[tick.commit] = "green" /\ owner'[tick.commit] = tick.issue
                    /\ tick.rec.start \in late' \/ \A j \in Following' : owner'[j] # tick.issue
  BY DEF SettledInv
<1>1. /\ tick.commit # None /\ ci[tick.commit] = "green" /\ owner[tick.commit] = tick.issue
      /\ tick.rec.start \in late \/ \A j \in Following : owner[j] # tick.issue
      /\ tick.issue \in Issues /\ tick.commit \in Jobs
  BY DEF SettledInv, IInv, TickOK, TickStates
<1>2. /\ \A k \in Jobs : owner[k] \in Issues => owner'[k] = owner[k]
      /\ late \subseteq late'
  BY JobsKept DEF Kept
<1>3. ci'[tick.commit] = "green" /\ owner'[tick.commit] = tick.issue
  BY <1>1, <1>2, GreenStays
<1>4. ASSUME \A j \in Following : owner[j] # tick.issue, NEW j \in Following'
      PROVE  owner'[j] # tick.issue
  <2>1. j \in Following => owner[j] \in Issues /\ j \in Jobs
    BY FollowedOpen DEF IInv, IssuesOK
  <2> QED BY <1>2, <1>4, <2>1, NoneJoins
<1> QED BY <1>1, <1>2, <1>3, <1>4

(* Every step of an orderly history keeps the tick's verdict true. *)
LEMMA StepSettled ==
  ASSUME IInv, Places, Kept, SettledInv, [Next]_vars, Orderly'
  PROVE  SettledInv'
<1>1. CASE tick' = tick
  BY <1>1, SettledStays
<1>2. CASE Judge
  BY <1>2, JudgeSettles DEF SettledInv
<1>3. CASE ReadComments
  <2>1. tick'.action \in {"orphan", "wait"}
    BY <1>3 DEF ReadComments, IInv, TickOK, TickStates
  <2> QED BY <2>1 DEF SettledInv
<1>4. CASE tick' # tick /\ ~Judge /\ ~ReadComments
  <2>1. tick'.pc # "unlock"
    <3>1. tick \in TickStates
      BY DEF IInv, TickOK
    <3>2. CASE ReadLock \/ ListHeld \/ DrainRecords \/ TickFails
      <4>1. CASE ReadLock
        BY <4>1 DEF ReadLock, Resting
      <4>2. CASE ListHeld
        BY <4>2 DEF ListHeld, Resting
      <4>3. CASE DrainRecords \/ TickFails
        BY <4>3 DEF DrainRecords, TickFails, Resting
      <4> QED BY <3>2, <4>1, <4>2, <4>3
    <3>3. CASE ListReady \/ DrainSubmits \/ DrainStamps \/ ReadTurn \/ Unlock \/ Resubmit \/ TurnUnknown
      BY <3>1, <3>3 DEF ListReady, DrainSubmits, DrainStamps, ReadTurn, Unlock, Resubmit, TurnUnknown,
         TickStates
    <3>4. CASE Close \/ HandOver \/ Persist
      BY <3>1, <3>4, DoneRests DEF Close, HandOver, Persist
    <3>5. Tick \/ TickFails \/ TurnUnknown
      BY <1>4 DEF Next, Receiver, Environment, ReceiverSubmits, ReceiverStamps, ReceiverRecords,
         Receive, ReceiverFails, Restart, Declare, JobEnds, CiReports, RunAges, CommitAges,
         Forget, PersonRelabels, PersonCloses, PersonReopens, vars
    <3> QED BY <1>4, <3>2, <3>3, <3>4, <3>5 DEF Tick
  <2> QED BY <2>1 DEF SettledInv
<1> QED BY <1>1, <1>2, <1>3, <1>4

(* The tick's verdict, in any history. *)
Settled == Orderly => SettledInv

(* What a tick saw of a run before it closes it still holds when it takes   *)
(* the lock off, two calls later, in every orderly history: the commit is   *)
(* green and of this issue, and its turn is over or the run past its        *)
(* deferral ceiling.                                                        *)
THEOREM ClosedRunIsSettled == Spec => []ClosesSettledRun
<1>1. Init => Settled
  BY DEF Init, Resting, Settled, SettledInv
<1>2. IInv /\ Calm /\ Kept /\ Settled /\ [Next]_vars => Settled'
  BY OrderlyBefore, StepSettled DEF Calm, Settled
<1>3. Settled => ClosesSettledRun
  BY DEF Settled, SettledInv, ClosesSettledRun
<1> QED BY <1>1, <1>2, <1>3, LoopInvariant, CalmInvariant, KeptInvariant, PTL DEF Spec

-----------------------------------------------------------------------------
(* What the footer knows. *)

(* A fresh job is its issue's newest. *)
NewestInv ==
  /\ recv.pc \in {"stamp", "record"} => \A k \in Jobs : owner[k] = recv.issue => k <= recv.job
  /\ tick.pc = "stamp" \/ (tick.pc = "record" /\ tick.issue \in open) =>
       \A k \in Jobs : owner[k] = tick.issue => k <= tick.job

(* What the tick read of an issue is what its comments still say. *)
ReadInv ==
  tick.pc \in {"turn", "judge", "resubmit", "persist"} /\ tick.issue \in open =>
    footer[tick.issue] = tick.rec /\ ~(recv.pc = "record" /\ recv.issue = tick.issue)

(* The jobs of issue i's run, and what its footer says of them. *)
RunJobs(i) == {j \in Jobs : owner[j] = i /\ j >= footer[i].start}
Counted(i) ==
  /\ footer[i] # NoRecord
  /\ footer[i].fixes > 0 => footer[i].fixes <= FixForwardMaxAttempts
  /\ footer[i].redispatches <= MaxRedispatchAttempts
  /\ Cardinality(RunJobs(i)) =
       1 + footer[i].fixes + footer[i].redispatches
         + (IF tick.issue = i /\ tick.pc = "persist" THEN 1 ELSE 0)
CountInv == \A i \in Held : ~Fresh(tick, i) /\ ~Fresh(recv, i) => Counted(i)

(* A job that starts is newer than all the jobs its issue had. *)
LEMMA StartNewest ==
  ASSUME IInv, OrderInv, NEW i \in Issues, NEW j \in Unused, Start(i, j)
  PROVE  /\ j \in Jobs /\ owner[j] = None
         /\ \A k \in Jobs : owner'[k] = IF k = j THEN i ELSE owner[k]
         /\ \A k \in Jobs : owner[k] \in Issues => k < j
<1>1. j \in Jobs /\ status[j] = "unused" /\ owner[j] = None /\ None \notin Issues
  BY LoopAssumption DEF IInv, OwnersUsed, Unused
<1>2. \A k \in Jobs : owner'[k] = IF k = j THEN i ELSE owner[k]
  BY <1>1 DEF Start, IInv, JobsOK
<1>3. \A k \in Jobs : owner[k] \in Issues => k < j
  BY <1>1 DEF OrderInv, IInv, OwnersUsed
<1> QED BY <1>1, <1>2, <1>3

(* But for those that start a job, no step takes an actor to a fresh one,   *)
(* and what the actor keeps of it does not change.                          *)
LEMMA FreshStays ==
  ASSUME IInv, [Next]_vars, ~(ReceiverSubmits \/ DrainSubmits \/ Resubmit)
  PROVE  /\ owner' = owner
         /\ recv'.pc \in {"stamp", "record"} =>
              recv.pc \in {"stamp", "record"} /\ recv'.issue = recv.issue /\ recv'.job = recv.job
         /\ tick'.pc \in {"stamp", "record"} =>
              /\ tick.pc = "stamp" \/ tick.pc = tick'.pc
              /\ tick'.issue = tick.issue /\ tick'.job = tick.job
<1>0. tick \in TickStates /\ recv \in RecvStates
  BY DEF IInv, TickOK, RecvOK
<1>1. CASE Receiver
  <2>1. CASE ReceiverStamps
    BY <1>0, <2>1 DEF ReceiverStamps, service, RecvStates
  <2>2. CASE ReceiverRecords
    BY <2>2 DEF ReceiverRecords, service, Listening
  <2> QED BY <1>1, <2>1, <2>2 DEF Receiver
<1>2. CASE Tick
  <2>1. owner' = owner /\ recv' = recv
    BY <1>2 DEF Tick, ListReady, ReadLock, DrainStamps, DrainRecords, ListHeld, ReadComments,
       ReadTurn, Judge, Unlock, Close, HandOver, Persist, service
  <2>2. CASE DrainStamps
    BY <1>0, <2>1, <2>2 DEF DrainStamps, TickStates
  <2>3. CASE ReadLock
    BY <2>1, <2>3 DEF ReadLock, Resting
  <2>4. CASE ListHeld
    BY <2>1, <2>4 DEF ListHeld, Resting
  <2>5. CASE DrainRecords
    BY <2>1, <2>5 DEF DrainRecords, Resting
  <2>6. CASE Judge
    <3>1. tick'.pc \in {"idle", "next", "resubmit", "unlock"}
      BY <2>6, JudgeTyped DEF IInv
    <3> QED BY <2>1, <3>1
  <2>7. CASE ListReady \/ ReadComments \/ ReadTurn \/ Unlock
    <3>1. CASE ReadComments
      <4>1. tick'.pc \in {"turn", "unlock"}
        BY <1>0, <3>1 DEF ReadComments, TickStates
      <4> QED BY <2>1, <4>1
    <3>2. CASE ListReady \/ ReadTurn \/ Unlock
      <4>1. tick'.pc \in {"listed", "judge", "close", "hand"}
        BY <1>0, <3>2 DEF ListReady, ReadTurn, Unlock, TickStates
      <4> QED BY <2>1, <4>1
    <3> QED BY <2>7, <3>1, <3>2
  <2>8. CASE Close \/ HandOver \/ Persist
    <3>1. tick' = Done
      BY <2>8 DEF Close, HandOver, Persist
    <3> QED BY <1>0, <2>1, <3>1, DoneRests
  <2> QED BY <1>2, <2>2, <2>3, <2>4, <2>5, <2>6, <2>7, <2>8 DEF Tick
<1>3. CASE Environment
  <2>1. owner' = owner
    BY <1>3 DEF Environment, Receive, ReceiverFails, TickFails, TurnUnknown, Restart, Declare,
       JobEnds, CiReports, RunAges, CommitAges, Forget, PersonRelabels, PersonCloses,
       PersonReopens, service
  <2>2. recv' = recv \/ recv'.pc \in {"idle", "submit"}
    <3>1. CASE \E i \in Issues : Receive(i)
      BY <1>0, <3>1 DEF Receive, RecvStates
    <3>2. CASE ReceiverFails \/ Restart
      BY <3>2 DEF ReceiverFails, Restart, Listening
    <3>3. CASE ~(\E i \in Issues : Receive(i)) /\ ~ReceiverFails /\ ~Restart
      BY <1>3, <3>3 DEF Environment, TickFails, TurnUnknown, Declare, JobEnds, CiReports,
         RunAges, CommitAges, Forget, PersonRelabels, PersonCloses, PersonReopens
    <3> QED BY <3>1, <3>2, <3>3
  <2>3. tick' = tick \/ tick'.pc \in {"idle", "watch", "judge"}
    <3>1. CASE TickFails
      BY <3>1 DEF TickFails, Resting
    <3>2. CASE TurnUnknown
      BY <1>0, <3>2 DEF TurnUnknown, TickStates
    <3>3. CASE ~TickFails /\ ~TurnUnknown
      BY <1>3, <3>3 DEF Environment, Receive, ReceiverFails, Restart, Declare, JobEnds, CiReports,
         RunAges, CommitAges, Forget, PersonRelabels, PersonCloses, PersonReopens
    <3> QED BY <3>1, <3>2, <3>3
  <2> QED BY <2>1, <2>2, <2>3
<1>4. CASE UNCHANGED vars
  BY <1>4 DEF vars, service
<1> QED BY <1>1, <1>2, <1>3, <1>4 DEF Next

(* An issue that is locked does not come back in an orderly history. *)
LEMMA LockedStaysClosed ==
  ASSUME IInv, [Next]_vars, Orderly', NEW i \in locked, i \in open'
  PROVE  i \in open
<1>1. CASE open' \subseteq open
  BY <1>1
<1>2. CASE \E x \in Issues : PersonReopens(x)
  BY <1>2 DEF PersonReopens, Orderly
<1>3. CASE ~\E x \in Issues : PersonReopens(x)
  <2>1. CASE Receiver \/ Tick
    BY <1>1, <2>1 DEF Receiver, Tick, ReceiverSubmits, ReceiverStamps, ReceiverRecords, ListReady,
       ReadLock, DrainSubmits, DrainStamps, DrainRecords, ListHeld, ReadComments, ReadTurn,
       Judge, Unlock, Close, HandOver, Resubmit, Persist, tracker
  <2>2. CASE Environment
    BY <1>1, <1>3, <2>2 DEF Environment, Receive, ReceiverFails, TickFails, TurnUnknown, Restart, Declare,
       JobEnds, CiReports, RunAges, CommitAges, Forget, PersonRelabels, PersonCloses, tracker
  <2>3. CASE UNCHANGED vars
    BY <1>1, <2>3 DEF vars, tracker
  <2> QED BY <2>1, <2>2, <2>3 DEF Next
<1> QED BY <1>2, <1>3

(* A fresh job stays its issue's newest until it is recorded. *)
LEMMA StepNewest ==
  ASSUME IInv, Places, OrderInv, NewestInv, [Next]_vars, Orderly'
  PROVE  NewestInv'
<1>1. CASE ReceiverSubmits
  <2>1. PICK j \in Unused : Start(recv.issue, j) /\ recv' = [recv EXCEPT !.pc = "stamp", !.job = j]
    BY <1>1 DEF ReceiverSubmits
  <2>2. /\ recv.pc = "submit" /\ recv.issue \in Issues /\ recv'.issue = recv.issue /\ recv'.job = j
        /\ UNCHANGED <<tick, open>>
    BY <1>1, <2>1 DEF ReceiverSubmits, IInv, RecvOK, RecvStates, tracker
  <2>3. \A k \in Jobs : owner'[k] = recv.issue => k <= j
    BY <2>1, <2>2, StartNewest, LoopAssumption DEF Jobs
  <2>4. tick.pc # "stamp" /\ ~(tick.pc = "record" /\ tick.issue \in open)
    BY <2>2 DEF Places, ClaimInv, Claiming, WatchInv, Held
  <2> QED BY <2>2, <2>3, <2>4 DEF NewestInv
<1>2. CASE DrainSubmits
  <2>1. PICK j \in Unused : Start(tick.issue, j) /\ tick' = [tick EXCEPT !.pc = "stamp", !.job = j]
    BY <1>2 DEF DrainSubmits
  <2>2. /\ tick.pc = "submit" /\ tick.issue \in Issues /\ tick'.issue = tick.issue /\ tick'.job = j
        /\ recv' = recv /\ recv.pc = "idle"
    BY <1>2, <2>1 DEF DrainSubmits, ServiceAnswers, IInv, TickOK, TickStates
  <2>3. \A k \in Jobs : owner'[k] = tick.issue => k <= j
    BY <2>1, <2>2, StartNewest, LoopAssumption DEF Jobs
  <2> QED BY <2>2, <2>3 DEF NewestInv
<1>3. CASE Resubmit
  <2>1. recv' = recv /\ recv.pc = "idle" /\ tick'.pc = "persist"
    BY <1>3 DEF Resubmit, ServiceAnswers, IInv, TickOK, TickStates
  <2> QED BY <2>1 DEF NewestInv
<1>4. CASE ~(ReceiverSubmits \/ DrainSubmits \/ Resubmit)
  <2>1. recv'.pc \in {"stamp", "record"} => \A k \in Jobs : owner'[k] = recv'.issue => k <= recv'.job
    BY <1>4, FreshStays DEF NewestInv
  <2>2. tick'.pc = "stamp" \/ (tick'.pc = "record" /\ tick'.issue \in open') =>
          tick.pc = "stamp" \/ (tick.pc = "record" /\ tick.issue \in open)
    BY <1>4, FreshStays, LockedStaysClosed DEF Places, WatchInv
  <2>3. tick'.pc = "stamp" \/ (tick'.pc = "record" /\ tick'.issue \in open') =>
          \A k \in Jobs : owner'[k] = tick'.issue => k <= tick'.job
    BY <1>4, <2>2, FreshStays DEF NewestInv
  <2> QED BY <2>1, <2>3 DEF NewestInv
<1> QED BY <1>1, <1>2, <1>3, <1>4

(* What the tick read stays what the comments say: while it holds the lock  *)
(* the handler comes to no issue, and the tick's own is not reopened.       *)
LEMMA ReadStays ==
  ASSUME IInv, Places, ReadInv, [Next]_vars, Orderly',
         tick.pc \in {"turn", "judge", "resubmit", "persist"}, ~Persist, tick.issue \in open'
  PROVE  footer'[tick.issue] = tick.rec /\ ~(recv'.pc = "record" /\ recv'.issue = tick.issue)
<1>1. tick.issue \in locked /\ tick.issue \in open
  BY LockedStaysClosed DEF Places, WatchInv, Watching
<1>2. /\ footer[tick.issue] = tick.rec /\ ~(recv.pc = "record" /\ recv.issue = tick.issue)
      /\ ~Claiming(recv)
  BY <1>1 DEF ReadInv, Places, ClaimInv, Held
<1>3. recv' = recv \/ recv'.pc # "record"
  <2>1. ~ReceiverStamps
    BY <1>2 DEF ReceiverStamps, Claiming
  <2>2. CASE ReceiverSubmits
    BY <1>2, <2>2 DEF ReceiverSubmits, Claiming
  <2>3. CASE ReceiverRecords
    BY <2>3 DEF ReceiverRecords, Listening
  <2>4. CASE Tick
    BY <2>4 DEF Tick, ListReady, ReadLock, DrainSubmits, DrainStamps, DrainRecords,
       ListHeld, ReadComments, ReadTurn, Judge, Unlock, Close, HandOver, Resubmit, Persist
  <2>5. CASE Environment
    <3>1. CASE \E i \in Issues : Receive(i)
      BY <3>1 DEF Receive, IInv, RecvOK, RecvStates
    <3>2. CASE ReceiverFails \/ Restart
      BY <3>2 DEF ReceiverFails, Restart, Listening
    <3>3. CASE ~(\E i \in Issues : Receive(i)) /\ ~ReceiverFails /\ ~Restart
      BY <2>5, <3>3 DEF Environment, TickFails, TurnUnknown, Declare, JobEnds, CiReports,
         RunAges, CommitAges, Forget, PersonRelabels, PersonCloses, PersonReopens
    <3> QED BY <3>1, <3>2, <3>3
  <2>6. CASE UNCHANGED vars
    BY <2>6 DEF vars
  <2> QED BY <2>1, <2>2, <2>3, <2>4, <2>5, <2>6 DEF Next, Receiver
<1>4. footer'[tick.issue] = footer[tick.issue]
  <2>1. CASE ReceiverRecords
    BY <1>2, <2>1 DEF ReceiverRecords, IInv, IssuesOK
  <2>2. CASE ReceiverSubmits \/ ReceiverStamps
    BY <2>2 DEF ReceiverSubmits, ReceiverStamps, tracker
  <2>3. CASE Tick
    BY <2>3 DEF Tick, ListReady, ReadLock, DrainSubmits, DrainStamps, DrainRecords, ListHeld,
       ReadComments, ReadTurn, Judge, Unlock, Close, HandOver, Resubmit, tracker
  <2>4. CASE Environment
    BY <2>4 DEF Environment, Receive, ReceiverFails, TickFails, TurnUnknown, Restart, Declare,
       JobEnds, CiReports, RunAges, CommitAges, Forget, PersonRelabels, PersonCloses,
       PersonReopens, tracker
  <2>5. CASE UNCHANGED vars
    BY <2>5 DEF vars, tracker
  <2> QED BY <2>1, <2>2, <2>3, <2>4, <2>5 DEF Next, Receiver
<1> QED BY <1>2, <1>3, <1>4

(* Every step keeps what the tick has read true. *)
LEMMA StepRead ==
  ASSUME IInv, Places, ReadInv, [Next]_vars, Orderly'
  PROVE  ReadInv'
<1> SUFFICES ASSUME tick'.pc \in {"turn", "judge", "resubmit", "persist"}, tick'.issue \in open'
             PROVE  footer'[tick'.issue] = tick'.rec /\ ~(recv'.pc = "record" /\ recv'.issue = tick'.issue)
  BY DEF ReadInv
<1>0. tick \in TickStates
  BY DEF IInv, TickOK
<1>1. CASE ReadComments
  <2>1. PICK i \in tick.todo :
          /\ tick' = [tick EXCEPT !.issue = i, !.rec = footer[i], !.commit = marker[i],
                        !.pc = IF footer[i] = NoRecord THEN "unlock" ELSE "turn",
                        !.action = IF footer[i] = NoRecord THEN "orphan" ELSE "wait",
                        !.elapsed = IF footer[i].start \in late THEN CloseDeferMaxSeconds ELSE 0,
                        !.sincePush = IF marker[i] = None THEN NotKnown
                                      ELSE IF marker[i] \in overdue THEN CiVerdictMaxSeconds ELSE 0]
          /\ disorder' = disorder \cup (IF recv.pc = "record" /\ recv.issue = i THEN {"overlap"} ELSE {})
    BY <1>1 DEF ReadComments
  <2>2. tick'.issue = i /\ tick'.rec = footer[i] /\ footer' = footer /\ recv' = recv
    BY <1>0, <1>1, <2>1 DEF ReadComments, TickStates, tracker
  <2> QED BY <2>1, <2>2 DEF Orderly
<1>2. CASE tick'.issue = tick.issue /\ tick'.rec = tick.rec /\ ~Persist
           /\ tick.pc \in {"turn", "judge", "resubmit", "persist"}
  BY <1>2, ReadStays
<1>3. CASE ~ReadComments
  <2>1. CASE tick' = tick /\ ~Persist
    BY <1>2, <2>1
  <2>2. CASE ReadTurn \/ TurnUnknown \/ Resubmit
    <3>1. tick'.issue = tick.issue /\ tick'.rec = tick.rec /\ ~Persist
          /\ tick.pc \in {"turn", "judge", "resubmit", "persist"}
      BY <1>0, <2>2 DEF ReadTurn, TurnUnknown, Resubmit, Persist, TickStates
    <3> QED BY <1>2, <3>1
  <2>3. CASE Judge
    <3>1. tick'.issue = tick.issue /\ tick'.rec = tick.rec
      BY <2>3, JudgeTyped DEF IInv
    <3> QED BY <1>2, <2>3, <3>1 DEF Judge, Persist
  <2>4. CASE ReadLock
    BY <2>4 DEF ReadLock, Resting
  <2>5. CASE ListHeld
    BY <2>5 DEF ListHeld, Resting
  <2>6. CASE DrainRecords \/ TickFails
    BY <2>6 DEF DrainRecords, TickFails, Resting
  <2>7. CASE ListReady \/ DrainSubmits \/ DrainStamps \/ Unlock
    <3>1. tick'.pc \in {"listed", "stamp", "record", "close", "hand"}
      BY <1>0, <2>7 DEF ListReady, DrainSubmits, DrainStamps, Unlock, TickStates
    <3> QED BY <3>1
  <2>8. CASE Close \/ HandOver \/ Persist
    <3>1. tick' = Done
      BY <2>8 DEF Close, HandOver, Persist
    <3> QED BY <1>0, <3>1, DoneRests
  <2>9. CASE ~Tick /\ ~TickFails /\ ~TurnUnknown
    <3>1. tick' = tick
      BY <2>9 DEF Next, Receiver, Environment, ReceiverSubmits, ReceiverStamps, ReceiverRecords,
         Receive, ReceiverFails, Restart, Declare, JobEnds, CiReports, RunAges, CommitAges,
         Forget, PersonRelabels, PersonCloses, PersonReopens, vars
    <3> QED BY <2>1, <2>9, <3>1 DEF Tick
  <2> QED BY <1>3, <2>2, <2>3, <2>4, <2>5, <2>6, <2>7, <2>8, <2>9 DEF Tick
<1> QED BY <1>1, <1>3

-----------------------------------------------------------------------------
(* The count. *)

(* A run's jobs can be counted. *)
LEMMA RunJobsFinite ==
  ASSUME NEW i \in Issues
  PROVE  IsFiniteSet(RunJobs(i)) /\ RunJobs(i) \subseteq Jobs
<1>1. IsFiniteSet(Jobs)
  BY LoopAssumption, FS_Interval DEF Jobs
<1>2. RunJobs(i) \in SUBSET Jobs
  BY DEF RunJobs
<1> QED BY <1>1, <1>2, FS_Subset

(* What the count of an issue depends on. *)
LEMMA CountFrame ==
  ASSUME NEW i \in Issues, Counted(i), footer'[i] = footer[i],
         \A k \in Jobs : owner'[k] = i <=> owner[k] = i,
         (tick'.issue = i /\ tick'.pc = "persist") <=> (tick.issue = i /\ tick.pc = "persist")
  PROVE  Counted(i)'
<1>1. RunJobs(i)' = RunJobs(i)
  BY DEF RunJobs
<1> QED BY <1>1 DEF Counted

(* The first record of a run counts its one job, the issue's newest. *)
LEMMA FirstCounted ==
  ASSUME IInv, NEW i \in Issues, NEW j \in Jobs, owner' = owner, owner[j] = i,
         footer'[i] = FirstRecord(j), \A k \in Jobs : owner[k] = i => k <= j,
         ~(tick'.issue = i /\ tick'.pc = "persist")
  PROVE  Counted(i)'
<1>1. RunJobs(i)' = {j}
  BY LoopAssumption DEF RunJobs, FirstRecord, Jobs
<1>2. Cardinality(RunJobs(i)') = 1
  BY <1>1, FS_Singleton
<1>3. /\ footer'[i].fixes = 0 /\ footer'[i].redispatches = 0 /\ footer'[i].job = j
      /\ j # None
  BY LoopAssumption DEF FirstRecord, Jobs, None
<1>4. footer'[i] # NoRecord
  BY <1>3 DEF NoRecord
<1> QED BY <1>2, <1>3, <1>4, RunConfigAssumption DEF Counted

(* The handler's first record counts its job. *)
LEMMA ReceiverRecordsCount ==
  ASSUME IInv, Places, NewestInv, ReadInv, CountInv, ReceiverRecords
  PROVE  CountInv'
<1> SUFFICES ASSUME NEW i \in Held', ~Fresh(tick', i)
             PROVE  Counted(i)'
  BY DEF CountInv, Fresh
<1>1. /\ UNCHANGED <<open, locked, tick, owner>> /\ recv.pc = "record" /\ i \in Issues
      /\ footer' = [footer EXCEPT ![recv.issue] = FirstRecord(recv.job)] /\ i \in Held
      /\ recv.issue \in Issues /\ recv.job \in Jobs /\ owner[recv.job] = recv.issue
  BY DEF ReceiverRecords, service, Held, IInv, IssuesOK, RecvOK
<1>2. CASE i = recv.issue
  <2>1. footer'[i] = FirstRecord(recv.job)
    BY <1>1, <1>2 DEF IInv, IssuesOK
  <2>2. ~(tick'.issue = i /\ tick'.pc = "persist")
    BY <1>1, <1>2 DEF ReadInv, Held
  <2>3. \A k \in Jobs : owner[k] = i => k <= recv.job
    BY <1>1, <1>2 DEF NewestInv
  <2> QED BY <1>1, <1>2, <2>1, <2>2, <2>3, FirstCounted
<1>3. CASE i # recv.issue
  <2>1. footer'[i] = footer[i]
    BY <1>1, <1>3 DEF IInv, IssuesOK
  <2>2. Counted(i)
    BY <1>1, <1>3 DEF CountInv, Fresh
  <2> QED BY <1>1, <2>1, <2>2, CountFrame
<1> QED BY <1>2, <1>3

(* So does the drain's. *)
LEMMA DrainRecordsCount ==
  ASSUME IInv, Places, NewestInv, CountInv, DrainRecords
  PROVE  CountInv'
<1> SUFFICES ASSUME NEW i \in Held', ~Fresh(recv', i)
             PROVE  Counted(i)'
  BY DEF CountInv
<1>1. /\ UNCHANGED <<open, locked, recv, owner>> /\ tick.pc = "record" /\ i \in Issues
      /\ footer' = [footer EXCEPT ![tick.issue] = FirstRecord(tick.job)] /\ i \in Held
      /\ tick'.pc = "watch"
      /\ tick.issue \in Issues /\ tick.job \in Jobs /\ owner[tick.job] = tick.issue
  BY DEF DrainRecords, service, Held, IInv, IssuesOK, TickOK, Resting
<1>2. CASE i = tick.issue
  <2>1. footer'[i] = FirstRecord(tick.job)
    BY <1>1, <1>2 DEF IInv, IssuesOK
  <2>2. \A k \in Jobs : owner[k] = i => k <= tick.job
    BY <1>1, <1>2 DEF NewestInv, Held
  <2> QED BY <1>1, <1>2, <2>1, <2>2, FirstCounted
<1>3. CASE i # tick.issue
  <2>1. footer'[i] = footer[i]
    BY <1>1, <1>3 DEF IInv, IssuesOK
  <2>2. Counted(i)
    BY <1>1, <1>3 DEF CountInv, Fresh
  <2> QED BY <1>1, <2>1, <2>2, CountFrame
<1> QED BY <1>2, <1>3

(* A further job is in the run it continues, and was not counted. *)
LEMMA ResubmitCount ==
  ASSUME IInv, Places, Kept, ReadInv, CountInv, Resubmit
  PROVE  CountInv'
<1> SUFFICES ASSUME NEW i \in Held', ~Fresh(recv', i)
             PROVE  Counted(i)'
  BY DEF CountInv
<1>1. PICK j \in Unused :
        Start(tick.issue, j) /\ tick' = [tick EXCEPT !.pc = "persist", !.job = j]
  BY DEF Resubmit
<1>2. /\ UNCHANGED <<open, locked, recv, footer>> /\ tick.pc = "resubmit" /\ i \in Issues
      /\ i \in Held /\ tick'.pc = "persist" /\ tick'.issue = tick.issue
      /\ tick.issue \in Issues
  BY <1>1 DEF Resubmit, tracker, Held, IInv, IssuesOK, TickOK, TickStates
<1>3. /\ j \in Jobs /\ owner[j] = None /\ i # None
      /\ \A k \in Jobs : owner'[k] = IF k = j THEN tick.issue ELSE owner[k]
      /\ \A k \in Jobs : owner[k] \in Issues => k < j
  BY <1>1, <1>2, StartNewest, LoopAssumption DEF Kept
<1>4. Counted(i)
  BY <1>2 DEF CountInv, Fresh
<1>5. CASE i = tick.issue
  <2>1. footer[i] = tick.rec /\ owner[tick.rec.start] = i /\ tick.rec \in RunRecords
    BY <1>2, <1>5 DEF ReadInv, Held, Kept, OwnedInv, IInv, TickOK
  <2>2. footer[i].start \in Jobs /\ footer[i].start < j
    BY <1>2, <1>3, <2>1 DEF RunRecords
  <2>3. RunJobs(i)' = RunJobs(i) \cup {j} /\ j \notin RunJobs(i)
    BY <1>2, <1>3, <1>5, <2>2, LoopAssumption DEF RunJobs, Jobs
  <2>4. Cardinality(RunJobs(i)') = Cardinality(RunJobs(i)) + 1
    BY <1>2, <2>3, RunJobsFinite, FS_AddElement
  <2>5. footer[i].fixes \in Nat /\ footer[i].redispatches \in Nat
    BY <2>1 DEF RunRecords
  <2>6. Cardinality(RunJobs(i)) = 1 + footer[i].fixes + footer[i].redispatches
    BY <1>2, <1>4, <2>5 DEF Counted
  <2> QED BY <1>2, <1>4, <1>5, <2>4, <2>5, <2>6 DEF Counted
<1>6. CASE i # tick.issue
  BY <1>2, <1>3, <1>4, <1>6, CountFrame
<1> QED BY <1>5, <1>6

(* The footer counts it, within the budget. *)
LEMMA PersistCount ==
  ASSUME IInv, Places, Kept, ReadInv, CountInv, Persist
  PROVE  CountInv'
<1> SUFFICES ASSUME NEW i \in Held', ~Fresh(recv', i)
             PROVE  Counted(i)'
  BY DEF CountInv
<1>1. /\ UNCHANGED <<open, locked, recv, owner>> /\ tick.pc = "persist" /\ i \in Issues
      /\ i \in Held /\ tick' = Done /\ tick.issue \in Issues /\ tick.rec \in RunRecords
      /\ tick.job \in Jobs
      /\ tick.action \in {"fix_forward", "redispatch"}
  BY DEF Persist, service, Held, IInv, IssuesOK, TickOK, Kept, BudgetInv
<1>2. tick'.pc # "persist"
  BY <1>1, DoneRests DEF IInv, TickOK
<1>3. Counted(i)
  BY <1>1 DEF CountInv, Fresh
<1>4. CASE i = tick.issue
  <2>1. footer[i] = tick.rec
    BY <1>1, <1>4 DEF ReadInv, Held
  <2>2. footer'[i] =
          [tick.rec EXCEPT !.job = tick.job,
             !.fixes = @ + (IF tick.action = "fix_forward" THEN 1 ELSE 0),
             !.redispatches = @ + (IF tick.action = "redispatch" THEN 1 ELSE 0)]
    BY <1>1, <1>4 DEF Persist, IInv, IssuesOK
  <2>3. /\ footer'[i].job = tick.job /\ footer'[i].start = tick.rec.start
        /\ footer'[i].fixes = tick.rec.fixes + (IF tick.action = "fix_forward" THEN 1 ELSE 0)
        /\ footer'[i].redispatches =
             tick.rec.redispatches + (IF tick.action = "redispatch" THEN 1 ELSE 0)
        /\ tick.rec.fixes \in Nat /\ tick.rec.redispatches \in Nat
    BY <1>1, <2>2 DEF RunRecords
  <2>4. footer'[i] # NoRecord
    BY <1>1, <2>3, LoopAssumption DEF NoRecord, Jobs, None
  <2>5. RunJobs(i)' = RunJobs(i)
    BY <1>1, <2>1, <2>3 DEF RunJobs
  <2>6. Cardinality(RunJobs(i)) = 2 + tick.rec.fixes + tick.rec.redispatches
    BY <1>1, <1>3, <1>4, <2>1, <2>3 DEF Counted
  <2>7. Cardinality(RunJobs(i)') = 1 + footer'[i].fixes + footer'[i].redispatches
    BY <1>1, <2>3, <2>5, <2>6
  <2>8. /\ footer'[i].fixes > 0 => footer'[i].fixes <= FixForwardMaxAttempts
        /\ footer'[i].redispatches <= MaxRedispatchAttempts
    BY <1>1, <1>3, <2>1, <2>3, RunConfigAssumption DEF Counted, Kept, BudgetInv
  <2>9. footer'[i].fixes \in Nat /\ footer'[i].redispatches \in Nat
    BY <2>3
  <2> QED BY <1>2, <2>4, <2>7, <2>8, <2>9 DEF Counted
<1>5. CASE i # tick.issue
  <2>1. footer'[i] = footer[i]
    BY <1>1, <1>5 DEF Persist, IInv, IssuesOK
  <2> QED BY <1>1, <1>2, <1>3, <1>5, <2>1, CountFrame
<1> QED BY <1>4, <1>5

(* A job that starts under no lock, or a label that is put on, is fresh. *)
LEMMA DispatchCount ==
  ASSUME IInv, Places, ReceiverSubmits \/ DrainSubmits \/ ReceiverStamps \/ DrainStamps
  PROVE  CountInv'
<1>1. CASE ReceiverSubmits \/ DrainSubmits
  <2>1. Held' = Held /\ Held = {}
    BY <1>1, SameHeld DEF ReceiverSubmits, DrainSubmits, tracker, Places, ClaimInv, Claiming
  <2> QED BY <2>1 DEF CountInv
<1>2. CASE ReceiverStamps
  <2>1. Held' \subseteq {recv.issue} /\ Fresh(recv', recv.issue)
    BY <1>2 DEF ReceiverStamps, Places, ClaimInv, Claiming, Held, Fresh, IInv, RecvOK, RecvStates
  <2> QED BY <2>1 DEF CountInv
<1>3. CASE DrainStamps
  <2>1. Held' \subseteq {tick.issue} /\ Fresh(tick', tick.issue)
    BY <1>3 DEF DrainStamps, Places, ClaimInv, Claiming, Held, Fresh, IInv, TickOK, TickStates
  <2> QED BY <2>1 DEF CountInv
<1> QED BY <1>1, <1>2, <1>3

(* The steps that neither start nor record a job. *)
Uncounting ==
  ~(ReceiverSubmits \/ DrainSubmits \/ ReceiverStamps \/ DrainStamps
      \/ ReceiverRecords \/ DrainRecords \/ Resubmit \/ Persist)

(* They leave the comments' records and the locks that stay as they were.   *)
LEMMA UncountingTracker ==
  ASSUME IInv, [Next]_vars, Uncounting
  PROVE  footer' = footer /\ locked' \subseteq locked
<1>1. CASE Receiver \/ Tick
  BY <1>1 DEF Uncounting, Receiver, Tick, ListReady, ReadLock, ListHeld, ReadComments, ReadTurn,
     Judge, Unlock, Close, HandOver, tracker
<1>2. CASE Environment
  BY <1>2 DEF Environment, Receive, ReceiverFails, TickFails, TurnUnknown, Restart, Declare,
     JobEnds, CiReports, RunAges, CommitAges, Forget, PersonRelabels, PersonCloses,
     PersonReopens, tracker
<1>3. CASE UNCHANGED vars
  BY <1>3 DEF vars, tracker
<1> QED BY <1>1, <1>2, <1>3 DEF Next

(* They keep an actor that has a fresh job at its place, unless a call      *)
(* fails or the pod is replaced.                                            *)
LEMMA UncountingRecv ==
  ASSUME IInv, [Next]_vars, Uncounting, Orderly', "cut" \notin disorder'
  PROVE  recv.pc \in {"stamp", "record"} => recv' = recv
<1>0. faults' = faults /\ faults \in Nat
  BY OrderlyBefore DEF IInv, CountsOK
<1>1. CASE Receiver \/ Tick
  BY <1>1 DEF Uncounting, Receiver, Tick, ListReady, ReadLock, ListHeld, ReadComments, ReadTurn,
     Judge, Unlock, Close, HandOver
<1>2. CASE Environment
  <2>1. ~ReceiverFails
    BY <1>0 DEF ReceiverFails
  <2>2. CASE Restart
    BY <2>2 DEF Restart
  <2>3. CASE \E i \in Issues : Receive(i)
    BY <2>3 DEF Receive
  <2>4. CASE ~Restart /\ ~\E i \in Issues : Receive(i)
    BY <1>2, <2>1, <2>4 DEF Environment, TickFails, TurnUnknown, Declare, JobEnds, CiReports,
       RunAges, CommitAges, Forget, PersonRelabels, PersonCloses, PersonReopens
  <2> QED BY <2>2, <2>3, <2>4
<1>3. CASE UNCHANGED vars
  BY <1>3 DEF vars
<1> QED BY <1>1, <1>2, <1>3 DEF Next

(* So does the tick, and it comes to no uncounted job. *)
LEMMA UncountingTick ==
  ASSUME IInv, [Next]_vars, Uncounting, Orderly'
  PROVE  \/ tick' = tick
         \/ tick.pc \notin {"stamp", "record", "persist"} /\ tick'.pc # "persist"
<1>0. faults' = faults /\ faults \in Nat /\ tick \in TickStates
  BY OrderlyBefore DEF IInv, CountsOK, TickOK
<1>1. ~TickFails /\ ~TurnUnknown
  BY <1>0 DEF TickFails, TurnUnknown
<1>2. CASE Tick
  <2>1. CASE ReadLock
    BY <2>1 DEF ReadLock, Resting
  <2>2. CASE ListHeld
    BY <2>2 DEF ListHeld, Resting
  <2>3. CASE Judge
    <3>1. tick.pc = "judge" /\ tick'.pc \in {"idle", "next", "resubmit", "unlock"}
      BY <2>3, JudgeTyped DEF IInv, Judge
    <3> QED BY <3>1
  <2>4. CASE ReadComments
    <3>1. tick.pc = "next" /\ tick'.pc \in {"turn", "unlock"}
      BY <1>0, <2>4 DEF ReadComments, TickStates
    <3> QED BY <3>1
  <2>5. CASE ListReady \/ ReadTurn \/ Unlock
    <3>1. tick.pc \in {"idle", "turn", "unlock"} /\ tick'.pc \in {"listed", "judge", "close", "hand"}
      BY <1>0, <2>5 DEF ListReady, ReadTurn, Unlock, TickStates
    <3> QED BY <3>1
  <2>6. CASE Close \/ HandOver
    <3>1. tick.pc \in {"close", "hand"} /\ tick' = Done
      BY <2>6 DEF Close, HandOver
    <3> QED BY <1>0, <3>1, DoneRests
  <2> QED BY <1>2, <2>1, <2>2, <2>3, <2>4, <2>5, <2>6 DEF Tick, Uncounting
<1>3. CASE ~Tick
  BY <1>1, <1>3 DEF Next, Receiver, Environment, Uncounting, Receive, ReceiverFails, Restart, Declare,
     JobEnds, CiReports, RunAges, CommitAges, Forget, PersonRelabels, PersonCloses,
     PersonReopens, vars
<1> QED BY <1>2, <1>3

(* So they keep every count. *)
LEMMA UncountingCount ==
  ASSUME IInv, CountInv, [Next]_vars, Uncounting, Orderly', "cut" \notin disorder'
  PROVE  CountInv'
<1> SUFFICES ASSUME NEW i \in Held', ~Fresh(tick', i), ~Fresh(recv', i)
             PROVE  Counted(i)'
  BY DEF CountInv
<1>1. owner' = owner /\ footer' = footer
  BY UncountingTracker, FreshStays DEF Uncounting
<1>2. i \in Held /\ i \in Issues
  BY UncountingTracker, LockedStaysClosed DEF Held, IInv, IssuesOK
<1>3. ~Fresh(recv, i)
  BY UncountingRecv DEF Fresh
<1>4. ~Fresh(tick, i) /\ ((tick'.issue = i /\ tick'.pc = "persist") <=> (tick.issue = i /\ tick.pc = "persist"))
  BY UncountingTick DEF Fresh
<1>5. Counted(i)
  BY <1>2, <1>3, <1>4 DEF CountInv
<1> QED BY <1>1, <1>2, <1>4, <1>5, CountFrame

(* Every step of an orderly history that cuts no dispatch keeps the counts. *)
LEMMA StepCount ==
  ASSUME IInv, Places, Kept, NewestInv, ReadInv, CountInv, [Next]_vars, Orderly', "cut" \notin disorder'
  PROVE  CountInv'
BY ReceiverRecordsCount, DrainRecordsCount, ResubmitCount, PersistCount, DispatchCount, UncountingCount
   DEF Uncounting

(* What the footer knows, in any history. *)
Reading == Orderly => NewestInv /\ ReadInv
Counting == Orderly /\ "cut" \notin disorder => CountInv

(* A cut dispatch is not forgotten. *)
LEMMA CutBefore ==
  ASSUME [Next]_vars, "cut" \notin disorder'
  PROVE  "cut" \notin disorder
<1>1. CASE Receiver \/ Tick
  BY <1>1 DEF Receiver, Tick, ReceiverSubmits, ReceiverStamps, ReceiverRecords, ListReady,
     ReadLock, DrainSubmits, DrainStamps, DrainRecords, ListHeld, ReadComments, ReadTurn,
     Judge, Unlock, Close, HandOver, Resubmit, Persist, history
<1>2. CASE Environment
  BY <1>2 DEF Environment, Receive, ReceiverFails, TickFails, TurnUnknown, Restart, Declare,
     JobEnds, CiReports, RunAges, CommitAges, Forget, PersonRelabels, PersonCloses,
     PersonReopens, history
<1>3. CASE UNCHANGED vars
  BY <1>3 DEF vars, history
<1> QED BY <1>1, <1>2, <1>3 DEF Next

(* What the tick has read, and that a fresh job is its issue's newest.      *)
THEOREM ReadingInvariant == Spec => []Reading
<1>1. Init => Reading
  BY DEF Init, Resting, Listening, Reading, NewestInv, ReadInv
<1>2. IInv /\ Calm /\ Kept /\ Reading /\ [Next]_vars => Reading'
  BY OrderlyBefore, StepNewest, StepRead DEF Calm, Kept, Reading
<1> QED BY <1>1, <1>2, LoopInvariant, CalmInvariant, KeptInvariant, PTL DEF Spec

(* The footer of a locked open issue counts every job of its run, and both  *)
(* budgets bound them, whatever the tick and the agents do between its      *)
(* calls: no corrective turn and no restart is ever free.                   *)
THEOREM FooterAccounts == Spec => []FooterCountsJobs
<1>1. Init => Counting
  <2> SUFFICES ASSUME Init
               PROVE  CountInv
    BY DEF Counting
  <2>1. Held = {}
    BY DEF Init, Held
  <2> QED BY <2>1 DEF CountInv
<1>2. IInv /\ Calm /\ Kept /\ Reading /\ Counting /\ [Next]_vars => Counting'
  BY OrderlyBefore, CutBefore, StepCount DEF Calm, Reading, Counting
<1>3. Counting => FooterCountsJobs
  BY DEF Counting, CountInv, Counted, RunJobs, FooterCountsJobs
<1> QED BY <1>1, <1>2, <1>3, LoopInvariant, CalmInvariant, KeptInvariant, ReadingInvariant, PTL DEF Spec

-----------------------------------------------------------------------------
(* The contract with the service. *)

LEMMA StatusMoves ==
  ASSUME IInv, [Next]_vars
  PROVE  \/ status' = status
         \/ \E i \in Issues, j \in Unused : Start(i, j)
         \/ \E j \in Jobs : JobEnds(j) \/ Forget(j)
         \/ Restart
<1>1. CASE Receiver
  BY <1>1 DEF Receiver, ReceiverSubmits, ReceiverStamps, ReceiverRecords, service, IInv, RecvOK
<1>2. CASE Tick
  <2>1. CASE DrainSubmits \/ Resubmit
    BY <2>1 DEF DrainSubmits, Resubmit, IInv, TickOK
  <2>2. CASE ~(DrainSubmits \/ Resubmit)
    BY <1>2, <2>2 DEF Tick, ListReady, ReadLock, DrainStamps, DrainRecords, ListHeld, ReadComments,
       ReadTurn, Judge, Unlock, Close, HandOver, Persist, service
  <2> QED BY <2>1, <2>2
<1>3. CASE Environment
  BY <1>3 DEF Environment, Receive, ReceiverFails, TickFails, TurnUnknown, Declare, CiReports,
     RunAges, CommitAges, PersonRelabels, PersonCloses, PersonReopens, service
<1>4. CASE UNCHANGED vars
  BY <1>4 DEF vars, service
<1> QED BY <1>1, <1>2, <1>3, <1>4 DEF Next

(* The steps the loop expects of the service, but for its own clauses (who  *)
(* answers when, the bound, the history), are those the contract allows: an *)
(* end at any time, a record forgotten once it has ended, a new pod.        *)
THEOREM ServiceStepsAgree ==
  ASSUME TypeOK, NEW j \in Jobs
  PROVE  /\ JobEnds(j) <=>
              /\ Service!End(j, "ended", {}) /\ ServiceAnswers /\ abandoned' = abandoned \ {j}
              /\ UNCHANGED <<tracker, hooks, owner, ci, clocks, tick, recv, bounds, disorder>>
         /\ Forget(j) <=>
              /\ Service!Forget({j}) /\ j \in Service!Ended /\ ServiceAnswers
              /\ May("loss") /\ losses' = losses + 1
              /\ UNCHANGED <<tracker, hooks, owner, ci, clocks, tick, recv, faults, touches, history>>
         /\ Restart <=>
              /\ Service!Replace /\ May("loss") /\ losses' = losses + 1
              /\ disorder' = disorder \cup (IF recv.pc # "idle" THEN {"cut"} ELSE {})
              /\ recv' = Listening /\ abandoned' = {}
              /\ UNCHANGED <<tracker, hooks, owner, ci, clocks, tick, faults, touches>>
<1>0. status \in [Jobs -> {"unused", "live", "ended", "gone"}]
  BY DEF TypeOK
<1>1. /\ Service!Without({}, [status EXCEPT ![j] = "ended"]) = [status EXCEPT ![j] = "ended"]
      /\ Service!Without({j}, status) = [status EXCEPT ![j] = "gone"]
  BY <1>0 DEF Service!Without
<1>2. ASSUME status' = [status EXCEPT ![j] = "ended"] PROVE Live' = Live \ {j}
  BY <1>0, <1>2 DEF Live
<1>3. ASSUME status' = [status EXCEPT ![j] = "gone"], status[j] = "ended" PROVE Live' = Live
  BY <1>0, <1>3 DEF Live
<1>4. ASSUME status' = [k \in Jobs |-> IF status[k] = "unused" THEN "unused" ELSE "gone"]
      PROVE  Live' = {}
  BY <1>4 DEF Live
<1>5. j \in Service!Ended <=> status[j] = "ended"
  BY DEF Service!Ended
<1>6. Service!End(j, "ended", {}) <=> status[j] = "live" /\ status' = [status EXCEPT ![j] = "ended"]
  BY <1>1, <1>2 DEF Service!End
<1>7. status[j] = "ended" =>
        (Service!Forget({j}) <=> status' = [status EXCEPT ![j] = "gone"])
  BY <1>1, <1>3 DEF Service!Forget
<1>8. Service!Replace <=> status' = [k \in Jobs |-> IF status[k] = "unused" THEN "unused" ELSE "gone"]
  BY <1>4 DEF Service!Replace
<1> QED BY <1>5, <1>6, <1>7, <1>8 DEF JobEnds, Forget, Restart

(* And the loop asks no more of it: whatever the handler, the tick, people  *)
(* and mishaps do, what happens to the jobs is a behaviour of the contract. *)
THEOREM LoopMeetsService == Spec => ServiceSpec
<1>1. Init => Service!Init
  BY DEF Init, Service!Init, Live
<1>2. IInv /\ [Next]_vars => [Service!Next]_(Service!vars)
  <2> SUFFICES ASSUME IInv, [Next]_vars PROVE Service!Next \/ UNCHANGED Service!vars
    OBVIOUS
  <2>0. TypeOK /\ status \in [Jobs -> {"unused", "live", "ended", "gone"}]
    BY InvariantTyped DEF TypeOK
  <2>1. CASE status' = status
    BY <2>1 DEF Service!vars, Live
  <2>2. CASE \E i \in Issues, j \in Unused : Start(i, j)
    <3>1. PICK j \in Unused : status' = [status EXCEPT ![j] = "live"]
      BY <2>2 DEF Start
    <3>2. Live' = Live \cup {j} /\ j \in Jobs /\ status[j] = "unused"
      BY <2>0, <3>1 DEF Live, Unused
    <3> QED BY <3>1, <3>2 DEF Service!Accept, Service!Next
  <2>3. CASE \E j \in Jobs : JobEnds(j)
    <3>1. PICK j \in Jobs : Service!End(j, "ended", {})
      BY <2>0, <2>3, ServiceStepsAgree
    <3>2. {} \in SUBSET Service!Ended /\ "ended" \in {"ended"}
      OBVIOUS
    <3> QED BY <3>1, <3>2 DEF Service!Next
  <2>4. CASE \E j \in Jobs : Forget(j)
    <3>1. PICK j \in Jobs : Service!Forget({j}) /\ j \in Service!Ended
      BY <2>0, <2>4, ServiceStepsAgree
    <3> QED BY <3>1 DEF Service!Next
  <2>5. CASE Restart
    BY <2>5 DEF Restart, Service!Replace, Service!Next, Live
  <2> QED BY <2>1, <2>2, <2>3, <2>4, <2>5, StatusMoves
<1> QED BY <1>1, <1>2, LoopInvariant, PTL DEF Spec, ServiceSpec, Service!Spec
=============================================================================
