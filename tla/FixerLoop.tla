----------------------------- MODULE FixerLoop -----------------------------
(***************************************************************************)
(* The fixer's control loop on one repository whose CI the service follows *)
(* (app/fixer, app/afk).  Two actors start runs: the webhook receiver,     *)
(* inside the service, and the tick, a CronJob pod that talks to the       *)
(* tracker and to the service over HTTP.  They share nothing but the       *)
(* tracker: the in-progress label is the lock, and a footer in the issue's *)
(* comments is the bookkeeping of its run.  Every call to the tracker, to  *)
(* the service and to CI is a step of its own; what was read is kept and   *)
(* used later.                                                             *)
(*                                                                         *)
(* An issue is a number that orders it in the queue: the smallest is       *)
(* dispatched first.  Jobs are numbered as they start, and a job's number  *)
(* also names the commit it declares.                                      *)
(***************************************************************************)
EXTENDS RunStateMachine, FiniteSets

CONSTANTS
  Issues,      \* the issues of the repository, natural numbers
  Paused,      \* those that carry the paused label
  Delivered,   \* those whose first webhook delivery may arrive
  MaxJobs,     \* bound: how many jobs may start
  Mishaps,     \* what may go wrong: a subset of MishapKinds
  MaxMishaps   \* bound: faults, losses and touches together

Jobs == 1..MaxJobs
None == 0

(* A failed or lost call, or a crash of a tick or handler; job records lost *)
(* by the service; a person's hand on an issue.                             *)
MishapKinds == {"fault", "loss", "touch"}

(* A dispatch of one actor overlapped a dispatch of the other, or the       *)
(* other's look at the same issue; an issue came back with its lock, or its *)
(* run, that its being closed had hidden; a new pod cut a dispatch short; a *)
(* person labelled an issue for a human since the drain listed it.          *)
Disorders == {"overlap", "reopened", "cut", "labelled"}

ASSUME LoopAssumption ==
  /\ IsFiniteSet(Issues) /\ Issues \subseteq Nat \ {None} /\ Paused \cup Delivered \subseteq Issues
  /\ {MaxJobs, MaxMishaps} \subseteq Nat /\ Mishaps \subseteq MishapKinds

VARIABLES
  open,       \* issues that are open
  human,      \* issues labelled for a human
  locked,     \* issues with the in-progress label
  footer,     \* the last run record in each issue's comments
  marker,     \* the last commit declared in each issue's comments
  hooks,      \* webhook deliveries under way, by issue; one may never arrive
  status,     \* what the service knows of each job
  owner,      \* the issue each job was started for
  ci,         \* the pipeline of each job's commit
  late,       \* runs, by first job, that are past the deferral ceiling
  overdue,    \* commits declared longer ago than the verdict ceiling
  tick,       \* the tick: where it is and what it has read
  recv,       \* the webhook handler, likewise
  faults, losses, touches,  \* how often each kind of mishap happened
  abandoned,  \* history: live jobs whose lock was released
  disorder    \* history: which of Disorders happened

tracker == <<open, human, locked, footer, marker>>
service == <<status, owner>>
clocks == <<late, overdue>>
bounds == <<faults, losses, touches>>
history == <<abandoned, disorder>>
vars == <<tracker, hooks, service, ci, clocks, tick, recv, bounds, history>>

NoRecord == [job |-> None, start |-> None, fixes |-> 0, redispatches |-> 0]
Records == [job : Jobs, start : Jobs, fixes : Nat, redispatches : Nat] \cup {NoRecord}

(* The tick between two runs, and the handler between two deliveries. *)
Resting == [pc |-> "idle", ready |-> {}, todo |-> {}, issue |-> None, rec |-> NoRecord,
            commit |-> None, elapsed |-> 0, sincePush |-> NotKnown,
            turn |-> "unknown", action |-> "wait", job |-> None]
Listening == [pc |-> "idle", issue |-> None, job |-> None]

Init ==
  /\ open = Issues /\ human = {} /\ locked = {}
  /\ footer = [i \in Issues |-> NoRecord] /\ marker = [i \in Issues |-> None]
  /\ hooks = Delivered
  /\ status = [j \in Jobs |-> "unused"] /\ owner = [j \in Jobs |-> None]
  /\ ci = [j \in Jobs |-> "none"]
  /\ late = {} /\ overdue = {}
  /\ tick = Resting /\ recv = Listening
  /\ faults = 0 /\ losses = 0 /\ touches = 0
  /\ abandoned = {} /\ disorder = {}

May(kind) == kind \in Mishaps /\ faults + losses + touches < MaxMishaps

Live == {j \in Jobs : status[j] = "live"}
Unused == {j \in Jobs : status[j] = "unused"}

(* list_issues with the in-progress label: open issues only. *)
Held == locked \cap open

(* The receiver is synchronous: the service answers nobody while it works.  *)
ServiceAnswers == recv.pc = "idle"

-----------------------------------------------------------------------------
(* Starting a job. *)

(* An actor that has read the lock as free and has not stamped it yet. *)
Claiming(actor) == actor.pc \in {"submit", "stamp"}

(* A closed issue hides its lock: every lookup lists open issues only.  So  *)
(* these are the runs the repository is to be kept for.                     *)
Following == {j \in Live \ abandoned : owner[j] \in open}

(* /execute, or start_job in the service: job j is on record for issue i. *)
Start(i, j) ==
  /\ j \in Unused /\ \A k \in Unused : j <= k
  /\ status' = [status EXCEPT ![j] = "live"]
  /\ owner' = [owner EXCEPT ![j] = i]

FirstRecord(j) == [job |-> j, start |-> j, fixes |-> 0, redispatches |-> 0]

-----------------------------------------------------------------------------
(* The webhook handler. *)

(* The gates pass a trusted actor's delivery for an open, ready and not     *)
(* paused issue; then the lock is read.  Refused deliveries are dropped.    *)
Receive(i) ==
  /\ recv.pc = "idle" /\ i \in hooks
  /\ hooks' = hooks \ {i}
  /\ recv' = IF i \notin Paused /\ Held = {}
               THEN [recv EXCEPT !.pc = "submit", !.issue = i] ELSE recv
  /\ disorder' = disorder \cup (IF recv'.pc = "submit" /\ Claiming(tick) THEN {"overlap"} ELSE {})
  /\ UNCHANGED <<tracker, service, ci, clocks, tick, bounds, abandoned>>

ReceiverSubmits ==
  /\ recv.pc = "submit"
  /\ \E j \in Unused :
       /\ Start(recv.issue, j)
       /\ recv' = [recv EXCEPT !.pc = "stamp", !.job = j]
  /\ UNCHANGED <<tracker, hooks, ci, clocks, tick, bounds, history>>

ReceiverStamps ==
  /\ recv.pc = "stamp"
  /\ locked' = locked \cup {recv.issue}
  /\ recv' = [recv EXCEPT !.pc = "record"]
  /\ UNCHANGED <<open, human, footer, marker, hooks, service, ci, clocks, tick, bounds, history>>

ReceiverRecords ==
  /\ recv.pc = "record"
  /\ footer' = [footer EXCEPT ![recv.issue] = FirstRecord(recv.job)]
  /\ recv' = Listening
  /\ UNCHANGED <<open, human, locked, marker, hooks, service, ci, clocks, tick, bounds, history>>

(* A tracker call or the submission fails, before or after it took effect.  *)
ReceiverFails ==
  /\ recv.pc # "idle" /\ May("fault")
  /\ faults' = faults + 1
  /\ recv' = Listening
  /\ UNCHANGED <<tracker, hooks, service, ci, clocks, tick, losses, touches, history>>

-----------------------------------------------------------------------------
(* The tick: first the drain, then the watch. *)

(* Mutant: the queue is read without the escalation gate. *)
ListReadyOfAll ==
  /\ tick.pc = "idle"
  /\ tick' = [tick EXCEPT !.pc = "listed", !.ready = open]
  /\ disorder' = disorder \ {"labelled"}
  /\ UNCHANGED <<tracker, hooks, service, ci, clocks, recv, bounds, abandoned>>

(* list_ready: the open issues with the trigger label, trusted and not      *)
(* blocked, that no human holds.  The poller does not look at paused.       *)
ListReady ==
  /\ tick.pc = "idle"
  /\ tick' = [tick EXCEPT !.pc = "listed", !.ready = open \ human]
  /\ disorder' = disorder \ {"labelled"}
  /\ UNCHANGED <<tracker, hooks, service, ci, clocks, recv, bounds, abandoned>>

(* The first issue of the queue. *)
First(i) == i \in tick.ready /\ \A k \in tick.ready : i <= k

(* Mutant: the drain does not ask which issues are in progress. *)
ReadLockNot ==
  /\ tick.pc = "listed"
  /\ \/ \E i \in Issues : First(i) /\ tick' = [Resting EXCEPT !.pc = "submit", !.issue = i]
     \/ tick.ready = {} /\ tick' = [Resting EXCEPT !.pc = "watch"]
  /\ disorder' = disorder \cup (IF tick'.pc = "submit" /\ Claiming(recv) THEN {"overlap"} ELSE {})
  /\ UNCHANGED <<tracker, hooks, service, ci, clocks, recv, bounds, abandoned>>

(* Mutant: the label is stamped before the job is submitted. *)
ReadLockAndStamp ==
  /\ tick.pc = "listed"
  /\ \/ /\ Held = {}
        /\ \E i \in Issues :
             /\ First(i)
             /\ locked' = locked \cup {i}
             /\ tick' = [Resting EXCEPT !.pc = "submit", !.issue = i]
     \/ /\ tick.ready = {} \/ Held # {}
        /\ tick' = [Resting EXCEPT !.pc = "watch"]
        /\ UNCHANGED locked
  /\ UNCHANGED <<open, human, footer, marker, hooks, service, ci, clocks, recv, bounds, history>>

(* list_in_progress and the dispatch policy: the best issue, or none.       *)
ReadLock ==
  /\ tick.pc = "listed"
  /\ \/ /\ Held = {}
        /\ \E i \in Issues : First(i) /\ tick' = [Resting EXCEPT !.pc = "submit", !.issue = i]
     \/ /\ tick.ready = {} \/ Held # {}
        /\ tick' = [Resting EXCEPT !.pc = "watch"]
  /\ disorder' = disorder \cup (IF tick'.pc = "submit" /\ Claiming(recv) THEN {"overlap"} ELSE {})
  /\ UNCHANGED <<tracker, hooks, service, ci, clocks, recv, bounds, abandoned>>

DrainSubmits ==
  /\ tick.pc = "submit" /\ ServiceAnswers
  /\ \E j \in Unused :
       /\ Start(tick.issue, j)
       /\ tick' = [tick EXCEPT !.pc = "stamp", !.job = j]
  /\ UNCHANGED <<tracker, hooks, ci, clocks, recv, bounds, history>>

DrainStamps ==
  /\ tick.pc = "stamp"
  /\ locked' = locked \cup {tick.issue}
  /\ tick' = [tick EXCEPT !.pc = "record"]
  /\ UNCHANGED <<open, human, footer, marker, hooks, service, ci, clocks, recv, bounds, history>>

(* _write_footer; that it gives up after three attempts is a TickFails.     *)
DrainRecords ==
  /\ tick.pc = "record"
  /\ footer' = [footer EXCEPT ![tick.issue] = FirstRecord(tick.job)]
  /\ tick' = [Resting EXCEPT !.pc = "watch"]
  /\ UNCHANGED <<open, human, locked, marker, hooks, service, ci, clocks, recv, bounds, history>>

ListHeld ==
  /\ tick.pc = "watch"
  /\ tick' = IF Held = {} THEN Resting ELSE [Resting EXCEPT !.pc = "next", !.todo = Held]
  /\ UNCHANGED <<tracker, hooks, service, ci, clocks, recv, bounds, history>>

(* The tick goes on with the rest of its list, or ends. *)
Rest(todo) == IF todo = {} THEN Resting ELSE [Resting EXCEPT !.pc = "next", !.todo = todo]
Done == Rest(tick.todo \ {tick.issue})

(* list_comments: the run record, the declared commit (of any run) and the  *)
(* age of both.  A clock stands at zero or at its ceiling.                  *)
ReadComments ==
  /\ tick.pc = "next"
  /\ \E i \in tick.todo :
       /\ tick' = [tick EXCEPT !.issue = i, !.rec = footer[i], !.commit = marker[i],
                     !.pc = IF footer[i] = NoRecord THEN "unlock" ELSE "turn",
                     !.action = IF footer[i] = NoRecord THEN "orphan" ELSE "wait",
                     !.elapsed = IF footer[i].start \in late THEN CloseDeferMaxSeconds ELSE 0,
                     !.sincePush = IF marker[i] = None THEN NotKnown
                                   ELSE IF marker[i] \in overdue THEN CiVerdictMaxSeconds ELSE 0]
       /\ disorder' = disorder \cup (IF recv.pc = "record" /\ recv.issue = i THEN {"overlap"} ELSE {})
  /\ UNCHANGED <<tracker, hooks, service, ci, clocks, recv, bounds, abandoned>>

(* What a job's record says of its turn.  A record keeps its verdict; which *)
(* one it was is chosen when it is read.                                    *)
TurnsOf(j) ==
  CASE status[j] = "live" -> {"running"}
    [] status[j] = "ended" -> {"idle", "error"}
    [] OTHER -> {"vanished"}

ReadTurn ==
  /\ tick.pc = "turn" /\ ServiceAnswers
  /\ \E turn \in TurnsOf(tick.rec.job) : tick' = [tick EXCEPT !.pc = "judge", !.turn = turn]
  /\ UNCHANGED <<tracker, hooks, service, ci, clocks, recv, bounds, history>>

(* The service cannot be asked. *)
TurnUnknown ==
  /\ tick.pc = "turn" /\ May("fault")
  /\ faults' = faults + 1
  /\ tick' = [tick EXCEPT !.pc = "judge", !.turn = "unknown"]
  /\ UNCHANGED <<tracker, hooks, service, ci, clocks, recv, losses, touches, history>>

(* The run as the state machine sees it. *)
RunState ==
  [turn |-> tick.turn, pushed |-> tick.commit # None,
   ci |-> IF tick.commit = None THEN "none" ELSE ci[tick.commit],
   fixes |-> tick.rec.fixes, redispatches |-> tick.rec.redispatches,
   elapsed |-> tick.elapsed, sincePush |-> tick.sincePush]

(* The verdict on the commit is read and the state machine asked. *)
Judge ==
  /\ tick.pc = "judge"
  /\ LET action == NextAction(RunState)
         Do(pc) == [tick EXCEPT !.pc = pc, !.action = action, !.turn = "unknown",
                      !.elapsed = 0, !.sincePush = NotKnown]
     IN tick' = CASE action = "wait" -> Done
                  [] action \in {"fix_forward", "redispatch"} -> Do("resubmit")
                  [] OTHER -> Do("unlock")
  /\ UNCHANGED <<tracker, hooks, service, ci, clocks, recv, bounds, history>>

(* Every way a run ends begins with the lock. *)
Unlock ==
  /\ tick.pc = "unlock"
  /\ locked' = locked \ {tick.issue}
  /\ tick' = [tick EXCEPT !.pc = IF tick.action = "close_success" THEN "close" ELSE "hand"]
  /\ abandoned' = abandoned \cup (Live \cap {tick.rec.job})
  /\ UNCHANGED <<open, human, footer, marker, hooks, service, ci, clocks, recv, bounds, disorder>>

Close ==
  /\ tick.pc = "close"
  /\ open' = open \ {tick.issue}
  /\ tick' = Done
  /\ UNCHANGED <<human, locked, footer, marker, hooks, service, ci, clocks, recv, bounds, history>>

(* _escalate and _hand_over_orphan. *)
HandOver ==
  /\ tick.pc = "hand"
  /\ human' = human \cup {tick.issue}
  /\ tick' = Done
  /\ UNCHANGED <<open, locked, footer, marker, hooks, service, ci, clocks, recv, bounds, history>>

(* _fix_forward and _redispatch start the job; _persist records it later.   *)
Resubmit ==
  /\ tick.pc = "resubmit" /\ ServiceAnswers
  /\ \E j \in Unused :
       /\ Start(tick.issue, j)
       /\ tick' = [tick EXCEPT !.pc = "persist", !.job = j]
  /\ UNCHANGED <<tracker, hooks, ci, clocks, recv, bounds, history>>

(* Mutant: a corrective turn is recorded without being counted. *)
PersistUncounted ==
  /\ tick.pc = "persist"
  /\ footer' = [footer EXCEPT ![tick.issue] = [tick.rec EXCEPT !.job = tick.job]]
  /\ tick' = Done
  /\ UNCHANGED <<open, human, locked, marker, hooks, service, ci, clocks, recv, bounds, history>>

Persist ==
  /\ tick.pc = "persist"
  /\ footer' = [footer EXCEPT ![tick.issue] =
       [tick.rec EXCEPT !.job = tick.job,
          !.fixes = @ + (IF tick.action = "fix_forward" THEN 1 ELSE 0),
          !.redispatches = @ + (IF tick.action = "redispatch" THEN 1 ELSE 0)]]
  /\ tick' = Done
  /\ UNCHANGED <<open, human, locked, marker, hooks, service, ci, clocks, recv, bounds, history>>

(* A call fails, before or after it took effect, or the pod dies: the drain *)
(* goes over to the watch, and a watch, or the whole tick, ends.            *)
TickFails ==
  /\ tick.pc # "idle" /\ May("fault")
  /\ faults' = faults + 1
  /\ \/ tick' = Resting
     \/ tick.pc \in {"listed", "submit", "stamp", "record"} /\ tick' = [Resting EXCEPT !.pc = "watch"]
  /\ UNCHANGED <<tracker, hooks, service, ci, clocks, recv, losses, touches, history>>

-----------------------------------------------------------------------------
(* The agents, CI, time, the pod and people. *)

(* The agent pushes and declares its commit in a comment. *)
Declare(j) ==
  /\ status[j] = "live" /\ ci[j] = "none" /\ recv.job # j
  /\ ci' = [ci EXCEPT ![j] = "pending"]
  /\ marker' = [marker EXCEPT ![owner[j]] = j]
  /\ UNCHANGED <<open, human, locked, footer, hooks, service, clocks, tick, recv, bounds, history>>

JobEnds(j) ==
  /\ status[j] = "live" /\ ServiceAnswers
  /\ status' = [status EXCEPT ![j] = "ended"]
  /\ abandoned' = abandoned \ {j}
  /\ UNCHANGED <<tracker, hooks, owner, ci, clocks, tick, recv, bounds, disorder>>

(* A verdict is told apart while somebody may read it, and the age of a     *)
(* commit while it has none.                                                *)
Awaited(j) == ci[j] = "pending" /\ owner[j] \in Held /\ marker[owner[j]] = j

CiReports(j) ==
  /\ Awaited(j)
  /\ \E verdict \in {"green", "red"} : ci' = [ci EXCEPT ![j] = verdict]
  /\ overdue' = overdue \ {j}
  /\ UNCHANGED <<tracker, hooks, service, late, tick, recv, bounds, history>>

(* The age of a run is told apart once it has a commit to defer. *)
RunAges(j) ==
  /\ \E i \in Held : footer[i].start = j /\ marker[i] # None
  /\ j \notin late
  /\ late' = late \cup {j}
  /\ UNCHANGED <<tracker, hooks, service, ci, overdue, tick, recv, bounds, history>>

CommitAges(j) ==
  /\ Awaited(j) /\ j \notin overdue
  /\ overdue' = overdue \cup {j}
  /\ UNCHANGED <<tracker, hooks, service, ci, late, tick, recv, bounds, history>>

(* The pod is replaced: its jobs die and its records are gone. *)
Restart ==
  /\ May("loss") /\ losses' = losses + 1
  /\ status' = [j \in Jobs |-> IF status[j] = "unused" THEN "unused" ELSE "gone"]
  /\ disorder' = disorder \cup (IF recv.pc # "idle" THEN {"cut"} ELSE {})
  /\ recv' = Listening /\ abandoned' = {}
  /\ UNCHANGED <<tracker, hooks, owner, ci, clocks, tick, faults, touches>>

(* _evict_old_jobs forgets a finished job before a tick has looked at it.   *)
Forget(j) ==
  /\ May("loss") /\ losses' = losses + 1
  /\ status[j] = "ended" /\ ServiceAnswers
  /\ status' = [status EXCEPT ![j] = "gone"]
  /\ UNCHANGED <<tracker, hooks, owner, ci, clocks, tick, recv, faults, touches, history>>

(* The drain is about to start issue i, or may be. *)
Queued(i) ==
  \/ tick.pc = "listed" /\ i \in tick.ready
  \/ tick.pc = "submit" /\ i = tick.issue

(* A person puts the human label on, takes it off, or changes any other.    *)
PersonRelabels(i) ==
  /\ May("touch") /\ touches' = touches + 1
  /\ i \in open
  /\ human' \in {human, human \ {i}, human \cup {i}}
  /\ hooks' = hooks \cup {i}
  /\ disorder' = disorder \cup (IF i \in human' \ human /\ Queued(i) THEN {"labelled"} ELSE {})
  /\ UNCHANGED <<open, locked, footer, marker, service, ci, clocks, tick, recv, faults, losses, abandoned>>

PersonCloses(i) ==
  /\ May("touch") /\ touches' = touches + 1
  /\ i \in open /\ open' = open \ {i}
  /\ UNCHANGED <<human, locked, footer, marker, hooks, service, ci, clocks, tick, recv, faults, losses, history>>

PersonReopens(i) ==
  /\ May("touch") /\ touches' = touches + 1
  /\ i \in Issues \ open /\ open' = open \cup {i}
  /\ disorder' = disorder \cup (IF i \in locked \/ \E j \in Live \ abandoned : owner[j] = i THEN {"reopened"} ELSE {})
  /\ UNCHANGED <<human, locked, footer, marker, hooks, service, ci, clocks, tick, recv, faults, losses, abandoned>>

Receiver == ReceiverSubmits \/ ReceiverStamps \/ ReceiverRecords

Tick ==
  \/ ListReady \/ ReadLock \/ DrainSubmits \/ DrainStamps \/ DrainRecords
  \/ ListHeld \/ ReadComments \/ ReadTurn \/ Judge
  \/ Unlock \/ Close \/ HandOver \/ Resubmit \/ Persist

Environment ==
  \/ \E i \in Issues : Receive(i)
  \/ ReceiverFails \/ TickFails \/ TurnUnknown \/ Restart
  \/ \E j \in Jobs : Declare(j) \/ JobEnds(j) \/ CiReports(j) \/ RunAges(j) \/ CommitAges(j) \/ Forget(j)
  \/ \E i \in Issues : PersonRelabels(i) \/ PersonCloses(i) \/ PersonReopens(i)

Next == Receiver \/ Tick \/ Environment

Spec == Init /\ [][Next]_vars

(* The cluster keeps starting ticks, calls return, time passes, and an agent *)
(* ends unless CI has spoken on the commit it declared: that one may hang    *)
(* for ever.  Nothing is assumed of CI.                                      *)
MayHang(j) == ci[j] \in {"green", "red"} /\ marker[owner[j]] = j
FairSpec ==
  /\ Spec
  /\ WF_vars(Receiver) /\ WF_vars(Tick)
  /\ \A j \in Jobs :
       /\ WF_vars(~MayHang(j) /\ JobEnds(j))
       /\ WF_vars(RunAges(j)) /\ WF_vars(CommitAges(j))

-----------------------------------------------------------------------------
(* Properties. *)

TickPhases == {"idle", "listed", "submit", "stamp", "record", "watch", "next", "turn",
               "judge", "unlock", "close", "hand", "resubmit", "persist"}
TickStates ==
  [pc : TickPhases, ready : SUBSET Issues, todo : SUBSET Issues,
   issue : Issues \cup {None}, rec : Records, commit : Jobs \cup {None},
   elapsed : Nat, sincePush : Nat \cup {NotKnown},
   turn : Turns, action : Actions \cup {"orphan"}, job : Jobs \cup {None}]
RecvStates ==
  [pc : {"idle", "submit", "stamp", "record"}, issue : Issues \cup {None}, job : Jobs \cup {None}]

TypeOK ==
  /\ open \subseteq Issues /\ human \subseteq Issues /\ locked \subseteq Issues
  /\ footer \in [Issues -> Records] /\ marker \in [Issues -> Jobs \cup {None}]
  /\ hooks \subseteq Issues
  /\ status \in [Jobs -> {"unused", "live", "ended", "gone"}]
  /\ owner \in [Jobs -> Issues \cup {None}]
  /\ ci \in [Jobs -> Verdicts]
  /\ late \subseteq Jobs /\ overdue \subseteq Jobs
  /\ tick \in TickStates /\ recv \in RecvStates
  /\ faults \in Nat /\ losses \in Nat /\ touches \in Nat
  /\ faults + losses + touches <= MaxMishaps
  /\ abandoned \subseteq Jobs /\ disorder \subseteq Disorders

(* What CONTEXT.md:91-93 and receiver.py:15-17 say of the lock: at most one *)
(* run holds the repository at a time.                                      *)
OneRunPerRepo == Cardinality(Following) <= 1

(* What makes the lock fail, exhaustively: a failed call or a crash of an   *)
(* actor, a dispatch of the receiver that overlaps one of the tick, or the  *)
(* tick's look at the same issue, and an issue that a person closes and     *)
(* opens again while it is locked or its job runs.  Whatever the jobs, CI,  *)
(* the pod, people and the clocks do, without these a second turn never     *)
(* joins a live one whose lock was not released.                            *)
Orderly == faults = 0 /\ disorder \cap {"overlap", "reopened"} = {}
SecondRunExplained == Orderly => OneRunPerRepo

(* No phantom lock freezes the queue: the label is stamped after the        *)
(* submission (poller.py:130-137, receiver.py:159-161), so a locked issue   *)
(* has had a job, whichever call fails.                                     *)
LockHasRun == \A i \in locked : \E j \in Jobs : owner[j] = i

(* A tick that releases an issue on a green verdict has seen its commit     *)
(* green and its turn over, or the run past the deferral ceiling, and this  *)
(* still holds when the release happens.                                    *)
ClosesSettledRun ==
  Orderly /\ tick.pc = "unlock" /\ tick.action = "close_success" =>
    /\ ci[tick.commit] = "green" /\ owner[tick.commit] = tick.issue
    /\ tick.rec.start \in late \/ \A j \in Following : owner[j] # tick.issue

(* The footer knows every job of its run: as many were started since the    *)
(* run's first one as it counts, and one more while a tick is about to      *)
(* write it.  So both budgets bound the jobs of a run.  A pod that dies     *)
(* between the label and the footer breaks this.                            *)
Fresh(actor, i) == actor.issue = i /\ actor.pc \in {"stamp", "record"}
FooterCountsJobs ==
  Orderly /\ "cut" \notin disorder => \A i \in Held : ~Fresh(tick, i) /\ ~Fresh(recv, i) =>
    /\ footer[i] # NoRecord
    /\ footer[i].fixes > 0 => footer[i].fixes <= FixForwardMaxAttempts
    /\ footer[i].redispatches <= MaxRedispatchAttempts
    /\ Cardinality({j \in Jobs : owner[j] = i /\ j >= footer[i].start}) =
         1 + footer[i].fixes + footer[i].redispatches
           + (IF tick.issue = i /\ tick.pc = "persist" THEN 1 ELSE 0)

(* The drain starts an issue that is labelled for a human only where a      *)
(* person put the label on between the drain's list and its submission      *)
(* (poller.py:125-134): one the loop handed over stays out of the queue     *)
(* until a person takes the label off, however the hand-over ended.         *)
HandedOverStaysOut ==
  tick.pc = "submit" /\ tick.issue \in human => "labelled" \in disorder

(* No run holds the repository for ever, although agents may hang after     *)
(* their commit was judged and CI may never speak: every way out of a run   *)
(* is reached, through one of the two ceilings if need be.                  *)
LockReleased == \A i \in Issues : i \in Held ~> i \notin Held

(* Nothing is lost by being second (tick.py:6-10): an issue that waits in   *)
(* the queue is eventually picked up, closed, or handed to a person.        *)
NothingLost == \A i \in Issues : i \in open \ human ~> i \notin open \/ i \in human \cup locked

(* What the loop sees of its jobs is what the service promises of them.     *)
Service == INSTANCE JobService WITH
  Verdicts <- {"ended"}, record <- status, working <- Live
ServiceSpec == Service!Spec

(* What the docs say of the paused label: the next dispatch for its issue   *)
(* stops (CONTEXT.md:110-111), it is "skipped by poller and dispatch".      *)
PausedIsBrake == \A j \in Jobs : owner[j] \notin Paused

(* What the docstring of RunRecord says (runstate.py:37-38): commit is the  *)
(* sha the run pushed.  So an issue is closed on a commit of its current    *)
(* run, at least where the two actors kept out of each other's way.         *)
ClosedOnOwnCommit ==
  Orderly /\ tick.pc = "close" => tick.commit >= tick.rec.start
=============================================================================
