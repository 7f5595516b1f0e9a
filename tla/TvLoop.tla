------------------------------- MODULE TvLoop -------------------------------
(***************************************************************************)
(* The fixer's loop on the tv repository: labels asked for by its owner,   *)
(* replies that continue a run, and agents that follow their own build, so *)
(* that the service only watches for the end of a run (_watch_run_end in   *)
(* app/fixer/tick.py).  As in FixerLoop, the webhook handler and the tick  *)
(* share nothing but the tracker, and every call is a step; here the       *)
(* deliveries carry the labels of the moment they were sent, and both      *)
(* doors decide with the gates and the dispatch policy themselves.         *)
(*                                                                         *)
(* Jobs are numbered as they start, and a job's number is also the time    *)
(* its run started at: what an agent posts is stamped with the newest job. *)
(***************************************************************************)
EXTENDS RunStateMachine, Gates, DispatchPolicy, FiniteSets

CONSTANTS
  Issues,     \* issues of the repository, natural numbers
  Approved,   \* those their owner has approved, the others wait for it
  Blocked,    \* those whose body names a blocker
  Guest,      \* a collaborator who is not the owner
  MaxJobs,    \* bound: how many jobs may start
  MaxMishaps  \* bound: acts of people, failed calls and pod replacements

Jobs == 1..MaxJobs
None == 0

ASSUME TvAssumption ==
  /\ IsFiniteSet(Issues) /\ Issues \subseteq Nat \ {None} /\ Approved \cup Blocked \subseteq Issues
  /\ {MaxJobs, MaxMishaps} \subseteq Nat
  /\ Guest # Owner

VARIABLES
  open,      \* issues that are open
  labels,    \* the labels of each issue
  approver,  \* who applied the approved label last
  footer,    \* the last run record in each issue's comments
  shipped,   \* the time of the last "Fix shipped:" comment of each issue
  hooks,     \* deliveries under way; one may never arrive
  status,    \* what the service knows of each job
  owner,     \* the issue each job was started for
  tick, recv,            \* the tick and the webhook handler; history, in tick.late:
                         \* an agent reported after the tick read the comments
  acts, faults, losses,  \* how often each kind of mishap happened
  race,      \* history: a dispatch of one actor overlapped the other's
  asked,     \* history: issues their owner has asked a run for
  fresh,     \* history: issues their owner touched since their last start, or
             \* whose handler took up a reply of his since
  reply      \* history: replies admitted and not yet answered

tracker == <<open, labels, approver, footer, shipped, hooks>>
service == <<status, owner>>
bounds == <<acts, faults, losses>>
history == <<asked, fresh, reply>>
vars == <<tracker, service, tick, recv, bounds, race, history>>

NoRecord == [job |-> None, start |-> None, redispatches |-> 0]
Records == [job : Jobs, start : Jobs, redispatches : Nat] \cup {NoRecord}

Resting == [pc |-> "idle", ready |-> {}, sweep |-> FALSE, todo |-> {}, held |-> {}, issue |-> None,
            rec |-> NoRecord, shipped |-> FALSE, orphan |-> FALSE, late |-> FALSE, job |-> None]
Listening == [pc |-> "idle", issue |-> None, continuing |-> FALSE, human |-> FALSE, job |-> None]

Init ==
  /\ open = Issues /\ labels = [i \in Issues |-> {IF i \in Approved THEN "approved" ELSE ApprovalLabel}]
  /\ approver = [i \in Issues |-> IF i \in Approved THEN Owner ELSE FeedbackBot]
  /\ footer = [i \in Issues |-> NoRecord] /\ shipped = [i \in Issues |-> None]
  /\ hooks = {}
  /\ status = [j \in Jobs |-> "unused"] /\ owner = [j \in Jobs |-> None]
  /\ tick = Resting /\ recv = Listening
  /\ acts = 0 /\ faults = 0 /\ losses = 0
  /\ race = FALSE
  /\ asked = Approved /\ fresh = Approved /\ reply = {}

May == acts + faults + losses < MaxMishaps

Carrying(label) == {i \in Issues : label \in labels[i]}
Held == Carrying(InProgressLabel) \cap open
Live == {j \in Jobs : status[j] = "live"}
Unused == {j \in Jobs : status[j] = "unused"}

Add(i, label) == labels' = [labels EXCEPT ![i] = @ \cup {label}]
Remove(i, ls) == labels' = [labels EXCEPT ![i] = @ \ ls]

ServiceAnswers == recv.pc = "idle"

Start(i, j) ==
  /\ j \in Unused /\ \A k \in Unused : j <= k
  /\ status' = [status EXCEPT ![j] = "live"] /\ owner' = [owner EXCEPT ![j] = i]
  /\ fresh' = fresh \ {i} /\ reply' = reply \ {i}
  /\ UNCHANGED asked

(* Mutant: the record is written without the job it is of. *)
FirstRecordEarly(j) == [job |-> None, start |-> j, redispatches |-> 0]

FirstRecord(j) == [job |-> j, start |-> j, redispatches |-> 0]

-----------------------------------------------------------------------------
(* The webhook handler. *)

Deliver(i, event, actor, relay) ==
  [repo |-> "tv", event |-> event, actor |-> actor, issue |-> i, open |-> i \in open',
   action |-> IF event = "issues" THEN "label_updated" ELSE "created",
   labels |-> labels'[i], relay |-> relay]

(* What the two bots' own labels and comments deliver, at any time. *)
BotDeliveries ==
  {[repo |-> "tv", event |-> event, actor |-> bot, issue |-> i, open |-> i \in open,
    action |-> IF event = "issues" THEN "label_updated" ELSE "created",
    labels |-> labels[i], relay |-> FALSE]
    : i \in Issues, bot \in {Bot, FeedbackBot}, event \in {"issues", "issue_comment"}}

Receive(d) ==
  /\ recv.pc = "idle" /\ hooks' = hooks \ {d}
  /\ LET continuing == Decide(d) = "continue"
         clears == ~continuing /\ ClearedOf(d.repo, d.labels) # {}
     IN /\ recv' = IF Admitted(d)
                   THEN [recv EXCEPT !.pc = IF clears THEN "clear" ELSE "lock", !.issue = d.issue,
                           !.continuing = continuing, !.human = HumanLabel \in d.labels]
                   ELSE recv
        (* Where the drain would refuse the issue, or a label has changed   *)
        (* since the delivery was sent, a reply is nobody's to answer.      *)
        /\ reply' = IF continuing /\ d.issue \notin Blocked /\ approver[d.issue] = Owner
                       /\ d.labels = labels[d.issue] /\ d.issue \in open
                    THEN reply \cup {d.issue} ELSE reply
        /\ fresh' = IF continuing THEN fresh \cup {d.issue} ELSE fresh
  /\ UNCHANGED <<open, labels, approver, footer, shipped, service, tick, bounds, asked>>

ReceiverClears ==
  /\ recv.pc = "clear"
  /\ Remove(recv.issue, {ApprovalLabel})
  /\ recv' = [recv EXCEPT !.pc = "lock"]
  /\ UNCHANGED <<open, approver, footer, shipped, hooks, service, tick, bounds, history>>

(* Mutant: on a busy repository a reply is dropped like any delivery. *)
ReceiverReadsLockDrops ==
  /\ recv.pc = "lock"
  /\ recv' = IF Held = {} THEN [recv EXCEPT !.pc = "submit"] ELSE Listening
  /\ UNCHANGED <<tracker, service, tick, bounds, history>>

(* On a busy repository a delivery is dropped, but a reply to an issue that *)
(* a human holds gives it back to the queue.                                *)
ReceiverReadsLock ==
  /\ recv.pc = "lock"
  /\ recv' = IF Held = {} THEN [recv EXCEPT !.pc = "submit"]
             ELSE IF recv.continuing /\ recv.human THEN [recv EXCEPT !.pc = "release"]
             ELSE Listening
  /\ UNCHANGED <<tracker, service, tick, bounds, history>>

ReceiverSubmits ==
  /\ recv.pc = "submit"
  /\ \E j \in Unused :
       /\ Start(recv.issue, j)
       /\ recv' = [recv EXCEPT !.pc = "stamp", !.job = j]
  /\ UNCHANGED <<tracker, tick, bounds>>

ReceiverStamps ==
  /\ recv.pc = "stamp"
  /\ Add(recv.issue, InProgressLabel)
  /\ recv' = [recv EXCEPT !.pc = IF recv.continuing /\ recv.human THEN "release" ELSE "record"]
  /\ UNCHANGED <<open, approver, footer, shipped, hooks, service, tick, bounds, history>>

(* The human label goes: the run goes on, or, without one, the queue has it. *)
ReceiverReleases ==
  /\ recv.pc = "release"
  /\ Remove(recv.issue, {HumanLabel})
  /\ recv' = IF recv.job = None THEN Listening ELSE [recv EXCEPT !.pc = "record"]
  /\ UNCHANGED <<open, approver, footer, shipped, hooks, service, tick, bounds, history>>

ReceiverRecords ==
  /\ recv.pc = "record"
  /\ footer' = [footer EXCEPT ![recv.issue] = FirstRecord(recv.job)]
  /\ recv' = Listening
  /\ UNCHANGED <<open, labels, approver, shipped, hooks, service, tick, bounds, history>>

(* A call fails, before or after it took effect: the delivery is spent. *)
ReceiverFails ==
  /\ recv.pc # "idle" /\ May /\ faults' = faults + 1
  /\ recv' = Listening /\ reply' = reply \ {recv.issue}
  /\ UNCHANGED <<tracker, service, tick, acts, losses, asked, fresh>>

-----------------------------------------------------------------------------
(* The tick: the drain. *)

Raw(i) ==
  [repo |-> "tv", number |-> i, labels |-> labels[i] \cap {HumanLabel}, prios |-> {},
   timeline |-> <<[label |-> "approved", actor |-> approver[i]]>>,
   named |-> IF i \in Blocked THEN {None} ELSE {}]

ListReady ==
  /\ tick.pc = "idle"
  /\ tick' = [Resting EXCEPT !.pc = "listed", !.ready = {Raw(i) : i \in open \cap Carrying("approved")}]
  /\ UNCHANGED <<tracker, service, recv, bounds, history>>

ReadLock ==
  /\ tick.pc = "listed"
  /\ LET chosen == SelectDispatchable(tick.ready, IF Held = {} THEN {} ELSE {"tv"})
     IN \/ chosen = {} /\ tick' = [Resting EXCEPT !.pc = "watch"]
        \/ \E i \in chosen : tick' = [Resting EXCEPT !.pc = "submit", !.issue = i.number]
  /\ UNCHANGED <<tracker, service, recv, bounds, history>>

DrainSubmits ==
  /\ tick.pc = "submit" /\ ServiceAnswers
  /\ \E j \in Unused :
       /\ Start(tick.issue, j)
       /\ tick' = [tick EXCEPT !.job = j,
                     !.pc = IF ClearedOf("tv", labels[tick.issue]) = {} THEN "stamp" ELSE "clear"]
  /\ UNCHANGED <<tracker, recv, bounds>>

DrainClears ==
  /\ tick.pc = "clear"
  /\ Remove(tick.issue, {ApprovalLabel})
  /\ tick' = [tick EXCEPT !.pc = "stamp"]
  /\ UNCHANGED <<open, approver, footer, shipped, hooks, service, recv, bounds, history>>

DrainStamps ==
  /\ tick.pc = "stamp"
  /\ Add(tick.issue, InProgressLabel)
  /\ tick' = [tick EXCEPT !.pc = "record"]
  /\ UNCHANGED <<open, approver, footer, shipped, hooks, service, recv, bounds, history>>

DrainRecords ==
  /\ tick.pc = "record"
  /\ footer' = [footer EXCEPT ![tick.issue] = FirstRecord(tick.job)]
  /\ tick' = [Resting EXCEPT !.pc = "watch"]
  /\ UNCHANGED <<open, labels, approver, shipped, hooks, service, recv, bounds, history>>

-----------------------------------------------------------------------------
(* The tick: _watch_run_end, the open issues first, then the closed ones.   *)

Rest(todo) ==
  IF todo # {} THEN [Resting EXCEPT !.pc = "next", !.sweep = tick.sweep, !.todo = todo, !.held = tick.held]
  ELSE IF tick.sweep THEN Resting ELSE [Resting EXCEPT !.pc = "sweep"]
Done == Rest(tick.todo \ {tick.issue})

(* list_issues with the in-progress label, open or closed; held: those that *)
(* a human holds at this moment.                                            *)
List(pc, sweep, todo) ==
  /\ tick.pc = pc
  /\ tick' = IF todo # {}
             THEN [Resting EXCEPT !.pc = "next", !.sweep = sweep, !.todo = todo,
                     !.held = IF sweep THEN {} ELSE todo \cap Carrying(HumanLabel)]
             ELSE IF sweep THEN Resting ELSE [Resting EXCEPT !.pc = "sweep"]
  /\ UNCHANGED <<tracker, service, recv, bounds, history>>
ListHeld == List("watch", FALSE, Held)

(* Mutant: an issue the agent closed is not looked at again. *)
ListClosedNot == List("sweep", TRUE, {})

ListClosed == List("sweep", TRUE, Carrying(InProgressLabel) \ open)

(* Mutant: what an earlier job of the run shipped is not counted. *)
ShippedSinceJob(i, rec) == rec # NoRecord /\ shipped[i] >= rec.job

(* _fix_shipped_since *)
ShippedSince(i, rec) == rec # NoRecord /\ shipped[i] >= rec.start

ReadComments ==
  /\ tick.pc = "next"
  /\ \E i \in tick.todo :
       tick' = [tick EXCEPT !.issue = i, !.rec = footer[i], !.shipped = ShippedSince(i, footer[i]),
                  !.orphan = footer[i] = NoRecord,
                  !.pc = IF footer[i] = NoRecord THEN "unlock" ELSE "turn"]
  /\ UNCHANGED <<tracker, service, recv, bounds, history>>

TurnsOf(j) ==
  CASE status[j] = "live" -> {"running"}
    [] status[j] = "ended" -> {"idle", "error"}
    [] OTHER -> {"vanished"}

(* The state machine sees a run that never pushes. *)
ActionOn(turn) ==
  NextAction([turn |-> turn, ci |-> "none", pushed |-> FALSE, fixes |-> 0,
              redispatches |-> tick.rec.redispatches, elapsed |-> 0, sincePush |-> NotKnown])

(* A closed issue keeps its lock while its job runs, or may run. *)
ActOn(turn) ==
  tick' = IF tick.sweep
          THEN IF turn \in {"running", "unknown"} THEN Done ELSE [tick EXCEPT !.pc = "unlock"]
          ELSE IF ActionOn(turn) = "wait" THEN Done
          ELSE IF ActionOn(turn) = "redispatch" /\ ~tick.shipped THEN [tick EXCEPT !.pc = "resubmit"]
          ELSE [tick EXCEPT !.pc = "unlock"]

ReadTurn ==
  /\ tick.pc = "turn" /\ ServiceAnswers
  /\ \E turn \in TurnsOf(tick.rec.job) : ActOn(turn)
  /\ UNCHANGED <<tracker, service, recv, bounds, history>>

TurnUnknown ==
  /\ tick.pc = "turn" /\ May /\ faults' = faults + 1
  /\ ActOn("unknown")
  /\ UNCHANGED <<tracker, service, recv, acts, losses, history>>

(* Mutant: a run that shipped is not handed over. *)
UnlockQuietly ==
  /\ tick.pc = "unlock"
  /\ Remove(tick.issue, {InProgressLabel})
  /\ tick' = IF tick.sweep \/ tick.issue \in tick.held \/ tick.shipped THEN Done ELSE [tick EXCEPT !.pc = "hand"]
  /\ UNCHANGED <<open, approver, footer, shipped, hooks, service, recv, bounds, history>>

(* _end_run, _hand_over_orphan and the release of a closed issue. *)
Unlock ==
  /\ tick.pc = "unlock"
  /\ Remove(tick.issue, {InProgressLabel})
  /\ tick' = IF tick.sweep \/ (tick.issue \in tick.held /\ ~tick.orphan) THEN Done
             ELSE [tick EXCEPT !.pc = "hand"]
  /\ UNCHANGED <<open, approver, footer, shipped, hooks, service, recv, bounds, history>>

(* The comment and the notification that follow change nothing here. *)
HandOver ==
  /\ tick.pc = "hand"
  /\ Add(tick.issue, HumanLabel)
  /\ tick' = Done /\ reply' = reply \ {tick.issue}
  /\ UNCHANGED <<open, approver, footer, shipped, hooks, service, recv, bounds, asked, fresh>>

Resubmit ==
  /\ tick.pc = "resubmit" /\ ServiceAnswers
  /\ \E j \in Unused :
       /\ Start(tick.issue, j)
       /\ tick' = [tick EXCEPT !.pc = "persist", !.job = j]
  /\ UNCHANGED <<tracker, recv, bounds>>

Persist ==
  /\ tick.pc = "persist"
  /\ footer' = [footer EXCEPT ![tick.issue] =
                  [tick.rec EXCEPT !.job = tick.job, !.redispatches = @ + 1]]
  /\ tick' = Done
  /\ UNCHANGED <<open, labels, approver, shipped, hooks, service, recv, bounds, history>>

(* A call fails, before or after it took effect, or the pod dies.  A drain  *)
(* that fails goes over to the watch; so does one whose next submission, of *)
(* another repository's issue, fails before the footers are written.        *)
TickFails ==
  /\ tick.pc # "idle" /\ May /\ faults' = faults + 1
  /\ \/ tick' = Resting
     \/ tick.pc \in {"listed", "submit", "clear", "stamp", "record"} /\ tick' = [Resting EXCEPT !.pc = "watch"]
  /\ UNCHANGED <<tracker, service, recv, acts, losses, history>>

-----------------------------------------------------------------------------
(* The agents, the pod and people. *)

JobEnds(j) ==
  /\ status[j] = "live" /\ ServiceAnswers
  /\ status' = [status EXCEPT ![j] = "ended"]
  /\ UNCHANGED <<tracker, owner, tick, recv, bounds, history>>

(* The agent asks a person, reports what it shipped, or closes the issue.   *)
AgentAsks(j) ==
  /\ status[j] = "live" /\ Add(owner[j], HumanLabel)
  /\ reply' = reply \ {owner[j]}
  /\ UNCHANGED <<open, approver, footer, shipped, hooks, service, tick, recv, bounds, asked, fresh>>

AgentShips(j) ==
  /\ status[j] = "live"
  /\ shipped' = [shipped EXCEPT ![owner[j]] = Cardinality(Jobs \ Unused)]
  /\ tick' = [tick EXCEPT !.late = @ \/ (tick.issue = owner[j] /\ tick.pc \in {"turn", "unlock", "hand"})]
  /\ UNCHANGED <<open, labels, approver, footer, hooks, service, recv, bounds, history>>

AgentCloses(j) ==
  /\ status[j] = "live" /\ open' = open \ {owner[j]}
  /\ reply' = reply \ {owner[j]}
  /\ UNCHANGED <<labels, approver, footer, shipped, hooks, service, tick, recv, bounds, asked, fresh>>

(* The pod is replaced; inside the handler that is a ReceiverFails before.  *)
Restart ==
  /\ May /\ losses' = losses + 1 /\ ServiceAnswers
  /\ status' = [j \in Jobs |-> IF status[j] = "unused" THEN "unused" ELSE "gone"]
  /\ UNCHANGED <<tracker, owner, tick, recv, acts, faults, history>>

(* What a person does to issue i, and the delivery it sends. *)
Act(i, actor, event, relay) ==
  /\ May /\ acts' = acts + 1
  /\ hooks' = hooks \cup {Deliver(i, event, actor, relay)}
  /\ asked' = IF actor = Owner /\ "approved" \in labels'[i] THEN asked \cup {i} ELSE asked
  /\ fresh' = IF actor = Owner THEN fresh \cup {i} ELSE fresh
  /\ reply' = IF event = "issue_comment" THEN reply ELSE reply \ {i}
  /\ UNCHANGED <<footer, shipped, service, tick, recv, faults, losses>>

Approves(i, actor) ==
  /\ "approved" \notin labels[i]
  /\ Add(i, "approved") /\ approver' = [approver EXCEPT ![i] = actor] /\ UNCHANGED open
  /\ Act(i, actor, "issues", FALSE)

Relabels(i) ==
  /\ \/ \E label \in {"approved", HumanLabel, PausedLabel} : label \in labels[i] /\ Remove(i, {label})
     \/ PausedLabel \notin labels[i] /\ Add(i, PausedLabel)
  /\ UNCHANGED <<open, approver>>
  /\ Act(i, Owner, "issues", FALSE)

Comments(i, actor, relay) ==
  /\ UNCHANGED <<open, labels, approver>>
  /\ Act(i, actor, "issue_comment", relay)

(* Closing or reopening triggers nothing; the drain sees it. *)
Reopens(i) ==
  /\ open' = IF i \in open THEN open \ {i} ELSE open \cup {i}
  /\ May /\ acts' = acts + 1
  /\ fresh' = fresh \cup {i} /\ reply' = reply \ {i}
  /\ UNCHANGED <<labels, approver, footer, shipped, hooks, service, tick, recv, faults, losses, asked>>

-----------------------------------------------------------------------------
Receiver ==
  \/ ReceiverClears \/ ReceiverReadsLock \/ ReceiverSubmits \/ ReceiverStamps
  \/ ReceiverReleases \/ ReceiverRecords

Tick ==
  \/ ListReady \/ ReadLock \/ DrainSubmits \/ DrainClears \/ DrainStamps \/ DrainRecords
  \/ ListHeld \/ ListClosed \/ ReadComments \/ ReadTurn \/ Unlock \/ HandOver \/ Resubmit \/ Persist

Environment ==
  \/ \E d \in hooks \cup BotDeliveries : Receive(d)
  \/ ReceiverFails \/ TickFails \/ TurnUnknown \/ Restart
  \/ \E j \in Jobs : AgentAsks(j) \/ AgentShips(j) \/ AgentCloses(j) \/ JobEnds(j)
  \/ \E i \in Issues :
       \/ Relabels(i) \/ Reopens(i)
       \/ \E actor \in {Owner, Guest} : Approves(i, actor) \/ \E relay \in BOOLEAN : Comments(i, actor, relay)

(* The handler starts a run while the tick drains, or has still to write    *)
(* its bookkeeping while the tick watches.                                  *)
Racing ==
  \/ recv.pc \in {"submit", "stamp"} /\ tick.pc \in {"listed", "submit", "clear", "stamp"}
  \/ recv.pc \in {"release", "record"} /\ tick.pc \notin {"idle", "listed"}
Noted == race' = (race \/ Racing')

Next == (Receiver \/ Tick \/ Environment) /\ Noted

Spec == Init /\ [][Next]_vars

(* Ticks keep starting, calls return, and every agent ends. *)
FairSpec ==
  /\ Spec
  /\ WF_vars(Receiver /\ Noted) /\ WF_vars(Tick /\ Noted)
  /\ \A j \in Jobs : WF_vars(JobEnds(j) /\ Noted)

-----------------------------------------------------------------------------
(* Properties. *)

Labels == {"approved", ApprovalLabel, HumanLabel, InProgressLabel, PausedLabel}
TickPhases == {"idle", "listed", "submit", "clear", "stamp", "record", "watch", "sweep", "next",
               "turn", "unlock", "hand", "resubmit", "persist"}

TypeOK ==
  /\ open \subseteq Issues /\ labels \in [Issues -> SUBSET Labels]
  /\ approver \in [Issues -> {Owner, Guest, FeedbackBot}]
  /\ footer \in [Issues -> Records] /\ shipped \in [Issues -> Jobs \cup {None}]
  /\ status \in [Jobs -> {"unused", "live", "ended", "gone"}]
  /\ owner \in [Jobs -> Issues \cup {None}]
  /\ tick.pc \in TickPhases /\ tick.issue \in Issues \cup {None} /\ tick.rec \in Records
  /\ tick.todo \subseteq Issues /\ tick.held \subseteq Issues /\ tick.job \in Jobs \cup {None}
  /\ {tick.sweep, tick.shipped, tick.orphan, tick.late} \subseteq BOOLEAN
  /\ recv \in [pc : {"idle", "clear", "lock", "submit", "stamp", "release", "record"},
               issue : Issues \cup {None}, continuing : BOOLEAN, human : BOOLEAN, job : Jobs \cup {None}]
  /\ asked \cup fresh \cup reply \subseteq Issues /\ race \in BOOLEAN

(* Every run of an issue goes back to an act of the owner: he applied the   *)
(* approved label, or touched the issue while it carried it.  Whatever a    *)
(* collaborator and the bots label or say, and however late a delivery is.  *)
RunsAreAsked == \A j \in Jobs : owner[j] # None => owner[j] \in asked

(* Without the hand-over, "the queue would start this issue again"          *)
(* (tick.py:313-316): the drain never starts an issue again unless its      *)
(* owner touched it, or a reply of his arrived, since the last start.       *)
(* Failed calls, and a handler that overlaps the tick, apart, one thing     *)
(* breaks this: the tick reads the queue, the agent closes its issue and so *)
(* hides the lock, and the tick reads the lock.                             *)
Orderly == ~race /\ faults = 0
NoSelfRestart ==
  [][\A i \in Issues :
       tick.pc = "submit" /\ tick.issue = i /\ tick'.job # None /\ Orderly' =>
         i \in fresh \/ i \notin open \/ \A j \in Jobs : owner[j] # i]_vars

(* The owner is told that a run ended without shipping only if no agent     *)
(* reported a fix since that run started; a report that comes after the     *)
(* tick has read the comments is the one way to tell him wrongly.           *)
HandoverTruthful ==
  tick.pc \in {"unlock", "hand"} /\ ~tick.orphan /\ ~tick.shipped /\ ~tick.late =>
    shipped[tick.issue] < tick.rec.start

(* The bound, not the code, stops an actor. *)
Exhausted == Unused = {} /\ (recv.pc = "submit" \/ tick.pc \in {"submit", "resubmit"})

(* Every lock is released, on an issue its agent has closed too.            *)
LockReleased ==
  \A i \in Issues : i \in Carrying(InProgressLabel) ~> i \notin Carrying(InProgressLabel) \/ Exhausted

(* A reply that passed the gates is answered: by a run, or by an agent or a *)
(* tick that hands the issue back (receiver.py:24-27).                      *)
ReplyAnswered == \A i \in Issues : i \in reply ~> i \notin reply \/ Exhausted

(* What the loop sees of its jobs is what the service promises of them.     *)
Service == INSTANCE JobService WITH
  Verdicts <- {"ended"}, record <- status, working <- Live
ServiceSpec == Service!Spec
=============================================================================
