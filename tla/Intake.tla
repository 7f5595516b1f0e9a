------------------------------- MODULE Intake -------------------------------
(***************************************************************************)
(* The tv report intake of app/intake.py: POST /v1/intake/tv-report starts *)
(* a job in the background, one job at a time clones the repository and    *)
(* runs the agent on the report, and the backend polls the job's record    *)
(* for a verdict.  Records live for an hour after they finish; the backend *)
(* sends a report again whose job disappeared.                             *)
(*                                                                         *)
(* `line` is the intake's own semaphore.  Nothing cancels a job while it   *)
(* waits, and asyncio serves its waiters in arrival order, so the head of  *)
(* the line has the permit and the others wait for it.                     *)
(***************************************************************************)
EXTENDS Naturals, Sequences, FiniteSets

CONSTANTS
  Jobs,         \* identities of jobs, each used once
  Reports,      \* the backend's User reports
  NoJob,        \* the report has no job
  MaxRestarts   \* bound: how often the pod is replaced

ASSUME IntakeAssumption == NoJob \notin Jobs /\ MaxRestarts \in Nat

VARIABLES
  phase,     \* where the task of each job is suspended
  line,      \* jobs at the semaphore, the head inside it
  child,     \* the process of each job: none, alive, or killed and not reaped
  trees,     \* jobs whose temporary directory exists
  record,    \* records[job]["status"], "absent" without a record
  old,       \* records that finished more than RECORD_TTL_SECONDS ago
  jobOf,     \* the backend: the job it polls for each report
  restarts   \* how often the pod was replaced

vars == <<phase, line, child, trees, record, old, jobOf, restarts>>

Verdicts == {"completed", "failed", "timeout"}

(* cloning, running: in _communicate, waiting for git or for the agent;     *)
(* launching: in create_subprocess_exec for one of the two; reaping: git    *)
(* was killed by the clone's own timeout; cutting: what runs was killed by  *)
(* the job's timeout.  left: over, with a killed git that has not died;     *)
(* crashed: the task died of an exception.                                  *)
WorkPhases == {"launchGit", "cloning", "launchAgent", "running", "reaping", "cutting"}
EndPhases == {"over", "left", "crashed", "lost"}
Phases == WorkPhases \cup EndPhases \cup {"idle", "queued"}
Unfinished(j) == phase[j] \in WorkPhases \cup {"queued"}
HasSlot(j) == line # <<>> /\ Head(line) = j

Init ==
  /\ phase = [j \in Jobs |-> "idle"] /\ line = <<>>
  /\ child = [j \in Jobs |-> "none"] /\ trees = {}
  /\ record = [j \in Jobs |-> "absent"] /\ old = {}
  /\ jobOf = [r \in Reports |-> NoJob] /\ restarts = 0

Goto(j, p) == phase' = [phase EXCEPT ![j] = p]

-----------------------------------------------------------------------------
(* Requests. *)

(* Mutant: _evict counts the hour from the moment the record was made. *)
EvictedByAge(r) == [j \in Jobs |-> IF j \in old \/ r[j] = "running" THEN "absent" ELSE r[j]]

(* _evict. *)
Evicted(r) == [j \in Jobs |-> IF j \in old THEN "absent" ELSE r[j]]

(* submit and start, for a report that has no job or whose job is a 404.    *)
(* A report that does not decode gets a 400 and leaves no trace but the     *)
(* eviction, as a poll does.                                                *)
Submit(r, j) ==
  /\ phase[j] = "idle"
  /\ jobOf[r] # NoJob => Evicted(record)[jobOf[r]] = "absent"
  /\ record' = [Evicted(record) EXCEPT ![j] = "running"] /\ old' = {}
  /\ Goto(j, "queued") /\ line' = Append(line, j)
  /\ jobOf' = [jobOf EXCEPT ![r] = j]
  /\ UNCHANGED <<child, trees, restarts>>

(* status. *)
Poll ==
  /\ record' = Evicted(record) /\ old' = {}
  /\ UNCHANGED <<phase, line, child, trees, jobOf, restarts>>

RecordAges(j) ==
  /\ record[j] \in Verdicts /\ j \notin old
  /\ old' = old \cup {j}
  /\ UNCHANGED <<phase, line, child, trees, record, jobOf, restarts>>

-----------------------------------------------------------------------------
(* run. *)

(* mkdtemp, inside the semaphore and before the try. *)
Begin(j) ==
  /\ phase[j] = "queued" /\ HasSlot(j)
  /\ Goto(j, "launchGit") /\ trees' = trees \cup {j}
  /\ UNCHANGED <<line, child, record, old, jobOf, restarts>>

(* Mutant: the permit is released by the finally of the try that follows. *)
BeginFailsHeld(j) ==
  /\ phase[j] = "queued" /\ HasSlot(j)
  /\ Goto(j, "crashed")
  /\ UNCHANGED <<line, child, trees, record, old, jobOf, restarts>>

(* mkdtemp raises: the slot is returned and nothing is recorded. *)
BeginFails(j) ==
  /\ phase[j] = "queued" /\ HasSlot(j)
  /\ Goto(j, "crashed") /\ line' = Tail(line)
  /\ UNCHANGED <<child, trees, record, old, jobOf, restarts>>

(* git, or the agent, is there. *)
Launch(j, from, to) ==
  /\ phase[j] = from /\ Goto(j, to)
  /\ child' = [child EXCEPT ![j] = "alive"]
  /\ UNCHANGED <<line, trees, record, old, jobOf, restarts>>
LaunchGit(j) == Launch(j, "launchGit", "cloning")
LaunchAgent(j) == Launch(j, "launchAgent", "running")

(* The rest of run, without an await: finish, rmtree, which ignores errors, *)
(* and the way out of the semaphore.                                        *)
Conclude(j, verdict, p) ==
  /\ record' = [record EXCEPT ![j] = verdict]
  /\ trees' = trees \ {j} /\ line' = Tail(line)
  /\ Goto(j, p)
  /\ UNCHANGED <<old, jobOf, restarts>>

(* git ended with a non-zero exit code. *)
CloneFails(j) ==
  /\ phase[j] = "cloning" /\ child[j] = "alive"
  /\ child' = [child EXCEPT ![j] = "none"]
  /\ Conclude(j, "failed", "over")

(* Between the clone and the agent: an agent file that does not parse or    *)
(* asks for other tools, or a report that cannot be written, raises.        *)
PrepareFails(j) == CloneFails(j)

CloneEnds(j) ==
  /\ phase[j] = "cloning" /\ child[j] = "alive"
  /\ child' = [child EXCEPT ![j] = "none"]
  /\ Goto(j, "launchAgent")
  /\ UNCHANGED <<line, trees, record, old, jobOf, restarts>>

(* create_subprocess_exec raises. *)
LaunchFails(j) ==
  /\ phase[j] \in {"launchGit", "launchAgent"}
  /\ Conclude(j, "failed", "over") /\ UNCHANGED child

(* result_text and the exit code: what the agent's output amounts to. *)
Outcome(output, exit) ==
  IF output = "result" /\ exit = 0 THEN "completed" ELSE "failed"

AgentEnds(j) ==
  /\ phase[j] = "running" /\ child[j] = "alive"
  /\ child' = [child EXCEPT ![j] = "none"]
  /\ \E output \in {"result", "error", "unreadable"}, exit \in {0, 1} :
       Conclude(j, Outcome(output, exit), "over")

(* The finally of _communicate: kill what lives, and wait for its end. *)
Kill(j, p) ==
  /\ Goto(j, p)
  /\ child' = [child EXCEPT ![j] = IF @ = "alive" THEN "killed" ELSE @]
  /\ UNCHANGED <<line, trees, record, old, jobOf, restarts>>

CloneTimesOut(j) == phase[j] = "cloning" /\ Kill(j, "reaping")

(* The job's own timeout, wherever it is.  While git is launched asyncio    *)
(* itself closes what it has started.                                       *)
RunTimesOut(j) == phase[j] \in WorkPhases \ {"cutting", "reaping"} /\ Kill(j, "cutting")

(* The second timeout interrupts the wait for a git that does not die. *)
ReapTimesOut(j) ==
  /\ phase[j] = "reaping" /\ child[j] = "killed"
  /\ Conclude(j, "timeout", "left") /\ UNCHANGED child

ChildDies(j) ==
  /\ child[j] = "killed"
  /\ child' = [child EXCEPT ![j] = "none"]
  /\ UNCHANGED <<phase, line, trees, record, old, jobOf, restarts>>

(* Mutant: the verdict is recorded without waiting for the killed process. *)
CutWithoutWait(j) ==
  /\ phase[j] \in {"reaping", "cutting"}
  /\ Conclude(j, "timeout", "over") /\ UNCHANGED child

(* Both timeouts are the same exception to run. *)
Cut(j) ==
  /\ phase[j] \in {"reaping", "cutting"} /\ child[j] = "none"
  /\ Conclude(j, "timeout", "over") /\ UNCHANGED child

(* The pod is replaced: memory, processes and temporary files are gone. *)
Restart ==
  /\ restarts < MaxRestarts /\ restarts' = restarts + 1
  /\ phase' = [j \in Jobs |-> IF Unfinished(j) THEN "lost" ELSE phase[j]]
  /\ line' = <<>> /\ child' = [j \in Jobs |-> "none"] /\ trees' = {}
  /\ record' = [j \in Jobs |-> "absent"] /\ old' = {}
  /\ UNCHANGED jobOf

Advance(j) ==
  \/ Begin(j) \/ BeginFails(j) \/ LaunchGit(j) \/ LaunchAgent(j) \/ LaunchFails(j)
  \/ CloneFails(j) \/ PrepareFails(j) \/ CloneEnds(j) \/ CloneTimesOut(j) \/ AgentEnds(j) \/ RunTimesOut(j)
  \/ ReapTimesOut(j) \/ ChildDies(j) \/ Cut(j)

Next ==
  \/ \E j \in Jobs : Advance(j) \/ RecordAges(j) \/ \E r \in Reports : Submit(r, j)
  \/ Poll
  \/ Restart

Spec == Init /\ [][Next]_vars

(* The event loop runs a ready task, both timeouts fire, and a killed       *)
(* process dies.                                                            *)
FairSpec == Spec /\ \A j \in Jobs : WF_vars(Advance(j))

-----------------------------------------------------------------------------
(* Properties. *)

(* Every variable has its type, and the line holds distinct jobs. *)
TypeOK ==
  /\ phase \in [Jobs -> Phases]
  /\ line \in Seq(Jobs)
  /\ child \in [Jobs -> {"none", "alive", "killed"}]
  /\ trees \subseteq Jobs
  /\ record \in [Jobs -> Verdicts \cup {"absent", "running"}]
  /\ old \subseteq Jobs
  /\ jobOf \in [Reports -> Jobs \cup {NoJob}]
  /\ restarts \in 0..MaxRestarts

(* "One run at a time" (intake.py:24) and "no child outlives its job" (288): *)
(* a process belongs to the job that has the permit, and its directory is    *)
(* there, whichever of the two timeouts, the process and the kill comes      *)
(* first.  Only a killed git that does not die stays behind, when the job's  *)
(* timeout fires while the clone's is still waiting for it.                  *)
NoChildOutlives ==
  \A j \in Jobs : child[j] # "none" =>
    \/ HasSlot(j) /\ j \in trees /\ phase[j] \in WorkPhases
    \/ child[j] = "killed" /\ phase[j] = "left"

(* What a poll answers fits what the job does: a live job is on record as    *)
(* running, an ended one has its verdict or has expired.  Only a job whose   *)
(* directory could not be made is left as running.                           *)
RecordsFit ==
  \A j \in Jobs :
    /\ Unfinished(j) => record[j] = "running"
    /\ phase[j] = "crashed" => record[j] \in {"running", "absent"}
    /\ phase[j] \in {"over", "left"} => record[j] \in Verdicts \cup {"absent"}
    /\ phase[j] \in {"idle", "lost"} => record[j] = "absent"

(* The backend may retry a report whose job disappeared (intake.py:28-29):   *)
(* a job that still waits or works is always the one its report is polled    *)
(* by, so a report never has two.                                            *)
RetryIsSafe ==
  \A j \in Jobs : Unfinished(j) => \E r \in Reports : jobOf[r] = j

(* Every accepted report's job ends, whatever hangs, fails or raises before  *)
(* it in the line.                                                           *)
JobsEnd == \A j \in Jobs : phase[j] = "queued" ~> phase[j] \in EndPhases
=============================================================================
