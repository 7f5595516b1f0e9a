----------------------------- MODULE JobRunner -----------------------------
(***************************************************************************)
(* The job runner of app/main.py: one asyncio process that admits calls of *)
(* several kinds, lets MaxConcurrency of them run `claude` at once, gives  *)
(* /execute and chat calls a private git checkout, and keeps a registry of *)
(* /execute jobs.  A step of a call is what its coroutine does between two *)
(* awaits; steps of different calls interleave.                            *)
(*                                                                         *)
(* Kinds of calls: "execute" (POST /execute), "fixer" (a job submitted by  *)
(* the fixer, the same worker with no timeout), "chat" (a completion with  *)
(* tools), "notools", "conv" (POST /v1/conversational), "stream" (a        *)
(* streamed completion), "liststream" (a streamed completion whose message *)
(* content is a list of parts).                                            *)
(***************************************************************************)
EXTENDS Naturals, Sequences, FiniteSets

CONSTANTS
  Calls,           \* identities of the calls that may arrive, each used once
  Kinds,           \* the kinds that arrive, a subset of AllKinds
  MaxConcurrency,  \* MAX_CONCURRENCY
  MaxQueueDepth,   \* MAX_QUEUE_DEPTH
  MaxRestarts      \* bound: how often the pod is replaced

JobKinds == {"execute", "fixer"}
WorkspaceKinds == JobKinds \cup {"chat"}
StreamKinds == {"stream", "liststream"}
AllKinds == WorkspaceKinds \cup StreamKinds \cup {"notools", "conv"}

ASSUME RunnerAssumption ==
  /\ IsFiniteSet(Calls)
  /\ Kinds \subseteq AllKinds
  /\ MaxConcurrency \in Nat \ {0}
  /\ MaxQueueDepth \in Nat
  /\ MaxRestarts \in Nat

VARIABLES
  pc,        \* where each call's coroutine is suspended
  kind,      \* the kind of each call, "none" before it arrives
  permits,   \* the value of execution_semaphore
  waiters,   \* calls suspended in execution_semaphore.acquire(), not yet woken
  active,    \* inflight_active
  queued,    \* inflight_queued
  gitQueue,  \* git_lock: its head holds the lock, the others wait for it
  fetched,   \* the base was fetched within FETCH_DEBOUNCE_SECONDS
  agents,    \* calls whose claude process is alive
  trees,     \* calls whose checkout exists under JOBS_DIR
  jobs,      \* the registry: the status of each record, "absent" without one
  aged,      \* records that finished more than JOB_TTL_SECONDS ago
  ran,       \* history: calls whose claude process was started
  restarts   \* how often the pod was replaced

counters == <<permits, waiters, active, queued>>
git == <<gitQueue, fetched>>
registry == <<jobs, aged>>
vars == <<pc, kind, permits, waiters, active, queued, gitQueue, fetched,
          agents, trees, jobs, aged, ran, restarts>>

(* _TERMINAL_STATUSES *)
TerminalStatuses == {"completed", "failed", "timeout", "error"}

SetupPhases == {"locking", "fetching", "cloning"}
SlotPhases == SetupPhases \cup {"starting", "running"}
QueuePhases == {"reserved", "waiting", "granted"}
Phases == {"idle", "refused", "abandoned", "ending", "done", "lost"}
            \cup QueuePhases \cup SlotPhases

Holding == {c \in Calls : pc[c] \in SlotPhases}
Granted == {c \in Calls : pc[c] = "granted"}
Waiting == {c \in Calls : pc[c] = "waiting"}
(* Calls that _reserve_queue_slot counted and nothing has uncounted since.  *)
Reserved == {c \in Calls : pc[c] \in QueuePhases \cup {"abandoned"}}

Init ==
  /\ pc = [c \in Calls |-> "idle"] /\ kind = [c \in Calls |-> "none"]
  /\ permits = MaxConcurrency /\ waiters = <<>>
  /\ active = 0 /\ queued = 0
  /\ gitQueue = <<>> /\ fetched = FALSE
  /\ agents = {} /\ trees = {}
  /\ jobs = [c \in Calls |-> "absent"] /\ aged = {}
  /\ ran = {} /\ restarts = 0

-----------------------------------------------------------------------------
(* The semaphore and the counters. *)

(* Mutant: the bound is checked with > instead of >=. *)
QueueFullOffByOne == active + queued > MaxQueueDepth

(* _reserve_queue_slot refuses the call when the system is full. *)
QueueFull == active + queued >= MaxQueueDepth

(* Semaphore.locked(): nobody overtakes a waiter, woken or not. *)
SlotFree == permits > 0 /\ waiters = <<>> /\ Granted = {}

(* Where a call goes with its permit: to its git setup, or straight on. *)
FirstPhase(k) == IF k \in WorkspaceKinds THEN "locking" ELSE "starting"

(* The first thing a call does with a permit, before it awaits again. *)
Begin(c, k) ==
  /\ gitQueue' = IF k \in WorkspaceKinds THEN Append(gitQueue, c) ELSE gitQueue
  /\ jobs' = IF k \in JobKinds THEN [jobs EXCEPT ![c] = "running"] ELSE jobs

(* Enter _execution_slot with n reservations counted, this call's included. *)
EnterSlot(c, k, n) ==
  \/ /\ SlotFree
     /\ permits' = permits - 1
     /\ queued' = n - 1 /\ active' = active + 1
     /\ pc' = [pc EXCEPT ![c] = FirstPhase(k)]
     /\ Begin(c, k)
     /\ UNCHANGED waiters
  \/ /\ ~SlotFree
     /\ waiters' = Append(waiters, c)
     /\ pc' = [pc EXCEPT ![c] = "waiting"]
     /\ queued' = n
     /\ UNCHANGED <<permits, active, gitQueue, jobs>>

(* Call c goes on to phase p, while the first k of line w are woken and take *)
(* their permits out of v.                                                   *)
Wake(c, p, v, w, k) ==
  /\ permits' = v - k
  /\ waiters' = SubSeq(w, k + 1, Len(w))
  /\ pc' = [d \in Calls |->
              IF d = c THEN p ELSE IF d \in {w[i] : i \in 1..k} THEN "granted" ELSE pc[d]]

(* Mutant: a cancelled or resumed acquire() does not wake the line. *)
WakeNobody(c, p, v, w) == Wake(c, p, v, w, 0)

(* acquire() ends, for a permit or cancelled: wake as many as v permits. *)
WakeAll(c, p, v, w) == Wake(c, p, v, w, IF v <= Len(w) THEN v ELSE Len(w))

(* Mutant: release() serves the newest waiter first. *)
HandOverNewest(c, p) ==
  \/ waiters = <<>> /\ Wake(c, p, permits + 1, waiters, 0)
  \/ /\ waiters # <<>>
     /\ waiters' = SubSeq(waiters, 1, Len(waiters) - 1)
     /\ pc' = [pc EXCEPT ![c] = p, ![waiters[Len(waiters)]] = "granted"]
     /\ UNCHANGED permits

(* Semaphore.release(): wake one waiter. *)
HandOver(c, p) ==
  Wake(c, p, permits + 1, waiters, IF waiters = <<>> THEN 0 ELSE 1)

(* Leave _execution_slot after the permit was acquired. *)
LeaveSlot(c, p) == HandOver(c, p) /\ active' = active - 1 /\ UNCHANGED queued

-----------------------------------------------------------------------------
(* The registry of /execute jobs. *)

Recorded(c, status) ==
  IF kind[c] \in JobKinds THEN [jobs EXCEPT ![c] = status] ELSE jobs

(* Mutant: the clean-up of a checkout is skipped when the run did not end well. *)
ConcludeWithoutCleanup(c, status) ==
  /\ LeaveSlot(c, IF kind[c] \in WorkspaceKinds /\ status = "completed" THEN "ending" ELSE "done")
  /\ jobs' = Recorded(c, status)
  /\ UNCHANGED aged

(* _evict_old_jobs over registry r, at the end of every /execute worker. *)
Evict(c, r) ==
  IF kind[c] \in JobKinds
  THEN /\ jobs' = [d \in Calls |-> IF d \in aged THEN "absent" ELSE r[d]]
       /\ aged' = {}
  ELSE jobs' = r /\ aged' = aged

(* The call leaves its slot with this status.  A call with a checkout goes  *)
(* on to remove it; any other is over.                                      *)
Conclude(c, status) ==
  /\ LeaveSlot(c, IF kind[c] \in WorkspaceKinds THEN "ending" ELSE "done")
  /\ jobs' = Recorded(c, status)
  /\ UNCHANGED aged

-----------------------------------------------------------------------------
(* Arrival. *)

Refuse(c, k) ==
  /\ pc[c] = "idle" /\ QueueFull
  /\ pc' = [pc EXCEPT ![c] = "refused"]
  /\ kind' = [kind EXCEPT ![c] = k]
  /\ UNCHANGED <<counters, git, agents, trees, registry, ran, restarts>>

(* start_job: the worker is a task of its own, which starts later. *)
SubmitJob(c, k) ==
  /\ pc[c] = "idle" /\ ~QueueFull /\ k \in JobKinds
  /\ kind' = [kind EXCEPT ![c] = k]
  /\ queued' = queued + 1
  /\ pc' = [pc EXCEPT ![c] = "reserved"]
  /\ jobs' = [jobs EXCEPT ![c] = "queued"]
  /\ UNCHANGED <<permits, waiters, active, git, agents, trees, aged, ran, restarts>>

(* The handlers that reserve and enter the slot without an await between. *)
CallDirect(c, k) ==
  /\ pc[c] = "idle" /\ ~QueueFull /\ k \in {"chat", "notools", "conv"}
  /\ kind' = [kind EXCEPT ![c] = k]
  /\ EnterSlot(c, k, queued + 1)
  /\ UNCHANGED <<fetched, agents, trees, aged, ran, restarts>>

(* The streaming branch reserves, builds the prompt and returns a response  *)
(* whose generator starts later.  Joining a list of parts as a string       *)
(* raises TypeError, after the reservation.                                 *)
OpenStream(c, k) ==
  /\ pc[c] = "idle" /\ ~QueueFull /\ k \in StreamKinds
  /\ kind' = [kind EXCEPT ![c] = k]
  /\ queued' = queued + 1
  /\ pc' = [pc EXCEPT ![c] = IF k = "liststream" THEN "abandoned" ELSE "reserved"]
  /\ UNCHANGED <<permits, waiters, active, git, agents, trees, registry, ran, restarts>>

(* The worker task, or the response generator, takes its first step. *)
EnterLater(c) ==
  /\ pc[c] = "reserved"
  /\ EnterSlot(c, kind[c], queued)
  /\ UNCHANGED <<kind, fetched, agents, trees, aged, ran, restarts>>

(* Mutant: the count of a woken waiter stays where it was. *)
ResumeUncounted(c) ==
  /\ pc[c] = "granted"
  /\ WakeAll(c, FirstPhase(kind[c]), permits, waiters)
  /\ Begin(c, kind[c])
  /\ UNCHANGED <<kind, active, queued, fetched, agents, trees, aged, ran, restarts>>

(* A woken waiter resumes and moves its count from queued to active. *)
Resume(c) ==
  /\ pc[c] = "granted"
  /\ WakeAll(c, FirstPhase(kind[c]), permits, waiters)
  /\ queued' = queued - 1 /\ active' = active + 1
  /\ Begin(c, kind[c])
  /\ UNCHANGED <<kind, fetched, agents, trees, aged, ran, restarts>>

-----------------------------------------------------------------------------
(* prepare_workspace, under git_lock. *)

HoldsGit(c) == gitQueue # <<>> /\ Head(gitQueue) = c

(* _refresh_base: skip the fetch inside the debounce window. *)
Refresh(c) ==
  /\ pc[c] = "locking" /\ HoldsGit(c)
  /\ \/ fetched /\ pc' = [pc EXCEPT ![c] = "cloning"] /\ UNCHANGED fetched
     \/ ~fetched /\ pc' = [pc EXCEPT ![c] = "fetching"] /\ fetched' = TRUE
  /\ UNCHANGED <<kind, counters, gitQueue, agents, trees, registry, ran, restarts>>

(* The fetch ends, well or with a non-zero exit code: the job goes on. *)
FetchEnds(c) ==
  /\ pc[c] = "fetching"
  /\ pc' = [pc EXCEPT ![c] = "cloning"]
  /\ UNCHANGED <<kind, counters, git, agents, trees, registry, ran, restarts>>

(* The checkout is made, re-pointed and unlocked, and the lock released. *)
Clone(c) ==
  /\ pc[c] = "cloning"
  /\ pc' = [pc EXCEPT ![c] = "starting"]
  /\ trees' = trees \cup {c}
  /\ gitQueue' = Tail(gitQueue)
  /\ UNCHANGED <<kind, counters, fetched, agents, registry, ran, restarts>>

(* An exception leaves prepare_workspace: the caller's `workspace` is still  *)
(* None, so nothing is cleaned up and the call ends at once.                 *)
AbandonSetup(c, status) ==
  /\ LeaveSlot(c, "done")
  /\ Evict(c, Recorded(c, status))
  /\ gitQueue' = Tail(gitQueue)
  /\ UNCHANGED <<kind, fetched, agents, ran, restarts>>

(* _run kills a fetch after 120 s and raises TimeoutError, which the worker  *)
(* takes for its own timeout.                                                *)
FetchTimesOut(c) ==
  /\ pc[c] = "fetching"
  /\ AbandonSetup(c, "timeout")
  /\ UNCHANGED trees

(* The clone fails, or a later step of the setup raises over its checkout.  *)
SetupFails(c) ==
  /\ pc[c] = "cloning"
  /\ AbandonSetup(c, "error")
  /\ trees' \in {trees, trees \cup {c}}

-----------------------------------------------------------------------------
(* The agent run. *)

StartAgent(c) ==
  /\ pc[c] = "starting"
  /\ pc' = [pc EXCEPT ![c] = "running"]
  /\ agents' = agents \cup {c}
  /\ ran' = ran \cup {c}
  /\ UNCHANGED <<kind, counters, git, trees, registry, restarts>>

StartFails(c) ==
  /\ pc[c] = "starting"
  /\ Conclude(c, "error")
  /\ UNCHANGED <<kind, git, agents, trees, ran, restarts>>

(* The process exits by itself. *)
AgentExits(c) ==
  /\ pc[c] = "running"
  /\ agents' = agents \ {c}
  /\ \E status \in {"completed", "failed"} : Conclude(c, status)
  /\ UNCHANGED <<kind, git, trees, ran, restarts>>

(* Mutant: no path kills the process of a call that stops waiting. *)
CutOffWithoutKill(c) ==
  /\ pc[c] = "running"
  /\ \E status \in {"timeout", "error"} : Conclude(c, status)
  /\ UNCHANGED <<kind, git, agents, trees, ran, restarts>>

(* The call stops waiting: its timeout fires, or reading the output raises. *)
(* Every path kills the process before it releases the slot or in the same  *)
(* step; conversational.run_turn has no such clean-up.                      *)
CutOff(c) ==
  /\ pc[c] = "running"
  /\ \E status \in {"timeout", "error"} :
       /\ status = "timeout" => kind[c] # "fixer"
       /\ Conclude(c, status)
  /\ agents' = IF kind[c] = "conv" THEN agents ELSE agents \ {c}
  /\ UNCHANGED <<kind, git, trees, ran, restarts>>

(* A process that its call no longer waits for exits on its own. *)
OrphanExits(c) ==
  /\ c \in agents /\ pc[c] # "running"
  /\ agents' = agents \ {c}
  /\ UNCHANGED <<pc, kind, counters, git, trees, registry, ran, restarts>>

(* Mutant: an rm that raises is recorded as the outcome of the job. *)
CleanupRecordsError(c) ==
  /\ pc[c] = "ending"
  /\ pc' = [pc EXCEPT ![c] = "done"]
  /\ trees' = trees \ {c}
  /\ Evict(c, Recorded(c, "error"))
  /\ UNCHANGED <<kind, counters, git, agents, ran, restarts>>

(* cleanup_workspace, then for a job the eviction of old records. *)
Cleanup(c) ==
  /\ pc[c] = "ending"
  /\ pc' = [pc EXCEPT ![c] = "done"]
  /\ trees' = trees \ {c}
  /\ Evict(c, jobs)
  /\ UNCHANGED <<kind, counters, git, agents, ran, restarts>>

-----------------------------------------------------------------------------
(* The streaming client goes away. *)

(* Before the response generator started, nothing runs its clean-up. *)
DisconnectReserved(c) ==
  /\ kind[c] = "stream" /\ pc[c] = "reserved"
  /\ pc' = [pc EXCEPT ![c] = "abandoned"]
  /\ UNCHANGED <<kind, counters, git, agents, trees, registry, ran, restarts>>

(* Mutant: a cancelled waiter forgets that it was counted as queued. *)
DisconnectWaitingCounted(c) ==
  /\ kind[c] = "stream" /\ pc[c] = "waiting"
  /\ \E i \in DOMAIN waiters :
       /\ waiters[i] = c
       /\ WakeAll(c, "done", permits,
                  SubSeq(waiters, 1, i - 1) \o SubSeq(waiters, i + 1, Len(waiters)))
  /\ UNCHANGED <<kind, queued, active, git, agents, trees, registry, ran, restarts>>

DisconnectWaiting(c) ==
  /\ kind[c] = "stream" /\ pc[c] = "waiting"
  /\ \E i \in DOMAIN waiters :
       /\ waiters[i] = c
       /\ WakeAll(c, "done", permits,
                  SubSeq(waiters, 1, i - 1) \o SubSeq(waiters, i + 1, Len(waiters)))
  /\ queued' = queued - 1
  /\ UNCHANGED <<kind, active, git, agents, trees, registry, ran, restarts>>

(* Cancelled between wake-up and resumption: acquire() passes the permit on. *)
DisconnectGranted(c) ==
  /\ kind[c] = "stream" /\ pc[c] = "granted"
  /\ WakeAll(c, "done", permits + 1, waiters)
  /\ queued' = queued - 1
  /\ UNCHANGED <<kind, active, git, agents, trees, registry, ran, restarts>>

DisconnectActive(c) ==
  /\ kind[c] = "stream" /\ pc[c] \in {"starting", "running"}
  /\ LeaveSlot(c, "done")
  /\ agents' = agents \ {c}
  /\ UNCHANGED <<kind, git, trees, registry, ran, restarts>>

-----------------------------------------------------------------------------
(* Time and the pod. *)

FetchAges ==
  /\ fetched
  /\ fetched' = FALSE
  /\ UNCHANGED <<pc, kind, counters, gitQueue, agents, trees, registry, ran, restarts>>

(* Mutant: the age of a record is taken without looking at its status. *)
RecordAgesAnyStatus(c) ==
  /\ jobs[c] # "absent" /\ c \notin aged
  /\ aged' = aged \cup {c}
  /\ UNCHANGED <<pc, kind, counters, git, agents, trees, jobs, ran, restarts>>

RecordAges(c) ==
  /\ jobs[c] \in TerminalStatuses /\ c \notin aged
  /\ aged' = aged \cup {c}
  /\ UNCHANGED <<pc, kind, counters, git, agents, trees, jobs, ran, restarts>>

(* replicas=1 with Recreate: the process and its children die and a new one *)
(* starts with empty memory.  JOBS_DIR is on a volume that survives.        *)
Restart ==
  /\ restarts < MaxRestarts
  /\ restarts' = restarts + 1
  /\ pc' = [c \in Calls |-> IF pc[c] \in QueuePhases \cup SlotPhases \cup {"ending", "abandoned"}
                              THEN "lost" ELSE pc[c]]
  /\ permits' = MaxConcurrency /\ waiters' = <<>>
  /\ active' = 0 /\ queued' = 0
  /\ gitQueue' = <<>> /\ fetched' = FALSE
  /\ agents' = {}
  /\ jobs' = [c \in Calls |-> "absent"] /\ aged' = {}
  /\ UNCHANGED <<kind, trees, ran>>

(* The steps the runner takes by itself once a call is admitted. *)
Advance(c) ==
  \/ EnterLater(c) \/ Resume(c)
  \/ Refresh(c) \/ FetchEnds(c) \/ FetchTimesOut(c) \/ Clone(c) \/ SetupFails(c)
  \/ StartAgent(c) \/ StartFails(c) \/ AgentExits(c) \/ CutOff(c) \/ Cleanup(c)

Environment ==
  \/ \E c \in Calls : \E k \in Kinds :
       Refuse(c, k) \/ SubmitJob(c, k) \/ CallDirect(c, k) \/ OpenStream(c, k)
  \/ \E c \in Calls :
       \/ DisconnectReserved(c) \/ DisconnectWaiting(c)
       \/ DisconnectGranted(c) \/ DisconnectActive(c)
       \/ OrphanExits(c) \/ RecordAges(c)
  \/ FetchAges
  \/ Restart

Next == (\E c \in Calls : Advance(c)) \/ Environment

Spec == Init /\ [][Next]_vars

(* The event loop runs every ready coroutine, git commands and rm end, and  *)
(* an agent run ends: by its timeout, or for a fixer job by its own exit.   *)
FairSpec == Spec /\ \A c \in Calls : WF_vars(Advance(c))

-----------------------------------------------------------------------------
(* Properties. *)

(* Every variable has its type; the lines hold distinct calls that exist.   *)
TypeOK ==
  /\ pc \in [Calls -> Phases]
  /\ kind \in [Calls -> AllKinds \cup {"none"}]
  /\ permits \in Nat /\ active \in Nat /\ queued \in Nat
  /\ waiters \in Seq(Calls) /\ gitQueue \in Seq(Calls)
  /\ fetched \in BOOLEAN
  /\ agents \subseteq Calls /\ trees \subseteq Calls
  /\ jobs \in [Calls -> TerminalStatuses \cup {"absent", "queued", "running"}]
  /\ aged \subseteq Calls /\ ran \subseteq Calls
  /\ restarts \in 0..MaxRestarts

(* The two counters /health reports and admission decides on are exact, and *)
(* no permit is lost or minted, whatever is cancelled while it waits:       *)
(* _execution_slot and asyncio's acquire undo what they did.                *)
CountersAgree ==
  /\ active = Cardinality(Holding)
  /\ queued = Cardinality(Reserved)
  /\ permits + active + Cardinality(Granted) = MaxConcurrency

(* The caps of main.py:39-44 hold between any two steps, although the       *)
(* reservation, the wake-up and the counting happen at different times.     *)
AdmissionBounded ==
  /\ active <= MaxConcurrency
  /\ active + queued <= MaxQueueDepth

(* No wake-up is lost: with a permit in the pool and a call in the line,    *)
(* some woken call has yet to resume, and its resumption wakes the line.    *)
NoLostWakeup == permits > 0 /\ waiters # <<>> => Granted # {}

(* Outside /v1/conversational, a claude process lives only while its call   *)
(* holds a permit: no exit, timeout, error or disconnect leaves one behind. *)
AgentHoldsPermit ==
  \A c \in agents : kind[c] # "conv" => pc[c] = "running"

(* The checkout of an agent exists as long as the agent lives: clean-up     *)
(* never deletes the tree under a running process (main.py:350-354).        *)
AgentHasTree ==
  \A c \in agents : kind[c] \in WorkspaceKinds => c \in trees

(* A call that got as far as its agent removes its checkout before it ends. *)
NoTreeLeft == \A c \in trees : pc[c] = "done" => c \notin ran

(* What GET /jobs answers fits what the worker does: a live job is on       *)
(* record with its stage, is never evicted, and a terminal record is not    *)
(* that of a job that still runs.                                           *)
RecordsTruthful ==
  \A c \in Calls : kind[c] \in JobKinds =>
    /\ pc[c] \in QueuePhases => jobs[c] = "queued"
    /\ pc[c] \in SlotPhases => jobs[c] = "running"
    /\ pc[c] \in {"ending", "done"} => jobs[c] \in TerminalStatuses \cup {"absent"}
    /\ pc[c] \in {"refused", "lost"} => jobs[c] = "absent"

(* A finished record never changes its verdict; it can only disappear.      *)
VerdictFinal ==
  [][\A c \in Calls : jobs[c] \in TerminalStatuses => jobs'[c] \in {jobs[c], "absent"}]_vars

(* Every admitted call ends, unless the pod is replaced under it, a         *)
(* streaming client leaves before its generator starts, or its prompt       *)
(* cannot be built.                                                         *)
AdmittedFinishes ==
  \A c \in Calls : pc[c] \in QueuePhases ~> pc[c] \in {"done", "lost", "abandoned"}

(* Who stands in the two lines: distinct calls that wait, and at the head   *)
(* of git_lock's line the one call that fetches or clones.                  *)
LineInv ==
  /\ \A i \in DOMAIN waiters : pc[waiters[i]] = "waiting"
  /\ \A i, j \in DOMAIN waiters : waiters[i] = waiters[j] => i = j
GitInv == \A c \in Calls : pc[c] \in {"fetching", "cloning"} => HoldsGit(c)

(* A live process belongs to a call that has arrived and runs it, or, in    *)
(* the conversational path, that ran it.                                    *)
AgentInv ==
  \A c \in agents : pc[c] = "running" \/ (kind[c] = "conv" /\ pc[c] = "done")

(* The inductive invariant of JobRunnerProofs. *)
IInv ==
  /\ TypeOK /\ LineInv /\ GitInv /\ AgentInv
  /\ CountersAgree /\ AdmissionBounded /\ NoLostWakeup

(* The semaphore, the counters and the coroutines implement the admission   *)
(* control callers are promised.  A waiter for which the pool has a permit  *)
(* counts as running: the next resumption wakes it.                         *)
Entitled == IF permits <= Len(waiters) THEN permits ELSE Len(waiters)
Admission == INSTANCE AdmissionControl WITH
  Capacity <- MaxConcurrency,
  Depth <- MaxQueueDepth,
  pending <- {c \in Calls : pc[c] \in {"reserved", "abandoned"}},
  line <- SubSeq(waiters, Entitled + 1, Len(waiters)),
  running <- Holding \cup Granted \cup {waiters[i] : i \in 1..Entitled}
AdmissionSpec == Admission!Spec

(* The registry keeps the contract with the loops that poll it.  A job is   *)
(* what start_job accepted; every other call is none of its business.       *)
RecordOf(c) ==
  IF kind[c] \notin JobKinds \/ pc[c] = "refused" THEN "unused"
  ELSE IF jobs[c] \in {"queued", "running"} THEN "live"
  ELSE IF jobs[c] = "absent" THEN "gone" ELSE jobs[c]
Service == INSTANCE JobService WITH
  Jobs <- Calls,
  Verdicts <- TerminalStatuses,
  record <- [c \in Calls |-> RecordOf(c)],
  working <- {c \in agents : kind[c] \in JobKinds}
ServiceSpec == Service!Spec

(* What the docstring of _execution_slot says (main.py:188-189): a reserved *)
(* queue slot is always released.                                           *)
ReservationReturned ==
  queued = Cardinality({c \in Calls : pc[c] \in QueuePhases})
=============================================================================
