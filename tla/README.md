# Verification of claude-agent-service

TLA+ models, TLC configurations and TLAPS proofs for the service in `src/`: a FastAPI process that runs
`claude` for its callers, a control loop that turns labelled issues into such runs and follows them to
a green pipeline or to a person, an intake that turns user reports into such issues, and a break-glass chat whose
turns outlive the page that started them.

- [1. The system](#1-the-system): inventory and what makes each part correct
- [2. The modules](#2-the-modules) and how they correspond to the code
- [3. The runs](#3-the-runs): what TLC checks, with which bounds and which fairness
- [4. The proofs](#4-the-proofs): what TLAPS proves, and how
- [5. Disagreements with the documents](#5-disagreements-with-the-documents)
- [6. Modelling decisions](#6-modelling-decisions), [7. Not modelled](#7-not-modelled), [8. Plan](#8-plan)

Two words used throughout: a *call* is a request the service was asked to serve; a *run* is the life of one
issue between the label that locks its repository and that label's removal. One run may need several jobs
(calls of `/execute`).

## 1. The system

| Part | State | Operations | Interacts with |
| --- | --- | --- | --- |
| **Job runner** `app/main.py` | `execution_semaphore`, `inflight_active`, `inflight_queued`, `git_lock`, last fetch time, `jobs` registry, checkouts on disk, child processes | `POST /execute`, `GET /jobs/{id}`, chat completions (with tools, without, streamed), `POST /v1/conversational` | every caller; `start_job` is called by the receiver in the same process |
| **Conversational turns** `app/conversational.py` | sessions opened | `run_turn`, `stream_turn` | run inside the job runner's slot |
| **Completions without tools** `app/no_tools.py` | – | one `claude` child, killed on timeout | run inside the slot |
| **Webhook gates** `app/fixer/gates.py`, `profiles.py` | pure | `decide`: which delivery starts or continues a run | asked by the receiver |
| **Fixer: receiver** `app/fixer/receiver.py` | none of its own | one webhook delivery: gates, lock, submit, label, comment | tracker, `start_job` |
| **Fixer: tick** `app/fixer/tick.py`, `afk/poller.py`, `afk/watcher.py` | none between ticks | drain (start one run per free repository), watch (one step of each run) | tracker, `/execute`, `/jobs`, CI |
| **Run state machine** `afk/run_state_machine.py` | pure | `next_action` | asked by the watcher |
| **Run record** `fixer/runstate.py` | a footer in the issue's comments | `latest_record`, `find_pushed_commit`, `render_footer` | the only memory of the loop |
| **Dispatch policy** `afk/dispatch_policy.py` | pure | which queued issues to start | asked by the poller |
| **Runner client** `fixer/execute_client.py` | – | what a job's status says of its turn | read by the tick |
| **Tracker adapters** `fixer/forgejo.py`, `afk/tracker.py`, `fixer/checklist_tracker.py` | labels, comments, open or closed: in Forgejo | one HTTP call each | tick, receiver, people |
| **CI verdicts** `afk/ci_watcher.py`, `fixer/ci.py` | a marker per commit, for the drill | read the checks and search the pages of pipelines, one call each; fold the stages into one verdict | asked by the watcher |
| **TV profile** `fixer/profiles.py`, part of `tick.py` | label and footer as above | runs that watch their own CI, comment triggers, approval | tracker |
| **Break-glass sessions** `app/breakglass/session.py`, `server.py` | event log, subscribers, turn, process | start, cancel, attach and replay | the web frontend |
| **Web frontend** `frontend/src/App.svelte`, `lib/transcript.js`, `lib/api.js` | session, transcript with the ids it has seen, turn liveness | attach, prompt, stop, new session | break-glass sessions |
| **Break-glass power verbs** `breakglass/pve.py`, `auth.py` | – | one SSH verb from an allow-list | – |
| **Intake** `app/intake.py` | records with a TTL, one place, temporary directories, child processes | submit, status, run, evict, shutdown | the tv backend, which polls and sends again |
| **T3 client, notifier, checklist, run log** | – | output, or an alternative executor the fixer does not use | tick |

How they interact. The receiver runs *inside* the service and is synchronous: while it handles a delivery the
service answers nobody. The tick is a *separate* process, a CronJob pod, which talks to the service over HTTP.
Both may start a run. They share no memory: the `in-progress` label of an issue is the lock of its
repository, read by listing and written by a later call, and the footer in the comments is all that survives a
tick. Agents act on their own: they push, declare the commit in a comment, and end. CI, people and pod
replacements act at any moment.

What is hard, and the property that answers it:

- *Admission.* Reservation, acquisition and release are three events of one coroutine; any may be cancelled
  between wake-up and resumption. Correct when the counters are exact (`CountersAgree`), the caps hold between
  any two steps (`AdmissionBounded`), no wake-up is lost (`NoLostWakeup`), arrival order is kept
  (`AdmissionSpec`) and everyone is served (`AdmittedFinishes`).
- *Processes and checkouts.* A timeout, a disconnect or an exception must leave neither a process without a
  permit, nor a process whose tree is gone, nor a tree without an owner (`AgentHoldsPermit`, `AgentHasTree`,
  `NoTreeLeft`).
- *The registry.* Callers poll it: it must not forget a live job, change a verdict, or let an agent work on for a job
  whose record says otherwise (`RecordsTruthful`, `ServiceSpec`).
- *The label lock.* Read, and stamped three calls later. Correct as far as `SecondRunExplained` says; a lock
  must have a run behind it (`LockHasRun`) and must not be held for ever (`LockReleased`).
- *The footer.* Written after the job it counts has started, read one tick later (`FooterCountsJobs`).
- *A verdict on a moving run.* CI speaks while the turn still works, or never (`ClosesSettledRun`,
  `LockReleased`).
- *The hand-over.* An escalated issue keeps its trigger label and has lost its lock (`HandedOverStaysOut`), and
  yet nothing may be forgotten (`NothingLost`).

- *The tv repository.* Who may start a run is judged at two doors, by two spellings of trust, on labels that may have changed
  since (`RunsAreAsked`, `TrustAgrees`, `ChosenIsTrusted`); a run must not start its own successor (`NoSelfRestart`); the
  owner must be told the truth (`HandoverTruthful`), and what he answers must not be lost (`ReplyAnswered`).
- *A verdict from moving lists.* Checks and pipelines come and go between the calls of one question: green closes an issue and red
  starts a run, so both must be earned (`GreenEarned`, `RedEarned`), a search must not miss what shifts under it
  (`NothingMissed`), the drill must fire once (`ForcedOnce`) and a commit that landed must be told so (`GreenComes`).
- *The intake.* Two timeouts nest, kills take time and anything may raise (`NoChildOutlives`); the backend acts on the
  record and retries (`RecordsFit`, `RetryIsSafe`); one report must not block the next (`JobsEnd`).
- *The break-glass stream.* Log, live queue and browser each keep an id; connections break anywhere. Correct when a page
  shows each event once, in order, and all of them (`ShownInOrder`), and knows whether a turn runs (`BusyTracksTurn`).
  `newSession` and a prompt's second try wait for a session while the page stays usable and timers attach on their own.
- *A break-glass turn.* It may end by itself, by its timeout and by Stop, at the same time: no agent may work on without its
  turn (`AgentHasTurn`), each turn is reported once (`TurnsReported`), Stop means stopped (`StopStops`), and the session is free
  again some day (`TurnEnds`).

`PROJECT.json` lists all hazards with their lines, those without a property too.

## 2. The modules

```
AdmissionControl  <--implements--  JobRunner  <--  MCJobRunner      (TLC)
                                              <--  JobRunnerProofs  <--  AdmissionProofs  (TLAPS)

JobService  <--implements--  JobRunner
            <--takes steps of--  FixerLoop, TvLoop

RunStateMachine  <--  FixerLoop  <--  FixerLoopProofs  (TLAPS, for both)
      ^
      +---------------------------+
Profiles  <--  Gates           <--  TvLoop  <--  TvLoopProofs  (TLAPS)
          <--  DispatchPolicy  <--  TvLoop
               both            <--  GatesProofs  (TLAPS)

CiVerdict  <--  CiProofs  (TLAPS)
Intake     <--  IntakeProofs  (TLAPS)

BreakglassSession  <--  BreakglassPage  <--  BreakglassProofs  (TLAPS)
```

The groups do not share state in the code either. The break-glass is a server of its own. The intake lives in the service's process
with a semaphore, records and directories of its own. What the loops need of the job runner is the contract `JobService`. What
they need of CI (a verdict, or none yet) is in `FixerLoop`; how the verdict is found is `CiVerdict`.

**JobRunner** is the event loop of `app/main.py`. A step of a call is what its coroutine does between two
awaits; steps of different calls interleave. `pc` says where a coroutine is suspended:

| `pc` | in the code |
| --- | --- |
| `reserved` | `_reserve_queue_slot` counted it; its task, or its response generator, has not started |
| `waiting`, `granted` | in `execution_semaphore.acquire()`: in the line, or woken and not yet resumed |
| `locking`, `fetching`, `cloning` | `prepare_workspace`: at `git_lock`, in the fetch, in the clone |
| `starting`, `running` | before and during the agent's process |
| `ending` | the `finally` of the worker: the checkout's removal |
| `abandoned` | reserved, and its generator will never start |
| `done`, `refused`, `lost` | over: ended, 503, or died with the pod |

`permits`, `waiters` and `gitQueue` are asyncio's semaphore and lock with Python 3.12's semantics: `release`
wakes the head, a woken waiter takes its permit when it resumes and wakes more, a cancelled one passes the
permit on, and no newcomer overtakes. `active` and `queued` are the two counters of `/health`. Two wrinkles of
the code are kept: `conversational.run_turn` has no clean-up, so `CutOff` does not kill a `conv` process, and a
fetch that times out raises the same exception as the agent's timeout.

**AdmissionControl** is what callers are promised, without counters or coroutines: at most `Capacity` run, at
most `Depth` are in the system, those that wait do so in arrival order and no permit idles. `JobRunner`
implements it under the mapping at the end of that module: a waiter for which the pool already has a permit
counts as running.

**JobService** is what lies between the job runner and the two loops: `POST /execute` and `GET /jobs/{id}` as one status per job.
An accepted job is on record until it has a verdict; the verdict stays until it is forgotten; a new pod remembers nothing; an agent
works only for a job on record as live, so that a tick which reads a verdict, or nothing, may start another turn.
`JobRunner` implements it (`ServiceSpec` at the end of that module: every call that is no job is "unused"), and the
`status` of `FixerLoop` and `TvLoop` moves by its steps only, with one verdict in place of four.

**RunStateMachine** is the decision table `next_action`, operator by operator.

**FixerLoop** is the loop on one repository whose CI the service follows. Each call to the tracker, to the
service or to CI is a step. `recv` is the webhook handler: `idle`, `submit`, `stamp`, `record`. `tick` walks

```
idle -ListReady-> listed -ReadLock-> submit -> stamp -> record -> watch        (drain)
                                 \---------------------------------^
watch -ListHeld-> next -ReadComments-> turn -ReadTurn-> judge -Judge-> next ...     (watch)
                                                          |-> resubmit -> persist   (fix forward, restart)
                                                          |-> unlock -> close       (green)
                                                          \-> unlock -> hand        (a person)
```

and keeps in its record what the code keeps in locals: the list it read, the issue, the footer, the declared
commit, the ages. `footer[i]` and `marker[i]` are the last run record and the last declared commit in the
comments of issue `i`; a job's number also names the commit it declares. `late` and `overdue` are the two clocks
the table looks at, each below or at its ceiling. `abandoned` (live jobs whose lock was released) and
`disorder` (which overlaps there have been) are history variables, for the properties only.

**Profiles, Gates, DispatchPolicy** are pure: who is trusted on which repository, `gates.decide` with every gate in the code's order,
and `select_dispatchable` over whatever the trackers list, on any number of repositories. `TvLoop` uses all three on its
way through both doors, and `GatesProofs` states what they promise for every input.

**TvLoop** is the loop on the tv repository, whose agents follow their own build. It differs from `FixerLoop` where the
profile does: the labels `needs-approval` and `approved`, comments that continue a run, `_watch_run_end` in place of
the CI watch, the sweep of closed issues. A delivery (`hooks`) carries the labels, the state and the actor of the moment
it was sent and may arrive at any later time, or never; the gates judge the delivery, the drain judges the tracker.

```
recv: idle -Receive-> [clear] -> lock -> submit -> stamp -> [release] -> record     (a run)
                                    \-> release                                     (a reply kept for the queue)
tick: idle -ListReady-> listed -ReadLock-> submit -> [clear] -> stamp -> record -> watch
      watch -ListHeld-> next -ReadComments-> turn -ReadTurn-> unlock -> [hand] ...   (open issues)
                                                          \-> resubmit -> persist
      sweep -ListClosed-> the same for closed ones                                   (lock released, nothing else)
```

A job's number is the time its run started at, so "a `Fix shipped:` comment since the run started" is `shipped[i] >= rec.start`.
`asked`, `fresh`, `reply`, `race` and `tick.late` are history variables, for the properties only. An issue is `fresh` once its owner
has touched it since its last start, or the handler has taken up a reply of his, which may arrive long after he wrote it.

**CiVerdict** is one question after another about one commit: `ask`, the build checks, the drill's forced red, the
pages of pipelines. `pipelines` and `checks` are what Woodpecker and GitHub hold; they grow and settle between any two
calls, so that `probe.skip`, the place the search has reached counted from the newest end, is stale by as many pipelines as started
meanwhile. `StageOf`, `StageOfCheck`, `BuildStage` and `VerdictOf` are the tables and folds of `ci_watcher.py` and `ci.py`.

**Intake** is `intake.py`. `phase[j]` says where the task of a job is suspended:

| `phase` | in `_run_job` and `_communicate` |
| --- | --- |
| `queued` | at the semaphore of one |
| `launchGit`, `launchAgent` | in `create_subprocess_exec` |
| `cloning`, `running` | waiting for the output of git, of the agent |
| `reaping` | git was killed by the clone's own timeout and is waited for |
| `cutting` | the process was killed by the job's timeout and is waited for |
| `over`, `left`, `crashed`, `lost` | the end: as recorded; with a killed git not yet dead; by an exception outside the `try`; with the pod |

**BreakglassSession** is `session.py`. `turn[n]` says where the task of turn `n` is suspended:

| `turn` | in `_run_turn` |
| --- | --- |
| `created`, `spawning` | not run yet; in `create_subprocess_exec`: outside the `try`, so that a cancellation ends the task without a word |
| `pumping`, `reaping` | in `wait_for(_pump())`; in `self._proc.wait()` |
| `killing`, `stopping` | in `_kill_proc`, called by the `TimeoutError` and by the `CancelledError` handler |
| `over` | done |

`cut` holds the tasks that were cancelled and have not run since; `stop[r]` is a cancel request, which waits for the process
(`killing`) and then for the task (`joining`), and which may find a later turn in `self._turn` when it resumes. `stream[c]` is
what `attach_stream` keeps for a client: the rest of the replay, the live queue, the last id seen. Ids are 1-based here and 0-based
in the code.

**BreakglassPage** adds the page: its session, the browser's `lastEventId`, the transcript's watermark and turn
flag, a prompt on its way (`post`) and its session (`to`), requests for a new session (`opening`), whether the browser's storage
has the session (`saved`), the `EventSource` (`es`), the link's state, and the re-attaches that are due (`timers`). A request,
its handling and its answer are separate steps, and the page goes on between them:

| In `App.svelte` | actions |
| --- | --- |
| `attach`, `onOpen`, `onError`, the timer of 1500 ms | `Attach`; `Drop` (the browser reconnects by itself); `AttachRefused` (the source is closed: the session is gone, or the edge in front of a live one answers with an error); `Reattach` (from the beginning, on a live session too) |
| `onEvent` with `reduceEvent` | `Receive` |
| `submitPrompt` | `Submit`, `Answer` (the server), `Hear`; after a 404 `Reopen` or `ReopenFails`, and a second `Answer`; `PromptLost` |
| `newSession` | `StartOver` up to its `await`; `Opened` or `OpenFails` after it; prompts, timers and Stop may come between |
| `bootstrap`, of the Reconnect button | `Reconnect`, with `Opened` or `OpenFails` where no session is stored |
| `stopTurn` | `Stop` |

Two history fields name what the code leaves open. `stale`: the transcript does not begin where its session does. This happens
where `submitPrompt` opens a session and keeps the transcript (App.svelte:149-153); where a timer opens a stream of the old
session while `newSession` waits (85-87); and where Reconnect empties the transcript under an open stream (98, 109).
`astray`: the page is busy with what it sent to, or heard of, a session it has left. This happens where a prompt is sent while
`newSession` waits (its `turnActive` and `sending` are false and its `sessionId` is the old one, and Chat.svelte:69 and 209 leave
Send on); and where Reconnect, which does not touch `turnActive`, follows a stale transcript.

**The eight modules whose names end in Proofs** hold the theorems of section 4.

## 3. The runs

`tlc -config X.cfg M`, with `X` and `M` from the table. Numbers are distinct states.

| Run (cfg) | Module | Question | Result |
| --- | --- | --- | --- |
| `JobRunner` | MCJobRunner | Three calls of any of the seven kinds, one permit, two places, one pod replacement: are admission, processes and checkouts as promised, and does the registry keep the contract JobService? | holds, 809 thousand |
| `JobRunnerQueue` | MCJobRunner | Four calls, two permits, streamed calls that may leave at every await: exact counters, no lost wake-up, refinement of AdmissionControl, everybody served? | holds, 24 thousand |
| `FixerLoop` | FixerLoop | Two issues, a delivery racing the drain, one mishap of any kind: what does the label lock survive? | holds, 2.17 million |
| `FixerQueue` | FixerLoop | Agents may hang, CI may stay silent, records may be lost: is every lock released and every queued issue dealt with? | holds, 145 thousand |
| `TvLoop` | TvLoop | Two tv issues, one approved and one waiting; owner, collaborator and bots who label, comment and close; agents that ask, ship and close; one mishap: who can start what, and is everybody answered? | holds, 166 thousand |
| `CiVerdict` | CiVerdict | Two pages of two pipelines, up to five pipelines and two checks that come and settle during the search, two mishaps, an armed drill: are verdicts earned, and does a green come? | holds, 271 thousand |
| `Intake` | Intake | Three jobs for two reports, both timeouts, processes that die late, failures at every step, one pod replacement: one run at a time, true records, safe retries, and does every job end? | holds, 38 thousand |
| `BreakglassPage` | BreakglassPage | A page that prompts, stops, reconnects and asks for new sessions at any moment, two sessions and turns, one mishap: is the stream exact, and does every turn end, reported and without a left-over agent? | holds, 741 thousand |
| `ReservationReturned` | MCJobRunner | a sentence of `main.py`'s docstrings | refuted, section 5 |
| `PausedIsBrake`, `ClosedOnOwnCommit` | FixerLoop | sentences of the documents | refuted, section 5 |
| `OutputShown` | BreakglassPage | a sentence of `App.svelte`'s comments | refuted, section 5 |

What the properties say in words:

- `JobRunner`: `AdmissionBounded` relates both counters to both caps between any two steps; `AgentHoldsPermit`
  and `AgentHasTree` tie every live process to a permit and to its checkout, excepting only the
  conversational path; `NoTreeLeft` says that a call that got as far as its agent removes its tree;
  `RecordsTruthful` relates the registry to the worker's place; `ServiceSpec` says what no step may do to
  a record, its verdict included (`VerdictFinal` follows from it), while an agent works.
- `FixerLoop`: `SecondRunExplained` is the central one. A second turn never joins a live one, whatever jobs, CI, people, the pod
  and the clocks do, except after a failed call; where a dispatch of the receiver overlapped one of the tick, or the tick's look at
  the same issue; and where a person reopened an issue whose lock, or live run, its closing had hidden. A history without
  these is `Orderly`. `ClosesSettledRun` says that in such a history what a tick saw still holds when it acts on it two calls
  later. `FooterCountsJobs` says that the bookkeeping in the comments accounts for every job of the run, so the
  budgets bound what they are meant to bound; it excepts, besides, a pod that dies between the label and the footer.
  `HandedOverStaysOut`: the drain starts an issue that is labelled for a human only where a person put the label on between the
  drain's list and its submission (`labelled`), which `run_once` does not look at again.
- `BreakglassPage`: `ShownInOrder` relates what a page has folded to the server's log across reconnections and
  interrupted replays, and demands all of it once nothing is in flight. `TurnsReported` says that a log is one turn after
  the other, each closed by one `turn_end`, whichever of exit, timeout and Stop came first. `BusyTracksTurn` relates the page's flag to
  the server's task. Their exceptions are the code's: a transcript that does not begin where its session does (`stale`), a page
  busy with a session it has left (`astray`), a process lost with the pump (`left`), a turn cancelled before its process existed.
- `FixerQueue`: `LockReleased` and `NothingLost` are liveness; see fairness below.
- `TvLoop`: `RunsAreAsked` says that every job there ever is goes back to an act of the owner, whatever others label and say and
  however late a delivery is. `NoSelfRestart` is the reason for the hand-over: the drain never starts an issue again that its owner
  has not touched or answered. It excepts failed calls, overlaps of receiver and tick, and one sequence the run found (section 5).
  `HandoverTruthful` relates what the owner is told to what the agent reported. `LockReleased` includes issues their agents
  have closed; `ReplyAnswered` says that a reply the gates let in leads to a run, or back to the owner.
- `CiVerdict`: `GreenEarned` and `RedEarned` tie a verdict to the *newest pipeline as of the start of the search, or a newer
  one*, which is what a search over shifting pages can promise; `NothingMissed` says that a search that came to the end of the window
  without a hit overlooked none.
- `Intake`: `NoChildOutlives` has one exception, a killed git that the second timeout stops waiting for; `RecordsFit` has
  one, the record of a job whose directory could not be made.

The type invariants of `FixerLoop`, `Intake` and `CiVerdict` are proved (`LoopTyped`, `IntakeTyped`, `CiTyped`), and so not repeated
in their runs.

**Bounds, and why they are enough.** Three calls with one permit put one call in each of the three roles (runs,
waits, arrives) and every pair of kinds against every third; two places make `QueueFull` true and false.
Four calls with two permits are the smallest instance in which two permits are released while two calls wait, so
that a wake-up can be lost, overtaken or passed on. Symmetry over calls is used in the safety runs only. In
`FixerLoop`, two issues are a run and a rival; two jobs are a first turn and a second one, of the same run or
of another; one mishap of any kind (fault, loss, touch) at any step shows which single mishap breaks what. The
proofs cover any number; checked once, and not runs: the same with two mishaps of the kinds touch and loss (16.8 million
states), `TvLoop` with two mishaps (15.6 million), the safety of `BreakglassPage` with two (4.1 million), and of its pages alone with
three sessions, three mishaps and no Stop (2.3 million). `FixerQueue` gives two issues two jobs each (the fix-forward budget is 1, the
restart budget 0), so that the bound on jobs is never what stops the loop. The ceilings are 1 because the
clocks are told apart only below and at them. `FixForwardMaxSeconds` is 2, above both, so that a late run may
still be fixed forward.

In `TvLoop`, an approved issue and one that waits for approval are the two ways a run begins, and rivals for one lock; two jobs
are a run and its restart or its successor. The mishap may be an act of a person, a failed call or a new pod; agents and bots
act without counting as one. A property that a bound and not the code would break says so (`Exhausted`: an actor wants to start a job
and none is left). In `CiVerdict`, a page holds two pipelines and the window two pages, so that a pipeline can shift from
the first page to the second, be seen twice, and leave the window; five pipelines are one more than the window, and two of them
are the commit's own, an older and a newer one. In `Intake`, three jobs and two reports are the smallest instance in which
a report is sent again while another job stands between the two.

In `BreakglassPage`, one page shows every order of log, stream and transcript; a second session is what a new pod or
`newSession` leads to; a second turn is what a late Stop may hit; one event of output separates a turn's
beginning and end; one mishap (a lost connection, a prompt or an answer that is lost, a session that cannot be opened, an error of
the edge, a new pod) at any step. `MayAsk` lets a page ask for as many sessions as may still be created, and where a session is gone
one timer stands for all that pile up (`AttachRefused`). Two pages with two turns,
without output and mishaps, are 2.39 million states: checked once, not a run.

**Deadlock** is not checked: each identity of a call arrives once, jobs are bounded, and the systems
really stop when all are used up.

**Fairness.** `JobRunner!FairSpec`: the event loop runs every ready coroutine, git and `rm` end, and a run
ends: by its timeout, or, for a fixer job that has none, because the agent exits. Nothing is assumed of clients.
`FixerLoop!FairSpec`: the cluster keeps starting ticks, one at a time, and a call returns; time passes;
an agent ends, *unless* CI has spoken on the commit it declared, in which case it may hang for ever. The exception
is as wide as the code allows: a turn that hangs before any verdict holds the lock for ever by the table's
own design (a fixer job has no timeout, and the table waits for a running turn without a verdict). Nothing is assumed of
CI: that a silent pipeline does not hold the lock is what `CiVerdictMaxSeconds` is for. The CronJob's manifest is
not in the repository; that ticks do not overlap and keep starting is taken from `tick.py`'s docstring. Failed
calls are left out of the liveness run (an adversary that fails every call starves any loop), lost records are not.

`TvLoop!FairSpec`: the handler and the tick take their steps, and every agent ends. The last is an assumption, and needed: a
fixer job has no timeout and this profile has no ceiling, so an agent that hangs holds the lock for ever. Nothing is assumed of
people, of deliveries or of the bots. `CiVerdict!FairSpec`: ticks keep coming and calls return; nothing is assumed of CI, and
mishaps, though any number of them is possible in the proofs, are bounded in the run. `Intake!FairSpec`: the event loop runs a
ready task, both timeouts fire, and a killed process dies; an agent need not end by itself.

`BreakglassPage!FairSpec`: the event loop runs a ready task, the pump's timeout of 1800 s fires, and a process exits once it is
killed or has closed its output. The last half is an assumption about `claude`: nothing in the code bounds the wait after
the pump. Nothing is assumed of pages and connections.

## 4. The proofs

`tlapm M.tla` proves each without a gap, for every value of the constants under the named assumptions:
`RunnerAssumption` (finite calls, at least one permit), `RunConfigAssumption` (what `loop_config` accepts: a
positive deferral ceiling, a non-negative restart bound, any fix-forward budget), `LoopAssumption` (finitely many
issues, numbers other than 0), `ProfileAssumption` (the owner is no bot), `CiAssumption` (a positive page and window),
`TvAssumption` (finitely many issues, and a collaborator who is not the owner), `IntakeAssumption`, `SessionAssumption` (at least one session) and `PageAssumption`. What is not proved is listed at the
end of this section.

**JobRunnerProofs.** `RunnerInvariant` is `Spec => []IInv`; `RunnerTyped`, `CountersExact`, `AdmissionIsBounded`,
`WakeupsNeverLost` and `AgentsHoldPermits` follow. `CountersAgree` alone is not inductive: that `release` moves exactly
one call needs the line to hold distinct calls that wait (`LineInv`), and that a fetch's end pops its own
entry needs it to stand at the head (`GitInv`). `AdmissionBounded` needs the exact counters, because a resumption
moves a unit from one counter to the other. `NoLostWakeup` needs permit conservation. `AgentHoldsPermit` needs to
know that an orphan belongs to an ended conversational call (`AgentInv`). Most actions change counters through one
of three semaphore operations; the lemmas are about those, and each action's proof cites them.

The second half of the module has an invariant of its own, `CallsOK`: for each call, what its phase, its kind, its
record, its checkout and its history say of each other. It is inductive beside `IInv`, because a step moves one call and at
most wakes others (`RecordStep`), and evicts only what is `aged`, hence finished. `AgentsHaveTrees`, `TreesAreRemoved` and
`RegistryIsTruthful` read it off; `VerdictsAreFinal` is the action property that each step's lemma carries along.

The third part is a refinement: `RunnerKeepsService` is `Spec => ServiceSpec`. A step of a call changes its own record in one of
five ways (`OwnRecord`, a lemma for each group of actions), and on the occasion may evict others', which `CallsOK` knows to be
verdicts (`OthersForgotten`); `OwnStep` puts the two together into one step of the contract.

**AdmissionProofs.** `RunnerImplementsAdmission` is the refinement, `Spec => AdmissionSpec`, for every set of calls and every capacity. The
mapping counts a waiter as running once the pool has a permit for it. `WakeServes` says what a wake-up means in these terms: the
pool has served the first `min(permits, Len(line))` of its line, *however many of them were told so*, and this makes a
resumption a stutter (`Resumes`) and every return of a permit one abstract `Finish` (`PassOn`): on release, on a failed setup
and on a cancelled wake-up. `Enters` shows that a newcomer runs exactly if the abstract pool would let it (`MayRunIff`, which
needs the conservation of permits), `Withdraws` that a cancelled waiter either returned a permit or only left its place,
and `Room` that the two counters admission reads bound the abstract system. `IInv` carries all of it.

**FixerLoopProofs** begins with six facts about the table of `RunStateMachine`, for every state and every configuration:
`EveryStateDecided`; `NoTurnBesideLiveOne` (no corrective turn and no pre-push escalation while a turn is
known to be live); `LiveTurnDeferredTo` (a live turn is overridden only past the ceiling and on a verdict);
`UnknownTurnWaits` (without a verdict, an unreachable runner means wait); `EndedRunMovesOn` (an ended run
with an overdue verdict is never waited for: the reason `LockReleased` holds); `BudgetsBound`.

Then the loop. `LoopInvariant` is `Spec => []IInv` over all 31 actions, one lemma each; `LoopTyped`,
`LocksHaveRuns` and `HandedOverStaysOutOfQueue` follow. The strengthening says what an actor in the middle of its
work may rely on: where the tick or the handler has an issue, a record or a job, and that the job is that issue's
(`TickOK`, `RecvOK`); that starting a job takes none away from its issue (`OwnersUsed`); and that while the tick
has its queue and has not yet read the lock, nobody in it is labelled for a human (`QueueUnheld`) unless a person put the label on
since the list was made, which the history says (`labelled`). `EveryStateDecided` is used where the table is asked.

The second half is about orderly histories. `SecondRunExplained` says nothing of the places where an actor holds a lock
in its mind only, so `Places` adds them: at most one issue is locked and open, and none while an actor is between its reading of the
lock and its label (`ClaimInv`); what the tick works on is locked, because only the tick takes labels off (`WatchInv`); a followed job
has its issue's lock and is named by its footer, or its actor is about to see to that (`LockInv`); and at each place of an actor, who
may be followed besides (`RecvAlone`, `TickAlone`). `NoTurnBesideLiveOne` keeps the table from breaking the last. One lemma per
action gives `StepPlaces`, and `OneFollowed` reads `LockKeepsOneRun` off it. `KeptInvariant` holds in every history: the
numbers in comments and in the tick refer to jobs of their own issue (`OwnedInv`), an elapsed time at its ceiling is that of an old run
(`LateInv`), `BudgetsBound` bounds what is about to be started (`BudgetInv`), and jobs start in the order of their numbers. With
both, the tick's verdict stays true from `Judge` to `Unlock` (`ClosedRunIsSettled`): green is final, and nobody starts a job for an
issue whose lock the tick holds (`NoneJoins`). `FooterAccounts` needs that what the tick has read is what the comments
say when it writes (`ReadInv`) and that a job without a record is its issue's newest (`NewestInv`); then each job that starts adds one to both sides.

The last section is the other side of the contract. `ServiceStepsAgree` says that the steps the loop has the service take (a
job ends, a record is lost, a new pod) are steps of `JobService`, no more and no less, but for the loop's own clauses;
`LoopMeetsService`, that nothing the handler, the tick, people or mishaps do takes the jobs out of it: the loop starts only
jobs that are unused. Together with `RunnerKeepsService`, what the loop is proved about happens on the job runner's own terms. The
converse, that the loop has met every behaviour of the contract, is not claimed: see section 6.

**TvLoopProofs.** Two layers. `Facts` is inductive in every history, whatever fails and overlaps: types, where an actor has an
issue, a record or a job in hand (`TickPlaced`, `RecvPlaced`), that whatever may lead to a run is asked for (`AskedInv`: a footer,
an issue in an actor's hand or in the drain's queue, and a delivery under way, whose labels may be old), and that what the tick has
read of shipped fixes is so until an agent reports (`ShippedInv`). Two lemmas use the gates and the policy:
`AdmittedIsAsked`, `ChosenIsAsked`. `TvTypes`, `RunsGoBackToOwner` and `OwnerIsToldTruly` follow. `Order` holds while no call has failed and
the actors have kept apart. An issue whose owner has not been heard since its last start is locked, held by a person, or in the hand of
an actor about to see to that (`GuardInv`); what the tick will unlock without a word is settled or a person's
(`WatchInv`); what the drain has listed was locked, and what it is about to start is settled (`QueueInv`), because no open issue
is locked when it reads the lock (`LockRead`). `UnlockOrder` is the step the hand-over is there for. The acts of people
and agents disturb none of it (`OthersKeepOrder`). `DrainStartsNoneAgain` follows. `TvMeetsService` is `LoopMeetsService` for this
loop.

**BreakglassProofs.** `SessionInvariant` is `Spec => []IInv`; `AgentsHaveTurns` and `EveryTurnReported` follow. `TurnsReported` is
not inductive: that a new event keeps the order of the log needs to know that the turn that adds it is its session's last and has no
`turn_end` yet (`HomeInv`, `LogInv`), and that a new turn's number is above all in the log (`NumberInv`). What a phase says of the
process (`ProcInv`) excludes a killed process that is alive. `AddEventsAppends` is the lemma about the log, cited by
every step that adds to one; steps that add nothing are instances of `SilentStepPreserves`. `StopMeansOver` is the action
property `StopStops`: `StopInv` says that a request which joins another turn than its own has found its own over.

The second half is about pages. The invariant of a page (`PageOk`) is a predicate over one page, its stream, what it has shown and
the world, so that a step of the server is one lemma for all pages (`PageUntouched`, `PageGrows`, `PageFed`), and each of the page's
own actions has one (`AttachKeeps` and the like). `Carries` relates the places an event can be in: the browser's `lastEventId`, the
replay that is left, the queue and the log are consecutive stretches of the same numbers, and `lastEventId` is at or below the
transcript's watermark, which after a re-attach from the beginning drops what the page has seen. So the next frame that is not
dropped is the next event (`FrameIsNext`), and a drained page has them all (`PagesShowTheLog`). `Follows` says what the fold knows: the page thinks a turn is active exactly if the
events it has seen end in a prompt without its `turn_end` (`OpenAfter`, an existential in place of the fold, so that no induction
is needed: `OpenStep`). That an active turn's log is open (`RunningIsOpen`) and an open log does not report its last turn
(`OpenIsUnreported`) come from the first half; `Awaits` bridges the time in which a page is busy for a prompt that was answered and
whose event is still on its way (`Asked`), or for what belongs to a session it has left (`astray`). `StopIsOffered` follows, with the
exceptions of the property: a turn nobody reported, a `stale` transcript, and a page gone `astray`, which section 5 is about. `PageTypes` needs that a Stop request outlives neither its session nor
the session's last turn (`StopsLive`).

**GatesProofs.** About operators, so no invariant: `AdmittedPassedEveryGate` (what is admitted has passed every gate of either
chain, and only a comment continues a run), `BotsAreIgnored`, `TrustAgrees` (a set of accounts for the webhook and
associations of an account for the drain name the same people on every repository), `ChosenIsTrusted` (what the drain starts,
its webhook would have admitted), `OneIssuePerRepo` (one issue of a repository, and none before it) and `WorkIsChosen` (a
repository with an eligible issue is not passed over), which needs that a non-empty set of numbers has a least one.

**IntakeProofs.** `IntakeInvariant` is `Spec => []IInv`. `LineOK` says that the line holds the unfinished jobs, each once, so its head is
the one past the semaphore (`SlotOK`), whose directory exists; `ChildOK` relates each phase to the life of its
process; `OldOK` says that only a verdict grows old, so that a job the backend
is told is gone has ended. `ChildrenEndFirst`, `RecordsAlwaysFit` and
`RetriesAreSafe` follow.

**CiProofs.** `CiInvariant` has two halves: what the services do only adds to their lists or settles what was open
(`ListsGrow`), which disturbs no fact about places in them, and while a step of the question is taken the lists stand still. The
search's part of the invariant says that everything newer than the place reached, up to the start of the search, is not the
commit's; that `skip` counts from a moving end only makes the search look at a pipeline twice. `GreenIsEarned`, `RedIsEarned`,
`SearchMissesNothing` and `DrillFiresOnce` follow for any page, window and number of mishaps.

**Only model-checked.** Liveness (`AdmittedFinishes`, `LockReleased`, `NothingLost`, `TurnEnds`, `JobsEnd`, `ReplyAnswered`,
`GreenComes`) is out of the prover's reach.

## 5. Disagreements with the documents

Four sentences of the repository that the code does not keep. Each is a run of its own that ends in a
counterexample; `PROJECT.json` quotes the lines.

1. `ReservationReturned`: a streamed completion whose prompt cannot be joined, or whose client leaves before the
   generator's first step, keeps its queue place for ever.
2. `PausedIsBrake`: the drain does not look at the paused label.
3. `ClosedOnOwnCommit`: a run of an issue that was run before is closed on the earlier run's commit.
4. `OutputShown`: after a new pod, the page opens another session and keeps the old transcript, whose watermark hides the
   new session's first events, which may be the whole answer.

Observations without a run of their own. On the job runner:

- A conversational turn that times out frees its permit and not its process (`CutOff`), so that more `claude` processes run than
  permits; `AgentHoldsPermit` names the exception. The process has opened its session, which `_started` does not know
  (`conversational.py:98-99` plans a clean retry).
- A base fetch that hangs ends the job as `timeout` before any agent ran (`FetchTimesOut`).

On the fixer:

- Receiver and tick may both read the lock as free before either stamps it; `SecondRunExplained` names the case.
- A person who labels an issue for a human after the drain listed it and before it submits (`poller.py:125-136`) does not stop the run;
  `HandedOverStaysOut` names the case.
- Only open issues are listed as in progress (`forgejo.py:97`). A person who closes an issue in progress frees the repository while its
  run goes on; reopening it brings back a lock or a run beside the one started meanwhile. `SecondRunExplained` names the case.
- An agent that closes its issue between the tick's list of ready issues and its reading of the lock hides that lock, and the drain
  starts the issue just finished again (`poller.py:123-124`). `NoSelfRestart` allows an issue that is closed by then for this reason.
- A batch whose second dispatch fails leaves the first run without a footer (`tick.py:194`, `poller.py:130`): the next tick hands it
  over as an orphan while its job works.
- On tv, the webhook trusts the event's actor and the drain trusts whoever applied the label. The owner's reply, on a busy repository,
  to an issue a collaborator approved is released to a queue that will not start it. `Receive` counts only the other replies.
- Any label change by a trusted actor on an issue that carries the trigger starts a run, not only the addition of the trigger
  that `gates.py:9-11` speaks of.
- A run that continues an issue leaves `needs-approval` on it.
- tv has no ceiling: an agent that hangs holds the repository's lock for ever.
- `dispatch_policy.py` speaks of open blockers; `_parse_blocked_by` takes every number the body names, closed or not.
- `forgejo.py:112` lists one page of at most 100 issues; the model has fewer.

On CI verdicts:

- Commits are compared by their first seven digits. The check list is judged by the checks that exist when it is read: one that
  has not been created yet holds nothing back (`GreenEarned` speaks of the checks that were listed).
- A pipeline that is started for the commit again, during a search, may leave the superseded one's verdict; the promise is about the
  start of the search.
- A tick that dies after it wrote the drill's marker loses the forced red (`ForcedOnce` is "at most").
- A read that times out is not the exception `ci.py:98-104` catches and ends the tick (`TickDies`).

On the break-glass:

- A turn that is stopped before its process is there ends without `turn_end` (`session.py:76-83`): pages stay busy, and Stop
  then has nothing to stop. `App.svelte:167` expects the events; `TurnsReported` and `BusyTracksTurn` name the case.
- While `newSession` waits for its session, Send is on (Chat.svelte:69 and 209) and `submitPrompt` sends to the session the page
  still has (App.svelte:145). The page then attaches to the new, empty session and stays busy: Stop cancels nothing there, and Send
  and New are off until it is reloaded. App.svelte:22 says of `turnActive` "a turn is running (Stop shown, Send off)".
  `BusyTracksTurn` without its last disjunct (`astray`) is refuted in eight states, without a mishap: attach, `StartOver`, `Submit`,
  `Answer`, `Hear`, `Opened`, attach.
- A stream that was closed by an error is re-attached by a timer that looks only at the session's name (App.svelte:86). One that is
  due while `newSession` waits opens the old session's stream on the new, empty transcript, which the old events then fill.
- When no session can be opened after a 404, the prompt is sent again to the session that is gone, and the answer is not looked at
  (`ReopenFails`, App.svelte:152-153): the page stays busy with nothing to wait for. Reconnect does not reset `turnActive`
  (95-110), so a prompt and a new session stay refused until the page is reloaded. The same happens to a page that was busy when
  the pod was replaced.
- A page whose stored session is gone attaches to it again and again, until a prompt is sent or a new session asked for
  (`AttachRefused`, `Reattach`); the comment at `App.svelte:101-103` plans a fresh session.
- An exception out of the pump leaves the process running (`PumpFails`), beside the session's next turn.
- A Stop whose process took long to die may cancel the turn after the one it was asked to stop (`StopResumes`).

One more, about the fixer: with a red verdict and a runner that cannot be asked for a moment, the
table answers fix-forward, beside a first turn that may be live. `execute_client.py:48-51` says that such a state
waits; a test of the state machine asserts the fix-forward. In `FixerLoop` an unreachable runner is a fault, which
`Orderly` excludes; `UnknownTurnWaits` says how far the table itself waits.

## 6. Modelling decisions

- *JobRunner.* Each identity of a call is used once. `rm` of a checkout succeeds; the code catches its failure and
  goes on. `RunLog` never raises, as it says. `JOBS_DIR` is on a volume: trees survive a pod replacement. A clone
  that fails may or may not have made its directory. Prompts, argv and output are not modelled.
- *FixerLoop.* Comments are append-only and all are read, so the last footer and the last declared commit are the
  state. Priority is folded into the issue's number. Issues are trusted and not blocked. A failed call and a
  call whose answer is lost are the same step: the effect, or not, and then `TickFails` or `ReceiverFails`.
  A failing notification, checklist edit or third attempt at a footer is a `TickFails` too. Whether an ended job
  reads as idle or error is chosen when it is read, because nothing acts on it before. A verdict is read
  at once with the decision made on it, and the verdict on a commit, once given, stays; re-runs are in `CiVerdict`. Of
  what `JobService` allows, the loops take these steps: an accepted job's agent starts at once, records are forgotten one
  by one, as a mishap and so within the bound (in `TvLoop` by a new pod only), and each verdict is "ended". The record's
  own `commit` field only repeats the marker. The `paused` set is constant.
- *Break-glass.* `_started` is not modelled: it is set when the process was spawned, so a turn cut short at once makes the next
  one resume a conversation `claude` may not know; that turn then ends in an error, which `Reaps` has. Events of an agent are one
  kind. A full stderr pipe shows as a turn that times out. A page begins attached
  to a stored session; the first visit and a reload are not steps of the model: `Reconnect` runs the same `bootstrap`.
  `newSession` has no guard on the link of its own; its button is off while the link is connecting (App.svelte:252), and Send while
  it is in error (Chat.svelte:69). Errors of the edge leave a timer each; in front of a session that is gone, where errors never end,
  any number of timers is one.
- *Clocks.* A run's age is told apart once it has a commit, and a commit's while it is awaited: before and after, the
  table does not look.
- *TvLoop.* The same simplifications as in `FixerLoop`. The bots' deliveries may come at any time with the labels of that moment;
  a person's carry those after his act. Deliveries are a set: a second identical one is the same. Priority labels and other repositories
  are constant here and free in `DispatchPolicy`.
- *CiVerdict.* A status or conclusion is one of each stage in the run (`Statuses`, `Conclusions`) and any in the proofs. Check runs are
  listed in a fixed order on one page; a re-run check is not modelled. The rollout stage has no implementation and is left out.
- *Intake.* Nothing cancels a waiting job, so the semaphore and its wake-up are one queue. Decoding a report and parsing the
  agent's verdict choose between the outcomes. The backend keeps one job per report and sends again when a poll says it is gone.

## 7. Not modelled

- *Power verbs, notifications, prompts, signatures, configuration, run log*: one call, text or output each; nothing interleaves, and
  the state they change is outside.
- *The T3 client*: the other implementation of the dispatch port, which the fixer does not use; its two calls may half succeed.
- *The opened sessions of `conversational.py`*: what a second `--session-id` of the same name does is decided by the `claude` CLI, of which
  the repository says nothing; any property would rest on a guess. The process and the permit of such a turn are in `JobRunner`.
- *Completions without tools*: the scratch directory and the decoding of images; slot, process and kill are in `JobRunner`.
- *Tracker adapters*: JSON shapes, label ids, paging, the checklist comment and its attempts.
- *Of the frontend*: rendering, the power buttons, the first visit and a reload.

## 8. Plan

Done:

1. `JobRunner`, `AdmissionControl`, `JobService`, `JobRunnerProofs`, and with `AdmissionProofs` both refinements.
2. `RunStateMachine`, `FixerLoop`, `FixerLoopProofs`.
3. `BreakglassSession`, `BreakglassPage`, `BreakglassProofs`.
4. `Intake`, `IntakeProofs`.
5. `Profiles`, `Gates`, `DispatchPolicy`, `GatesProofs`, `TvLoop`, `TvLoopProofs`.
6. `CiVerdict`, `CiProofs`.

Left: `CiVerdict` composed with `FixerLoop`, in place of its one-step verdict, once an instance is small enough.
