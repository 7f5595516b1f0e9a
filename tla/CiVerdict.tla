----------------------------- MODULE CiVerdict -----------------------------
(***************************************************************************)
(* The verdict the watcher gets on a pushed commit: the build checks       *)
(* (GitHubChecks), then the pipeline that applies it (WoodpeckerPipelines),*)
(* folded by CIWatcher.status.  Every HTTP call is a step, and pipelines   *)
(* and checks go on between two of them: the list of pipelines is newest   *)
(* first, so what a page holds shifts while the search walks back.         *)
(*                                                                         *)
(* Commits are told apart by their first seven digits, as the search does. *)
(***************************************************************************)
EXTENDS Naturals, Sequences, FiniteSets

CONSTANTS
  Commit,         \* the commit asked about
  Others,         \* the other commits of the repository
  PerPage,        \* PIPELINES_PER_PAGE
  Window,         \* PerPage * MAX_PIPELINE_PAGES
  BuildObserved,  \* FIXER_GITHUB_TOKEN is set
  Armed,          \* FIXER_CI_FORCE_RED_ONCE is set
  Statuses,       \* the statuses pipelines may move to
  Conclusions,    \* the conclusions check runs may end with
  MaxPipelines,   \* bound: pipelines
  MaxOwn,         \* bound: pipelines of the commit
  MaxChecks,      \* bound: check runs of the commit
  MaxMishaps      \* bound: failed reads, writes and ticks

ASSUME CiAssumption ==
  /\ PerPage \in Nat \ {0} /\ Window \in Nat \ {0}
  /\ BuildObserved \in BOOLEAN /\ Armed \in BOOLEAN
  /\ {"running", "pending"} \cap Conclusions = {} /\ "pending" \in Statuses

VARIABLES
  pipelines,  \* all pipelines, oldest first
  checks,     \* the check runs of the commit, in the order they are listed
  marked,     \* the once-marker names the commit
  probe,      \* the question under way
  forced,     \* history: how often the commit was reported red by force, up to 2
  mishaps

vars == <<pipelines, checks, marked, probe, forced, mishaps>>

Stages == {"none", "pending", "success", "failure"}

(* _WOODPECKER_STATUS: what is not in the table is pending. *)
StageOf(status) ==
  IF status \in {"success", "skipped"} THEN "success"
  ELSE IF status \in {"failure", "error", "killed", "declined"} THEN "failure"
  ELSE "pending"

(* _GITHUB_CONCLUSION of a completed check run, and one that is not. *)
StageOfCheck(conclusion) ==
  IF conclusion \in {"success", "neutral", "skipped"} THEN "success"
  ELSE IF conclusion \in {"failure", "timed_out", "cancelled", "action_required"} THEN "failure"
  ELSE "pending"

(* Mutant: a check that is not completed does not hold the stage back. *)
BuildStageEager(runs) ==
  IF runs = <<>> THEN "none"
  ELSE IF \E n \in DOMAIN runs : StageOfCheck(runs[n]) = "failure" THEN "failure" ELSE "success"

(* run_conclusion: a run that is not completed ends the fold, and so does a *)
(* failure before it; a conclusion nobody knows only holds it back.         *)
BuildStage(runs) ==
  LET ends == {n \in DOMAIN runs : runs[n] = "running" \/ StageOfCheck(runs[n]) = "failure"}
      first == CHOOSE n \in ends : \A m \in ends : n <= m
  IN IF runs = <<>> THEN "none"
     ELSE IF ends # {} THEN StageOfCheck(runs[first])
     ELSE IF \E n \in DOMAIN runs : StageOfCheck(runs[n]) = "pending" THEN "pending"
     ELSE "success"

(* _stage_verdict *)
VerdictOf(stage) ==
  IF stage = "failure" THEN "red" ELSE IF stage = "success" THEN "green" ELSE "pending"

(* skip: pipelines passed over by the pages read.  history: start and seen  *)
(* are the numbers of pipelines and of check runs when each was first read, *)
(* whole: every page was read, drill: the red is forced.                    *)
Asleep == [pc |-> "idle", skip |-> 0, verdict |-> "pending", start |-> 0, seen |-> 0, whole |-> FALSE,
           drill |-> FALSE]
Answer(verdict) == probe' = [probe EXCEPT !.pc = "answered", !.verdict = verdict]

Init ==
  /\ pipelines = <<>> /\ checks = <<>> /\ marked = FALSE
  /\ probe = Asleep /\ forced = 0 /\ mishaps = 0

May == mishaps < MaxMishaps /\ mishaps' = mishaps + 1

-----------------------------------------------------------------------------
(* CIWatcher.status, once a tick. *)

Ask ==
  /\ probe.pc = "idle"
  /\ probe' = [Asleep EXCEPT !.pc = "build"]
  /\ UNCHANGED <<pipelines, checks, marked, forced, mishaps>>

ReadBuild ==
  /\ probe.pc = "build"
  /\ LET stage == IF BuildObserved THEN BuildStage(checks) ELSE "success"
     IN probe' = IF stage = "success"
                 THEN [probe EXCEPT !.pc = "deploy", !.seen = Len(checks)]
                 ELSE [probe EXCEPT !.pc = "answered", !.verdict = VerdictOf(stage), !.seen = Len(checks)]
  /\ UNCHANGED <<pipelines, checks, marked, forced, mishaps>>

(* Mutant: the red is reported and not remembered. *)
ForceRedUnmarked ==
  /\ probe.pc = "deploy" /\ Armed /\ ~marked
  /\ probe' = [probe EXCEPT !.pc = "forced"]
  /\ UNCHANGED <<pipelines, checks, marked, forced, mishaps>>

(* _force_red_once: the marker is on the volume before the red is reported. *)
ForceRed ==
  /\ probe.pc = "deploy" /\ Armed /\ ~marked
  /\ marked' = TRUE
  /\ probe' = [probe EXCEPT !.pc = "forced"]
  /\ UNCHANGED <<pipelines, checks, forced, mishaps>>

AnswerForced ==
  /\ probe.pc = "forced"
  /\ forced' = IF forced = 2 THEN 2 ELSE forced + 1
  /\ probe' = [probe EXCEPT !.pc = "answered", !.verdict = "red", !.drill = TRUE]
  /\ UNCHANGED <<pipelines, checks, marked, mishaps>>

Searching == probe' = [probe EXCEPT !.pc = "search", !.start = Len(pipelines)]

BeginSearch ==
  /\ probe.pc = "deploy" /\ (Armed => marked)
  /\ Searching
  /\ UNCHANGED <<pipelines, checks, marked, forced, mishaps>>

(* Armed, but the marker cannot be written: not forced. *)
MarkerUnwritable ==
  /\ probe.pc = "deploy" /\ Armed /\ ~marked /\ May
  /\ Searching
  /\ UNCHANGED <<pipelines, checks, marked, forced>>

(* The pipelines on the next page, by their place in the whole list. *)
Page == {n \in DOMAIN pipelines : Len(pipelines) - n \in probe.skip .. (probe.skip + PerPage - 1)}
Matches == {n \in Page : pipelines[n].commit = Commit}

(* Mutant: the oldest match on the page speaks. *)
Oldest == CHOOSE n \in Matches : \A m \in Matches : n <= m

Newest == CHOOSE n \in Matches : \A m \in Matches : m <= n

(* Mutant: the first page is all that is looked at. *)
ReadPageFirst ==
  /\ probe.pc = "search"
  /\ IF Matches # {} THEN Answer(VerdictOf(StageOf(pipelines[Newest].status)))
     ELSE probe' = [probe EXCEPT !.pc = "answered", !.whole = TRUE]
  /\ UNCHANGED <<pipelines, checks, marked, forced, mishaps>>

(* deploy_conclusion, one page: the first match speaks; a short page is the *)
(* last there is.                                                           *)
ReadPage ==
  /\ probe.pc = "search"
  /\ IF Matches # {} THEN Answer(VerdictOf(StageOf(pipelines[Newest].status)))
     ELSE IF Len(pipelines) < probe.skip + PerPage \/ probe.skip + PerPage >= Window
     THEN probe' = [probe EXCEPT !.pc = "answered", !.whole = TRUE]
     ELSE probe' = [probe EXCEPT !.skip = @ + PerPage]
  /\ UNCHANGED <<pipelines, checks, marked, forced, mishaps>>

(* A call whose answer cannot be read says none. *)
CallFails ==
  /\ probe.pc = "search" \/ (probe.pc = "build" /\ BuildObserved)
  /\ May /\ Answer("pending")
  /\ UNCHANGED <<pipelines, checks, marked, forced>>

(* The tick acts on the verdict, and asks again next time. *)
TickActs ==
  /\ probe.pc = "answered"
  /\ probe' = Asleep
  /\ UNCHANGED <<pipelines, checks, marked, forced, mishaps>>

(* The tick's pod dies, or an error nothing catches ends it. *)
TickDies ==
  /\ probe.pc # "idle" /\ May
  /\ probe' = Asleep
  /\ UNCHANGED <<pipelines, checks, marked, forced>>

-----------------------------------------------------------------------------
(* Woodpecker and GitHub. *)

Own == {n \in DOMAIN pipelines : pipelines[n].commit = Commit}

(* A push, or a manual re-run. *)
PipelineStarts ==
  /\ Len(pipelines) < MaxPipelines
  /\ \E c \in Others \cup IF Cardinality(Own) < MaxOwn THEN {Commit} ELSE {} :
       pipelines' = Append(pipelines, [commit |-> c, status |-> "pending"])
  /\ UNCHANGED <<checks, marked, probe, forced, mishaps>>

(* Only the commit's own pipelines are ever looked into. *)
PipelineMoves ==
  /\ \E n \in Own, status \in Statuses :
       /\ StageOf(pipelines[n].status) = "pending" /\ status # pipelines[n].status
       /\ pipelines' = [pipelines EXCEPT ![n].status = status]
  /\ UNCHANGED <<checks, marked, probe, forced, mishaps>>

CheckStarts ==
  /\ Len(checks) < MaxChecks
  /\ checks' = Append(checks, "running")
  /\ UNCHANGED <<pipelines, marked, probe, forced, mishaps>>

CheckEnds ==
  /\ \E n \in DOMAIN checks, conclusion \in Conclusions :
       checks[n] = "running" /\ checks' = [checks EXCEPT ![n] = conclusion]
  /\ UNCHANGED <<pipelines, marked, probe, forced, mishaps>>

-----------------------------------------------------------------------------
Probe ==
  Ask \/ ReadBuild \/ ForceRed \/ AnswerForced \/ BeginSearch \/ ReadPage \/ TickActs

Environment ==
  \/ MarkerUnwritable \/ CallFails \/ TickDies
  \/ PipelineStarts \/ PipelineMoves \/ CheckStarts \/ CheckEnds

Next == Probe \/ Environment

Spec == Init /\ [][Next]_vars

(* Ticks keep coming and calls return. *)
FairSpec == Spec /\ WF_vars(Probe)

-----------------------------------------------------------------------------
(* Properties. *)

Pipelines == [commit : Others \cup {Commit}, status : Statuses]
Phases == {"idle", "build", "deploy", "forced", "search", "answered"}

TypeOK ==
  /\ pipelines \in Seq(Pipelines) /\ checks \in Seq(Conclusions \cup {"running"})
  /\ marked \in BOOLEAN /\ forced \in 0..2 /\ mishaps \in Nat
  /\ probe \in [pc : Phases, skip : Nat, verdict : {"pending", "green", "red"},
                start : Nat, seen : Nat, whole : BOOLEAN, drill : BOOLEAN]

(* A pipeline of the commit that none of it followed when the search began. *)
NewestAtStart(n) ==
  /\ n \in DOMAIN pipelines /\ pipelines[n].commit = Commit
  /\ \A m \in DOMAIN pipelines : m > n /\ m <= probe.start => pipelines[m].commit # Commit

(* A green verdict closes the issue: every check listed when the build was  *)
(* read had passed, and so has the newest pipeline of the commit as of the  *)
(* start of the search, or a newer one, however the pages shift.            *)
GreenEarned ==
  probe.pc = "answered" /\ probe.verdict = "green" =>
    /\ BuildObserved => \A k \in 1..probe.seen : StageOfCheck(checks[k]) = "success"
    /\ \E n \in DOMAIN pipelines : NewestAtStart(n) /\ StageOf(pipelines[n].status) = "success"

(* A red verdict starts another run: by force, for a failed check, or for   *)
(* the failed newest pipeline, never for one that was already superseded    *)
(* when the search began.                                                   *)
RedEarned ==
  probe.pc = "answered" /\ probe.verdict = "red" =>
    \/ probe.drill
    \/ BuildObserved /\ \E k \in 1..probe.seen : StageOfCheck(checks[k]) = "failure"
    \/ \E n \in DOMAIN pipelines : NewestAtStart(n) /\ StageOf(pipelines[n].status) = "failure"

(* A search that read every page and found nothing missed nothing, though   *)
(* pipelines started behind its back: what was there when it began is not   *)
(* the commit's, or has left the window.                                    *)
NothingMissed ==
  probe.pc = "answered" /\ probe.whole =>
    \A n \in DOMAIN pipelines :
      n <= probe.start /\ Len(pipelines) - n < Window => pipelines[n].commit # Commit

(* "the FIRST verdict asked for any given commit comes back RED" and no     *)
(* other (ci.py:41-43), though ticks die between the marker and the report. *)
ForcedOnce == forced <= 1

(* The commit has built and its newest pipeline, in the window, succeeded.  *)
Landed ==
  /\ BuildObserved => BuildStage(checks) = "success"
  /\ \E n \in DOMAIN pipelines :
       /\ pipelines[n].commit = Commit /\ StageOf(pipelines[n].status) = "success"
       /\ \A m \in DOMAIN pipelines : m > n => pipelines[m].commit # Commit
       /\ Len(pipelines) - n < Window

(* A commit that landed is told so, whatever failed on the way and whether  *)
(* or not the drill turned it red first.                                    *)
GreenComes == Landed ~> (probe.pc = "answered" /\ probe.verdict = "green") \/ ~Landed
=============================================================================
