------------------------- MODULE BreakglassSession -------------------------
(***************************************************************************)
(* The break-glass sessions of app/breakglass/session.py: one asyncio      *)
(* process that runs one agent turn per session as a task of its own,      *)
(* keeps every event in the session's log, and lets clients attach: they   *)
(* get the log replayed from where they left off and then tail it live.    *)
(* A step is what a coroutine does between two awaits.  BreakglassPage     *)
(* adds the page that uses it.                                             *)
(***************************************************************************)
EXTENDS Naturals, Sequences, FiniteSets

CONSTANTS
  Clients,      \* attached pages, one stream each
  Stops,        \* cancel requests that may be under way at the same time
  MaxSessions,  \* bound: sessions that may be created
  MaxTurns,     \* bound: turns that may be started
  MaxOutput     \* bound: events an agent may emit in one turn

Sessions == 1..MaxSessions
Turns == 1..MaxTurns
None == 0

ASSUME SessionAssumption ==
  /\ IsFiniteSet(Clients) /\ IsFiniteSet(Stops)
  /\ MaxSessions \in Nat \ {0} /\ MaxTurns \in Nat /\ MaxOutput \in Nat

VARIABLES
  alive,   \* the sessions the manager holds
  made,    \* how many were ever created
  log,     \* the events of each session; an event's id is its place
  cur,     \* the last turn of each session
  home,    \* the session of each turn
  turn,    \* where each turn's task is suspended
  cut,     \* turns whose task was cancelled and has not run since
  proc,    \* the process of each turn
  left,    \* history: turns that ended by an error while reading their process
  stream,  \* the attach stream of each client
  stop     \* where each cancel request is suspended

tasks == <<turn, cut, proc, left>>
server == <<alive, made, log, cur, home, tasks, stream, stop>>

(* created: the task has not run; spawning: in create_subprocess_exec;      *)
(* pumping: reading the output; reaping: waiting for the exit; killing and  *)
(* stopping: in _kill_proc, after the timeout or a cancellation.            *)
ActivePhases == {"created", "spawning", "pumping", "reaping", "killing", "stopping"}
HasProc == ActivePhases \ {"created", "spawning"}
Kinds == {"user", "out", "error", "cancelled", "turn_end"}
Events == [kind : Kinds, turn : Turns]

(* rest is what is left of the replay, q the queue of live events, by id.   *)
Detached == [sess |-> None, rest |-> <<>>, q |-> <<>>, seen |-> 0]
NoStop == [pc |-> "idle", first |-> None, turn |-> None]

ServerInit ==
  /\ alive = {1} /\ made = 1
  /\ log = [s \in Sessions |-> <<>>] /\ cur = [s \in Sessions |-> None]
  /\ home = [n \in Turns |-> None]
  /\ turn = [n \in Turns |-> "none"] /\ cut = {}
  /\ proc = [n \in Turns |-> "none"] /\ left = {}
  /\ stream = [c \in Clients |-> Detached] /\ stop = [r \in Stops |-> NoStop]

(* turn_active *)
TurnActive(s) == cur[s] # None /\ turn[cur[s]] \in ActivePhases

(* The process of turn n has been started and has not exited. *)
Running(n) == proc[n] \in {"alive", "dying"}

(* add_event, for several kinds in a row: into the log and every queue. *)
AddEvents(n, s, kinds) ==
  LET size == Len(log[s])
      ids == [i \in 1..Len(kinds) |-> size + i]
  IN /\ log' = [log EXCEPT ![s] =
                  @ \o [i \in 1..Len(kinds) |-> [kind |-> kinds[i], turn |-> n]]]
     /\ stream' = [c \in Clients |->
                     IF stream[c].sess = s THEN [stream[c] EXCEPT !.q = @ \o ids] ELSE stream[c]]

-----------------------------------------------------------------------------
(* One turn: _run_turn. *)

(* start_turn, where no turn is active. *)
StartTurn(s) ==
  \E n \in Turns :
    /\ turn[n] = "none" /\ \A k \in Turns : turn[k] = "none" => n <= k
    /\ turn' = [turn EXCEPT ![n] = "created"]
    /\ home' = [home EXCEPT ![n] = s]
    /\ cur' = [cur EXCEPT ![s] = n]
    /\ AddEvents(n, s, <<"user">>)
    /\ UNCHANGED <<alive, made, cut, proc, left, stop>>

(* A step of turn n's task, which was not cancelled, to phase p. *)
Moves(n, phase, p) ==
  /\ turn[n] = phase /\ n \notin cut
  /\ turn' = [turn EXCEPT ![n] = p]

Ends(n, kinds) == AddEvents(n, home[n], Append(kinds, "turn_end"))

Begins(n) ==
  /\ Moves(n, "created", "spawning")
  /\ UNCHANGED <<alive, made, log, cur, home, cut, proc, left, stream, stop>>

Spawns(n) ==
  /\ Moves(n, "spawning", "pumping")
  /\ proc' = [proc EXCEPT ![n] = "alive"]
  /\ UNCHANGED <<alive, made, log, cur, home, cut, left, stream, stop>>

SpawnFails(n) ==
  /\ Moves(n, "spawning", "over")
  /\ Ends(n, <<"error">>)
  /\ UNCHANGED <<alive, made, cur, home, cut, proc, left, stop>>

(* A line of output becomes an event: session, text, tool or result. *)
Emits(n) ==
  /\ Moves(n, "pumping", "pumping")
  /\ Cardinality({i \in DOMAIN log[home[n]] : log[home[n]][i] = [kind |-> "out", turn |-> n]}) < MaxOutput
  /\ AddEvents(n, home[n], <<"out">>)
  /\ UNCHANGED <<alive, made, cur, home, cut, proc, left, stop>>

(* A line that is too long for the reader, or is no JSON object, raises out *)
(* of the pump: no handler kills the process, and it is forgotten.          *)
PumpFails(n) ==
  /\ Moves(n, "pumping", "over")
  /\ Ends(n, <<>>)
  /\ left' = left \cup {n}
  /\ UNCHANGED <<alive, made, cur, home, cut, proc, stop>>

OutputEnds(n) ==
  /\ Moves(n, "pumping", "reaping")
  /\ UNCHANGED <<alive, made, log, cur, home, cut, proc, left, stream, stop>>

(* The exit code is 0, or an error is added. *)
Reaps(n) ==
  /\ proc[n] = "exited"
  /\ Moves(n, "reaping", "over")
  /\ \E kinds \in {<<>>, <<"error">>} : Ends(n, kinds)
  /\ UNCHANGED <<alive, made, cur, home, cut, proc, left, stop>>

(* Mutant: the timeout is reported and the agent left alone. *)
TimesOutWithoutKill(n) ==
  /\ Moves(n, "pumping", "over")
  /\ Ends(n, <<"error">>)
  /\ UNCHANGED <<alive, made, cur, home, cut, proc, left, stop>>

(* Mutant: the exit is awaited and the process not killed. *)
TimesOutWaiting(n) ==
  /\ Moves(n, "pumping", "killing")
  /\ UNCHANGED <<alive, made, log, cur, home, cut, proc, left, stream, stop>>

(* wait_for cancels the pump: the process is killed and its exit awaited.   *)
TimesOut(n) ==
  /\ Moves(n, "pumping", "killing")
  /\ proc' = IF Running(n) THEN [proc EXCEPT ![n] = "dying"] ELSE proc
  /\ UNCHANGED <<alive, made, log, cur, home, cut, left, stream, stop>>

(* The killed process is gone: the timeout, or the cancellation, is told.   *)
Killed(n) ==
  /\ proc[n] = "exited"
  /\ \/ Moves(n, "killing", "over") /\ Ends(n, <<"error">>)
     \/ Moves(n, "stopping", "over") /\ Ends(n, <<"cancelled">>)
  /\ UNCHANGED <<alive, made, cur, home, cut, proc, left, stop>>

(* Mutant: a turn cancelled while it reads is not reported as ended. *)
CancelledUnreported(n) ==
  /\ n \in cut /\ cut' = cut \ {n}
  /\ turn' = [turn EXCEPT ![n] = "over"]
  /\ UNCHANGED <<alive, made, log, cur, home, proc, left, stream, stop>>

(* CancelledError is raised where the task waits.  Before the try block it  *)
(* ends the task without a word; in the block the process is killed first,  *)
(* if it runs; in a handler only the finally clause is left.                *)
Cancelled(n) ==
  /\ n \in cut /\ cut' = cut \ {n}
  /\ \/ /\ turn[n] \in {"created", "spawning"}
        /\ turn' = [turn EXCEPT ![n] = "over"]
        /\ UNCHANGED <<log, proc, stream>>
     \/ /\ turn[n] \in {"pumping", "reaping"} /\ ~Running(n)
        /\ turn' = [turn EXCEPT ![n] = "over"]
        /\ Ends(n, <<"cancelled">>)
        /\ UNCHANGED proc
     \/ /\ turn[n] \in {"pumping", "reaping"} /\ Running(n)
        /\ turn' = [turn EXCEPT ![n] = "stopping"]
        /\ proc' = [proc EXCEPT ![n] = "dying"]
        /\ UNCHANGED <<log, stream>>
     \/ /\ turn[n] \in {"killing", "stopping"}
        /\ turn' = [turn EXCEPT ![n] = "over"]
        /\ Ends(n, <<>>)
        /\ UNCHANGED proc
  /\ UNCHANGED <<alive, made, cur, home, left, stop>>

(* The process exits, by itself or killed. *)
ProcExits(n) ==
  /\ Running(n)
  /\ proc' = [proc EXCEPT ![n] = "exited"]
  /\ UNCHANGED <<alive, made, log, cur, home, turn, cut, left, stream, stop>>

-----------------------------------------------------------------------------
(* Session.cancel. *)

(* A turn is active.  Its process, where there is one, is killed and its    *)
(* exit awaited; otherwise the task is cancelled at once.                   *)
StopTurn(r, s) ==
  LET n == cur[s]
  IN /\ s \in alive /\ TurnActive(s) /\ stop[r].pc = "idle"
     /\ IF turn[n] \in HasProc /\ Running(n)
          THEN /\ proc' = [proc EXCEPT ![n] = "dying"]
               /\ stop' = [stop EXCEPT ![r] = [pc |-> "killing", first |-> n, turn |-> n]]
               /\ UNCHANGED cut
          ELSE /\ cut' = cut \cup {n}
               /\ stop' = [stop EXCEPT ![r] = [pc |-> "joining", first |-> n, turn |-> n]]
               /\ UNCHANGED proc
     /\ UNCHANGED <<alive, made, log, cur, home, turn, left, stream>>

(* Mutant: the handle of a turn that ended meanwhile is cleared. *)
StopResumesCleared(r) ==
  /\ stop[r].pc = "killing" /\ proc[stop[r].turn] = "exited"
  /\ LET n == cur[home[stop[r].turn]]
         live == turn[n] \in ActivePhases
     IN /\ cut' = IF live THEN cut \cup {n} ELSE cut
        /\ stop' = [stop EXCEPT ![r].pc = "joining", ![r].turn = IF live THEN n ELSE None]
  /\ UNCHANGED <<alive, made, log, cur, home, turn, proc, left, stream>>

(* The process is gone: the session's task is cancelled, which may be a     *)
(* later one by now.                                                        *)
StopResumes(r) ==
  /\ stop[r].pc = "killing" /\ proc[stop[r].turn] = "exited"
  /\ LET n == cur[home[stop[r].turn]]
     IN /\ cut' = IF turn[n] \in ActivePhases THEN cut \cup {n} ELSE cut
        /\ stop' = [stop EXCEPT ![r].pc = "joining", ![r].turn = n]
  /\ UNCHANGED <<alive, made, log, cur, home, turn, proc, left, stream>>

(* Mutant: the cancelled task is not awaited. *)
StopReturnsEarly(r) ==
  /\ stop[r].pc = "joining"
  /\ stop' = [stop EXCEPT ![r] = NoStop]
  /\ UNCHANGED <<alive, made, log, cur, home, tasks, stream>>

StopReturns(r) ==
  /\ stop[r].pc = "joining" /\ turn[stop[r].turn] = "over"
  /\ stop' = [stop EXCEPT ![r] = NoStop]
  /\ UNCHANGED <<alive, made, log, cur, home, tasks, stream>>

-----------------------------------------------------------------------------
(* attach_stream. *)

(* Mutant: the first missed event is taken for seen. *)
AttachStreamSkips(c, s, last) ==
  stream' = [stream EXCEPT ![c] =
    [sess |-> s, rest |-> [i \in 1..(IF last + 1 < Len(log[s]) THEN Len(log[s]) - last - 1 ELSE 0)
                             |-> last + 1 + i],
     q |-> <<>>, seen |-> IF last + 1 < Len(log[s]) THEN Len(log[s]) ELSE last]]

(* Subscribe, and take what the client has missed since event last. *)
AttachStream(c, s, last) ==
  LET size == Len(log[s])
  IN stream' = [stream EXCEPT ![c] =
       [sess |-> s, rest |-> [i \in 1..(IF last < size THEN size - last ELSE 0) |-> last + i],
        q |-> <<>>, seen |-> IF last < size THEN size ELSE last]]

(* The next frame of c's stream is event id: of the replay, then live. *)
Sends(c, id) ==
  \/ /\ stream[c].rest # <<>> /\ id = Head(stream[c].rest)
     /\ stream' = [stream EXCEPT ![c].rest = Tail(@)]
  \/ /\ stream[c].rest = <<>> /\ stream[c].q # <<>> /\ id = Head(stream[c].q)
     /\ id > stream[c].seen
     /\ stream' = [stream EXCEPT ![c].q = Tail(@), ![c].seen = id]

-----------------------------------------------------------------------------
(* Sessions and the pod. *)

(* SessionManager.create *)
CreateSession(s) ==
  /\ made < MaxSessions /\ s = made + 1
  /\ made' = s /\ alive' = alive \cup {s}

(* Nothing is kept on disk: sessions, tasks, processes and streams are gone. *)
PodReplaced ==
  /\ alive' = {}
  /\ log' = [s \in Sessions |-> <<>>] /\ cur' = [s \in Sessions |-> None]
  /\ turn' = [n \in Turns |-> IF turn[n] = "none" THEN "none" ELSE "over"]
  /\ cut' = {}
  /\ proc' = [n \in Turns |-> IF proc[n] = "none" THEN "none" ELSE "exited"]
  /\ stream' = [c \in Clients |-> Detached] /\ stop' = [r \in Stops |-> NoStop]
  /\ UNCHANGED <<made, home, left>>

TurnSteps(n) ==
  \/ Begins(n) \/ Spawns(n) \/ SpawnFails(n) \/ Reaps(n) \/ Killed(n) \/ Cancelled(n)
=============================================================================
