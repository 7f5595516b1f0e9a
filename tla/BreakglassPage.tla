--------------------------- MODULE BreakglassPage ---------------------------
(***************************************************************************)
(* The break-glass page (frontend/src/App.svelte, lib/api.js and           *)
(* lib/transcript.js) on top of BreakglassSession: it attaches to a        *)
(* session, folds the events it receives into a transcript, sends prompts  *)
(* and stops turns.  Requests and their answers are steps of their own and *)
(* may be lost; the browser reconnects the stream by itself.               *)
(***************************************************************************)
EXTENDS BreakglassSession

CONSTANT MaxMishaps  \* bound: lost connections and requests, and new pods

ASSUME PageAssumption == MaxMishaps \in Nat

VARIABLES
  page,    \* what each page keeps
  shown,   \* history: the events of its session that a page has folded, by id
  mishaps

vars == <<server, page, shown, mishaps>>

(* sess: sessionId; last: the EventSource's lastEventId; max and active: the *)
(* transcript's maxId and activeUserSeen; busy: turnActive; post and to: the *)
(* prompt on its way and its session; opening: requests for a new session;  *)
(* saved: the id is in the storage of the page's browser; es: there is an   *)
(* EventSource; timers: re-attaches to sess that are due.  History: stale,  *)
(* the transcript does not begin where its session does; astray, the page   *)
(* is busy with what it sent to, or heard of, a session it has left.        *)
NewPage(s) ==
  [sess |-> s, last |-> 0, max |-> 0, active |-> FALSE, busy |-> FALSE,
   post |-> "none", to |-> None, opening |-> 0, saved |-> TRUE,
   es |-> TRUE, link |-> "connecting", timers |-> 0,
   stale |-> FALSE, astray |-> FALSE]

Init ==
  /\ ServerInit
  /\ page = [c \in Clients |-> NewPage(1)]
  /\ shown = [c \in Clients |-> <<>>]
  /\ mishaps = 0

Mishap == mishaps < MaxMishaps /\ mishaps' = mishaps + 1

-----------------------------------------------------------------------------
(* The stream. *)

(* attach: a new EventSource, which asks for session s from its beginning.  *)
AttachTo(p, s) ==
  [p EXCEPT !.sess = s, !.last = 0, !.es = TRUE, !.link = "connecting",
            !.timers = IF s = p.sess THEN @ ELSE 0]

(* resetTranscript *)
Cleared(p) == [p EXCEPT !.max = 0, !.active = FALSE]

Disconnect(c) == stream' = [stream EXCEPT ![c] = Detached]

(* The EventSource connects, and the page hears of it. *)
Attach(c) ==
  /\ page[c].es /\ stream[c].sess = None /\ page[c].sess \in alive
  /\ AttachStream(c, page[c].sess, page[c].last)
  /\ page' = [page EXCEPT ![c].link = "attached"]
  /\ UNCHANGED <<alive, made, log, cur, home, tasks, stop, shown, mishaps>>

(* A 404 of the server, or an error of the edge in front of it, closes the  *)
(* EventSource for good: a timer will open another one.  Where the session  *)
(* is gone, one timer stands for all.                                       *)
AttachRefused(c) ==
  /\ page[c].es /\ stream[c].sess = None
  /\ IF page[c].sess \in alive THEN Mishap ELSE UNCHANGED mishaps
  /\ page' = [page EXCEPT ![c].es = FALSE, ![c].link = "error",
                ![c].timers = IF page[c].sess \in alive THEN @ + 1 ELSE 1]
  /\ UNCHANGED <<server, shown>>

(* A timer fires: whatever the page does by now, it attaches once more to   *)
(* the session it still shows.                                              *)
Reattach(c) ==
  /\ page[c].timers > 0
  /\ page' = [page EXCEPT ![c] =
       [AttachTo(page[c], page[c].sess) EXCEPT !.timers = page[c].timers - 1]]
  /\ Disconnect(c)
  /\ UNCHANGED <<alive, made, log, cur, home, tasks, stop, shown, mishaps>>

(* Mutant: the end of a turn does not change the transcript. *)
FoldForgetsEnd(p, ev) ==
  [p EXCEPT !.active = @ \/ ev.kind = "user", !.busy = p.active \/ ev.kind = "user"]

(* reduceEvent on an event that was admitted, and onEvent. *)
Fold(p, ev) ==
  LET active == CASE ev.kind = "user" -> TRUE
                  [] ev.kind = "turn_end" -> FALSE
                  [] OTHER -> p.active
  IN [p EXCEPT !.active = active, !.busy = active]

(* A frame arrives; an id the transcript has passed is dropped. *)
Receive(c) ==
  \E id \in DOMAIN log[page[c].sess] :
    /\ Sends(c, id)
    /\ IF id > page[c].max
         THEN /\ page' = [page EXCEPT ![c] =
                            [Fold(@, log[page[c].sess][id]) EXCEPT
                               !.last = id, !.max = id, !.astray = FALSE]]
              /\ shown' = [shown EXCEPT ![c] = Append(@, id)]
         ELSE page' = [page EXCEPT ![c].last = id] /\ UNCHANGED shown
    /\ UNCHANGED <<alive, made, log, cur, home, tasks, stop, mishaps>>

(* The connection is lost, and the browser makes another one. *)
Drop(c) ==
  /\ Mishap /\ stream[c].sess # None
  /\ Disconnect(c)
  /\ page' = [page EXCEPT ![c].link = "connecting"]
  /\ UNCHANGED <<alive, made, log, cur, home, tasks, stop, shown>>

-----------------------------------------------------------------------------
(* Prompts. *)

(* submitPrompt, optimistically busy; Send is off when the link is down.    *)
Submit(c) ==
  /\ ~page[c].busy /\ page[c].post = "none" /\ page[c].link # "error"
  /\ page' = [page EXCEPT ![c].busy = TRUE, ![c].post = "sent", ![c].to = page[c].sess]
  /\ UNCHANGED <<server, shown, mishaps>>

(* The prompt handler: 404, 409, or a turn.  The answer to a prompt that is *)
(* sent again is not looked at.                                             *)
Answer(c) ==
  LET s == page[c].to
      Say(word) == page' = [page EXCEPT ![c].post = IF @ = "resent" THEN "started" ELSE word]
  IN /\ page[c].post \in {"sent", "resent"}
     /\ \/ s \notin alive /\ Say("gone") /\ UNCHANGED server
        \/ s \in alive /\ TurnActive(s) /\ Say("busy") /\ UNCHANGED server
        \/ s \in alive /\ ~TurnActive(s) /\ Say("started") /\ StartTurn(s)
     /\ UNCHANGED <<shown, mishaps>>

(* The answer is heard; where the session is gone, a new one is asked for.  *)
Hear(c) ==
  /\ \/ /\ page[c].post \in {"started", "busy"}
        /\ page' = [page EXCEPT ![c].post = "none", ![c].to = None]
     \/ /\ page[c].post = "gone"
        /\ page' = [page EXCEPT ![c].post = "reopening", ![c].saved = FALSE,
                      ![c].link = "connecting"]
  /\ UNCHANGED <<server, shown, mishaps>>

(* createFresh: session s is there and attached to, in place of the one the *)
(* page showed; the transcript is not touched.                              *)
Fresh(c, s) == [AttachTo(page[c], s) EXCEPT !.saved = TRUE, !.stale = page[c].max # 0]

(* The prompt is sent again, to the new session. *)
Reopen(c) ==
  /\ page[c].post = "reopening"
  /\ \E s \in Sessions :
       /\ CreateSession(s)
       /\ page' = [page EXCEPT ![c] = [Fresh(c, s) EXCEPT !.post = "resent", !.to = s, !.astray = FALSE]]
  /\ Disconnect(c)
  /\ shown' = [shown EXCEPT ![c] = <<>>]
  /\ UNCHANGED <<log, cur, home, tasks, stop, mishaps>>

(* No new session can be opened: the prompt goes to the one the page shows. *)
ReopenFails(c) ==
  /\ page[c].post = "reopening"
  /\ page' = [page EXCEPT ![c].post = "resent", ![c].to = page[c].sess,
                ![c].link = "error", ![c].astray = FALSE]
  /\ UNCHANGED <<server, shown, mishaps>>

(* A prompt or its answer is lost. *)
PromptLost(c) ==
  /\ Mishap /\ page[c].post \in {"sent", "resent", "started", "busy", "gone"}
  /\ page' = [page EXCEPT ![c].post = "none", ![c].to = None,
                ![c].busy = page[c].active, ![c].astray = FALSE]
  /\ UNCHANGED <<server, shown>>

(* The Stop button, which may be pressed again while it works. *)
Stop(c) ==
  /\ page[c].busy
  /\ \E r \in Stops : StopTurn(r, page[c].sess)
  /\ UNCHANGED <<page, shown, mishaps>>

-----------------------------------------------------------------------------
(* Sessions. *)

(* A request for a new session goes out; one is enough for each that may    *)
(* still be created.                                                        *)
Asks(p) == [p EXCEPT !.opening = @ + 1, !.link = "connecting"]
MayAsk(c) == made + page[c].opening < MaxSessions

(* newSession, until it awaits the answer: the page still shows, and would  *)
(* prompt, the session it had.                                              *)
StartOver(c) ==
  /\ ~page[c].busy /\ page[c].post = "none" /\ page[c].link # "connecting" /\ MayAsk(c)
  /\ page' = [page EXCEPT ![c] =
       [Asks(Cleared(page[c])) EXCEPT !.es = FALSE, !.saved = FALSE, !.last = 0, !.stale = FALSE]]
  /\ Disconnect(c)
  /\ shown' = [shown EXCEPT ![c] = <<>>]
  /\ UNCHANGED <<alive, made, log, cur, home, tasks, stop, mishaps>>

(* The answer: whatever the page did meanwhile, it attaches to the new      *)
(* session.  A prompt to the old one leaves it busy.                        *)
Opened(c) ==
  /\ page[c].opening > 0
  /\ \E s \in Sessions :
       /\ CreateSession(s)
       /\ page' = [page EXCEPT ![c] =
            [Fresh(c, s) EXCEPT !.opening = page[c].opening - 1, !.astray = page[c].busy]]
  /\ Disconnect(c)
  /\ shown' = [shown EXCEPT ![c] = <<>>]
  /\ UNCHANGED <<log, cur, home, tasks, stop, mishaps>>

OpenFails(c) ==
  /\ Mishap /\ page[c].opening > 0
  /\ page' = [page EXCEPT ![c].opening = @ - 1, ![c].link = "error"]
  /\ UNCHANGED <<server, shown>>

(* The Reconnect button: bootstrap, which does not touch turnActive.  What  *)
(* a transcript from elsewhere made of it stays.                            *)
Reconnect(c) ==
  LET p == [Cleared(page[c]) EXCEPT !.astray = @ \/ (page[c].stale /\ page[c].active)]
  IN /\ page[c].link = "error"
     /\ \/ /\ page[c].saved
           /\ page' = [page EXCEPT ![c] = [AttachTo(p, p.sess) EXCEPT !.stale = FALSE]]
           /\ Disconnect(c)
        \/ /\ ~page[c].saved /\ MayAsk(c)
           /\ page' = [page EXCEPT ![c] = [Asks(p) EXCEPT !.stale = p.es]]
           /\ UNCHANGED stream
     /\ shown' = [shown EXCEPT ![c] = <<>>]
     /\ UNCHANGED <<alive, made, log, cur, home, tasks, stop, mishaps>>

Restart ==
  /\ Mishap /\ PodReplaced
  /\ UNCHANGED <<page, shown>>

Task(n) ==
  /\ TurnSteps(n) \/ OutputEnds(n) \/ TimesOut(n) \/ ProcExits(n) \/ Emits(n) \/ PumpFails(n)
  /\ UNCHANGED <<page, shown, mishaps>>

Request(c) ==
  \/ Attach(c) \/ AttachRefused(c) \/ Reattach(c) \/ Receive(c) \/ Drop(c)
  \/ Submit(c) \/ Answer(c) \/ Hear(c) \/ Reopen(c) \/ ReopenFails(c) \/ PromptLost(c) \/ Stop(c)
  \/ StartOver(c) \/ Opened(c) \/ OpenFails(c) \/ Reconnect(c)

Stopping(r) == (StopResumes(r) \/ StopReturns(r)) /\ UNCHANGED <<page, shown, mishaps>>

Next ==
  \/ (\E n \in Turns : Task(n)) \/ (\E r \in Stops : Stopping(r))
  \/ (\E c \in Clients : Request(c)) \/ Restart

Spec == Init /\ [][Next]_vars

(* The event loop runs every ready task, the timeout of the pump fires, and *)
(* a process exits once it is killed or has closed its output: nothing      *)
(* bounds the wait for that.                                                *)
Exits(n) == (proc[n] = "dying" \/ turn[n] = "reaping") /\ ProcExits(n)
FairSpec ==
  /\ Spec
  /\ \A n \in Turns :
       /\ WF_vars(TurnSteps(n) /\ UNCHANGED <<page, shown, mishaps>>)
       /\ WF_vars(TimesOut(n) /\ UNCHANGED <<page, shown, mishaps>>)
       /\ WF_vars(Exits(n) /\ UNCHANGED <<page, shown, mishaps>>)

-----------------------------------------------------------------------------
(* Properties. *)

TypeOK ==
  /\ alive \subseteq Sessions /\ made \in Nat
  /\ log \in [Sessions -> Seq(Events)] /\ cur \in [Sessions -> Turns \cup {None}]
  /\ home \in [Turns -> Sessions \cup {None}]
  /\ turn \in [Turns -> ActivePhases \cup {"none", "over"}]
  /\ cut \subseteq Turns /\ left \subseteq Turns
  /\ proc \in [Turns -> {"none", "alive", "dying", "exited"}]
  /\ stream \in [Clients -> [sess : Sessions \cup {None}, rest : Seq(Nat), q : Seq(Nat), seen : Nat]]
  /\ stop \in [Stops -> {NoStop} \cup [pc : {"killing", "joining"}, first : Turns, turn : Turns]]
  /\ page \in [Clients ->
       [sess : Sessions, last : Nat, max : Nat, active : BOOLEAN, busy : BOOLEAN,
        post : {"none", "sent", "resent", "started", "busy", "gone", "reopening"},
        to : Sessions \cup {None}, opening : Nat, saved : BOOLEAN, es : BOOLEAN,
        link : {"connecting", "attached", "error"}, timers : Nat,
        stale : BOOLEAN, astray : BOOLEAN]]
  /\ shown \in [Clients -> Seq(Nat)]
  /\ mishaps \in 0..MaxMishaps

(* The page is attached, has got all there is, and waits for no answer. *)
Drained(c) ==
  /\ page[c].sess \in alive /\ stream[c].sess = page[c].sess
  /\ stream[c].rest = <<>> /\ stream[c].q = <<>>

(* However often it reconnects, in the middle of a replay or of a turn, a   *)
(* page shows its session's events in order, none twice and none left out,  *)
(* and all of them once its stream is drained.                              *)
ShownInOrder ==
  \A c \in Clients : ~page[c].stale =>
    /\ \A i \in DOMAIN shown[c] : shown[c][i] = i
    /\ Drained(c) => Len(shown[c]) = Len(log[page[c].sess])

(* No agent works for a session whose turn is over, whatever timeouts and   *)
(* Stop buttons do at the same time: unless reading its output failed.      *)
AgentHasTurn ==
  \A n \in Turns : proc[n] = "alive" /\ n \notin left => turn[n] \in ActivePhases

(* The log of a session is one turn after the other, each closed by one     *)
(* turn_end; only a turn stopped before its agent ran has none.             *)
Reported(n) ==
  \E i \in DOMAIN log[home[n]] : log[home[n]][i] = [kind |-> "turn_end", turn |-> n]
TurnsReported ==
  /\ \A s \in Sessions : \A i, j \in DOMAIN log[s] : i < j =>
       /\ log[s][i].turn <= log[s][j].turn
       /\ log[s][i].kind = "turn_end" => log[s][i].turn < log[s][j].turn
  /\ \A n \in Turns : turn[n] = "over" /\ home[n] \in alive /\ proc[n] # "none" => Reported(n)

(* The Stop button is there when a turn runs, in whichever page it was      *)
(* started, and is there in vain only for a turn that nobody reported, or   *)
(* for a prompt that went to the session the page had before: one sent      *)
(* while newSession waits for a new session.                                *)
BusyTracksTurn ==
  \A c \in Clients : Drained(c) /\ page[c].post = "none" /\ ~page[c].stale =>
    LET s == page[c].sess
    IN /\ TurnActive(s) => page[c].busy
       /\ page[c].busy => \/ TurnActive(s) \/ (cur[s] # None /\ ~Reported(cur[s]))
                         \/ page[c].astray

(* When Stop answers, the turn it was asked to stop is over. *)
StopStops ==
  [][\A r \in Stops : stop[r].pc # "idle" /\ stop'[r].pc = "idle" => turn'[stop[r].first] = "over"]_vars

(* Every turn ends, and with it the 409 for the next prompt. *)
TurnEnds == \A n \in Turns : turn[n] = "created" ~> turn[n] = "over"

(* What App.svelte says of a prompt, the one sent again included: its       *)
(* output arrives via the attach stream.  So a drained page shows it.       *)
OutputShown == \A c \in Clients : Drained(c) => Len(shown[c]) = Len(log[page[c].sess])
=============================================================================
