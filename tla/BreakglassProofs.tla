-------------------------- MODULE BreakglassProofs --------------------------
(***************************************************************************)
(* Safety of break-glass sessions for any number of pages, Stop requests,  *)
(* sessions, turns, events and mishaps: no agent works without its turn, a *)
(* session's log is one closed turn after the other, and a page shows that *)
(* log and offers Stop when it should.                                     *)
(***************************************************************************)
EXTENDS BreakglassPage, TLAPS

-----------------------------------------------------------------------------
(* The inductive invariant. *)

TurnsTyped ==
  /\ made \in Nat /\ alive \subseteq Sessions /\ \A s \in alive : s <= made
  /\ log \in [Sessions -> Seq(Events)] /\ cur \in [Sessions -> Turns \cup {None}]
  /\ home \in [Turns -> Sessions \cup {None}]
  /\ turn \in [Turns -> ActivePhases \cup {"none", "over"}]
  /\ left \subseteq Turns
  /\ proc \in [Turns -> {"none", "alive", "dying", "exited"}]

(* What a turn's phase says of its process. *)
ProcInv ==
  \A n \in Turns :
    /\ turn[n] \in {"none", "created", "spawning"} => proc[n] = "none"
    /\ turn[n] \in {"pumping", "reaping"} => proc[n] # "none"
    /\ turn[n] \in {"killing", "stopping"} => proc[n] \in {"dying", "exited"}
    /\ turn[n] = "over" => proc[n] # "alive" \/ n \in left

(* Turns are numbered as they start, and one that runs is its session's last. *)
NumberInv ==
  /\ \A m, n \in Turns : m < n /\ turn[n] # "none" => turn[m] # "none"
  /\ \A s \in Sessions : cur[s] # None => turn[cur[s]] # "none"

HomeInv ==
  \A n \in Turns :
    /\ turn[n] # "none" => home[n] \in Sessions /\ home[n] <= made
    /\ turn[n] \in ActivePhases => home[n] \in alive /\ cur[home[n]] = n

(* Nothing is logged for a later turn, and no end of a turn that runs. *)
LogInv ==
  \A s \in Sessions : \A i \in DOMAIN log[s] :
    /\ log[s][i].turn <= cur[s]
    /\ log[s][i].kind = "turn_end" => turn[log[s][i].turn] = "over"

(* The two halves of TurnsReported. *)
InOrder ==
  \A s \in Sessions : \A i, j \in DOMAIN log[s] : i < j =>
    /\ log[s][i].turn <= log[s][j].turn
    /\ log[s][i].kind = "turn_end" => log[s][i].turn < log[s][j].turn
EndsReported ==
  \A n \in Turns : turn[n] = "over" /\ home[n] \in alive /\ proc[n] # "none" => Reported(n)

IInv == TurnsTyped /\ ProcInv /\ NumberInv /\ HomeInv /\ LogInv /\ InOrder /\ EndsReported

core == <<alive, made, log, cur, home, turn, proc, left>>

-----------------------------------------------------------------------------
(* What add_event does to a log: the old events stay, the new ones follow. *)
LEMMA AddEventsAppends ==
  ASSUME TurnsTyped, NEW n \in Turns, NEW s \in Sessions, NEW kinds \in Seq(Kinds),
         AddEvents(n, s, kinds)
  PROVE  /\ log' \in [Sessions -> Seq(Events)]
         /\ \A t \in Sessions \ {s} : log'[t] = log[t]
         /\ Len(log'[s]) = Len(log[s]) + Len(kinds)
         /\ \A i \in 1..Len(log[s]) : log'[s][i] = log[s][i]
         /\ \A i \in 1..Len(kinds) :
              log'[s][Len(log[s]) + i] = [kind |-> kinds[i], turn |-> n]
<1> DEFINE new == [i \in 1..Len(kinds) |-> [kind |-> kinds[i], turn |-> n]]
<1>1. new \in Seq(Events) /\ Len(new) = Len(kinds)
  <2>1. \A i \in 1..Len(kinds) : [kind |-> kinds[i], turn |-> n] \in Events
    BY DEF Events
  <2> QED BY <2>1
<1>2. log' = [log EXCEPT ![s] = @ \o new]
  BY DEF AddEvents
<1>3. log[s] \in Seq(Events)
  BY DEF TurnsTyped
<1>4. log'[s] = log[s] \o new
  BY <1>2 DEF TurnsTyped
<1>5. log[s] \o new \in Seq(Events)
  BY <1>1, <1>3
<1>6. log' \in [Sessions -> Seq(Events)]
  BY <1>2, <1>5 DEF TurnsTyped
<1>7. \A t \in Sessions \ {s} : log'[t] = log[t]
  BY <1>2 DEF TurnsTyped
<1>8. \A i \in 1..Len(kinds) : (log[s] \o new)[Len(log[s]) + i] = new[i]
  BY <1>1, <1>3
<1>9. \A i \in 1..Len(log[s]) : (log[s] \o new)[i] = log[s][i]
  BY <1>1, <1>3
<1>10. Len(log[s] \o new) = Len(log[s]) + Len(kinds)
  BY <1>1, <1>3
<1>11. \A i \in 1..Len(kinds) : new[i] = [kind |-> kinds[i], turn |-> n]
  OBVIOUS
<1> HIDE DEF new
<1> QED BY <1>4, <1>6, <1>7, <1>8, <1>9, <1>10, <1>11

(* A turn that is reported stays so when events are added. *)
LEMMA ReportsStay ==
  ASSUME TurnsTyped, NEW n \in Turns, NEW s \in Sessions, NEW kinds \in Seq(Kinds),
         AddEvents(n, s, kinds), NEW m \in Turns, home[m] \in Sessions, home'[m] = home[m],
         Reported(m)
  PROVE  Reported(m)'
<1>1. PICK i \in DOMAIN log[home[m]] : log[home[m]][i] = [kind |-> "turn_end", turn |-> m]
  BY DEF Reported
<1>2. log[home[m]] \in Seq(Events) /\ log'[home[m]] \in Seq(Events)
  BY AddEventsAppends DEF TurnsTyped
<1>3. i \in DOMAIN log'[home[m]] /\ log'[home[m]][i] = log[home[m]][i]
  <2>1. CASE home[m] = s
    <3>1. i \in 1..Len(log[s]) /\ log[s] \in Seq(Events) /\ log'[s] \in Seq(Events)
      BY <1>1, <1>2, <2>1
    <3>2. Len(log'[s]) = Len(log[s]) + Len(kinds) /\ log'[s][i] = log[s][i]
      BY <3>1, AddEventsAppends
    <3>3. i \in 1..Len(log'[s])
      BY <3>1, <3>2
    <3> QED BY <2>1, <3>1, <3>2, <3>3
  <2>2. CASE home[m] # s
    BY <1>1, <2>2, AddEventsAppends
  <2> QED BY <2>1, <2>2
<1> QED BY <1>1, <1>3 DEF Reported

(* Events of a session's last turn, which runs, keep the log in order; if   *)
(* one of them is a turn_end, it is the last and the turn is over.          *)
LEMMA EventsKeepOrder ==
  ASSUME TurnsTyped, TurnsTyped', LogInv, InOrder, NEW n \in Turns, NEW s \in Sessions,
         NEW kinds \in Seq(Kinds), AddEvents(n, s, kinds),
         cur'[s] = n, cur[s] <= n, \A t \in Sessions \ {s} : cur'[t] = cur[t],
         turn[n] # "over",
         \A m \in Turns : turn[m] = "over" => turn'[m] = "over",
         \A i \in 1..Len(kinds) : kinds[i] = "turn_end" => i = Len(kinds) /\ turn'[n] = "over"
  PROVE  LogInv' /\ InOrder'
<1>1. /\ log[s] \in Seq(Events) /\ log'[s] \in Seq(Events)
      /\ cur[s] \in Turns \cup {None}
  BY DEF TurnsTyped
<1>2. \A i \in DOMAIN log'[s] :
        \/ i \in 1..Len(log[s]) /\ i \in DOMAIN log[s] /\ log'[s][i] = log[s][i]
        \/ \E k \in 1..Len(kinds) : i = Len(log[s]) + k /\ log'[s][i] = [kind |-> kinds[k], turn |-> n]
  <2>1. TAKE i \in DOMAIN log'[s]
  <2>2. i \in 1..(Len(log[s]) + Len(kinds))
    BY <1>1, AddEventsAppends
  <2>3. CASE i \in 1..Len(log[s])
    BY <1>1, <2>3, AddEventsAppends
  <2>4. CASE i \notin 1..Len(log[s])
    <3> DEFINE k == i - Len(log[s])
    <3>1. Len(log[s]) \in Nat /\ Len(kinds) \in Nat
      BY <1>1
    <3>2. \A a, b \in Nat : \A x \in 1..(a + b) : x \notin 1..a => x - a \in 1..b /\ x = a + (x - a)
      OBVIOUS
    <3>3. k \in 1..Len(kinds) /\ i = Len(log[s]) + k
      BY <2>2, <2>4, <3>1, <3>2, Zenon
    <3> QED BY <3>3, AddEventsAppends
  <2> QED BY <2>3, <2>4
<1>3. \A i \in DOMAIN log[s] :
        /\ log[s][i].turn \in Turns /\ log[s][i].turn <= n
        /\ log[s][i].kind = "turn_end" => log[s][i].turn < n
  <2>1. TAKE i \in DOMAIN log[s]
  <2>2. log[s][i] \in Events
    BY <1>1
  <2>3. log[s][i].turn \in Turns /\ log[s][i].turn <= cur[s]
    BY <2>2 DEF LogInv, Events
  <2>4. log[s][i].turn <= n
    BY <2>3, <1>1 DEF Turns, None
  <2>5. log[s][i].kind = "turn_end" => log[s][i].turn # n
    BY DEF LogInv
  <2> QED BY <2>3, <2>4, <2>5 DEF Turns
<1>4. LogInv'
  <2>1. SUFFICES ASSUME NEW t \in Sessions, NEW i \in DOMAIN log'[t]
                 PROVE  /\ log'[t][i].turn <= cur'[t]
                        /\ log'[t][i].kind = "turn_end" => turn'[log'[t][i].turn] = "over"
    BY DEF LogInv
  <2>2. CASE t # s
    <3>1. log'[t] = log[t] /\ cur'[t] = cur[t] /\ log[t] \in Seq(Events)
      BY <2>2, AddEventsAppends DEF TurnsTyped
    <3>2. log[t][i] \in Events
      BY <3>1
    <3> QED BY <3>1, <3>2 DEF LogInv, Events
  <2>3. CASE t = s /\ i \in DOMAIN log[s] /\ log'[s][i] = log[s][i]
    BY <2>3, <1>3 DEF LogInv
  <2>4. CASE t = s /\ \E k \in 1..Len(kinds) : log'[s][i] = [kind |-> kinds[k], turn |-> n]
    BY <2>4 DEF Turns
  <2> QED BY <1>2, <2>2, <2>3, <2>4
<1>5. InOrder'
  <2>1. SUFFICES ASSUME NEW t \in Sessions, NEW i \in DOMAIN log'[t], NEW j \in DOMAIN log'[t], i < j
                 PROVE  /\ log'[t][i].turn <= log'[t][j].turn
                        /\ log'[t][i].kind = "turn_end" => log'[t][i].turn < log'[t][j].turn
    BY DEF InOrder
  <2>2. CASE t # s
    BY <2>1, <2>2, AddEventsAppends DEF InOrder
  <2>3. CASE t = s
    <3>1. CASE j \in 1..Len(log[s]) /\ j \in DOMAIN log[s] /\ log'[s][j] = log[s][j]
      <4>1. i \in DOMAIN log[s] /\ log'[s][i] = log[s][i]
        <5>1. i \in 1..Len(log'[s]) /\ Len(log[s]) \in Nat
          BY <1>1, <2>1, <2>3
        <5>2. ~ \E k \in 1..Len(kinds) : i = Len(log[s]) + k
          BY <2>1, <3>1, <5>1
        <5> QED BY <1>2, <2>3, <5>2
      <4> QED BY <2>1, <2>3, <3>1, <4>1 DEF InOrder
    <3>2. ASSUME NEW k \in 1..Len(kinds), j = Len(log[s]) + k,
                 log'[s][j] = [kind |-> kinds[k], turn |-> n]
          PROVE  /\ log'[s][i].turn <= log'[s][j].turn
                 /\ log'[s][i].kind = "turn_end" => log'[s][i].turn < log'[s][j].turn
      <4>1. CASE i \in DOMAIN log[s] /\ log'[s][i] = log[s][i]
        BY <1>3, <3>2, <4>1
      <4>2. ASSUME NEW h \in 1..Len(kinds), i = Len(log[s]) + h,
                   log'[s][i] = [kind |-> kinds[h], turn |-> n]
            PROVE  /\ log'[s][i].turn <= log'[s][j].turn
                   /\ log'[s][i].kind = "turn_end" => log'[s][i].turn < log'[s][j].turn
        <5>1. h < k /\ k <= Len(kinds)
          BY <1>1, <2>1, <3>2, <4>2
        <5>2. kinds[h] # "turn_end"
          BY <5>1
        <5> QED BY <3>2, <4>2, <5>2 DEF Turns
      <4> QED BY <1>2, <2>3, <4>1, <4>2
    <3> QED BY <1>2, <2>3, <3>1, <3>2
  <2> QED BY <2>2, <2>3
<1> QED BY <1>4, <1>5

-----------------------------------------------------------------------------
(* Steps of turns that leave the logs alone. *)

(* A turn moves on, or ends before it had a process; processes change.      *)
LEMMA SilentStepPreserves ==
  ASSUME IInv, UNCHANGED <<alive, made, log, cur, home, left>>,
         turn' \in [Turns -> ActivePhases \cup {"none", "over"}],
         proc' \in [Turns -> {"none", "alive", "dying", "exited"}],
         ProcInv',
         \A m \in Turns : \/ turn'[m] = turn[m]
                          \/ turn[m] \in ActivePhases /\ turn'[m] \in ActivePhases
                          \/ turn[m] \in ActivePhases /\ turn'[m] = "over" /\ proc'[m] = "none",
         \A m \in Turns : proc[m] = "none" /\ turn[m] = "over" => proc'[m] = "none"
  PROVE  IInv'
<1>1. TurnsTyped'
  BY DEF IInv, TurnsTyped
<1>2. \A m \in Turns : turn[m] = "none" <=> turn'[m] = "none"
  BY DEF ActivePhases
<1>3. NumberInv'
  <2>1. \A t \in Sessions : cur[t] # None => cur[t] \in Turns
    BY DEF IInv, TurnsTyped
  <2> QED BY <1>2, <2>1 DEF IInv, NumberInv
<1>4. HomeInv'
  BY <1>2 DEF IInv, HomeInv, ActivePhases
<1>5. LogInv'
  <2>1. \A t \in Sessions : \A i \in DOMAIN log[t] : log[t][i].turn \in Turns
    <3>1. TAKE t \in Sessions
    <3>2. log[t] \in Seq(Events)
      BY DEF IInv, TurnsTyped
    <3>3. TAKE i \in DOMAIN log[t]
    <3>4. log[t][i] \in Events
      BY <3>2
    <3> QED BY <3>4 DEF Events
  <2> QED BY <2>1 DEF IInv, LogInv, ActivePhases
<1>6. InOrder'
  BY DEF IInv, InOrder
<1>7. EndsReported'
  <2>1. SUFFICES ASSUME NEW m \in Turns, turn'[m] = "over", home'[m] \in alive', proc'[m] # "none"
                 PROVE  Reported(m)'
    BY DEF EndsReported
  <2>2. turn[m] = "over"
    BY <2>1 DEF ActivePhases
  <2>3. home[m] \in alive /\ proc[m] # "none"
    BY <2>1, <2>2
  <2>4. Reported(m)
    BY <2>2, <2>3 DEF IInv, EndsReported
  <2> QED BY <2>4 DEF Reported
<1> QED BY <1>1, <1>3, <1>4, <1>5, <1>6, <1>7 DEF IInv

(* Steps of pages and requests that touch no turn. *)
LEMMA StutterPreserves == IInv /\ UNCHANGED core => IInv'
BY DEF core, IInv, TurnsTyped, ProcInv, NumberInv, HomeInv, LogInv, InOrder, EndsReported, Reported

LEMMA BeginsPreserves == ASSUME IInv, NEW n \in Turns, Begins(n) PROVE IInv'
<1> USE DEF Begins, Moves, IInv, TurnsTyped
<1>1. ProcInv'
  BY DEF ProcInv, ActivePhases
<1> QED BY <1>1, SilentStepPreserves DEF ActivePhases

LEMMA SpawnsPreserves == ASSUME IInv, NEW n \in Turns, Spawns(n) PROVE IInv'
<1> USE DEF Spawns, Moves, IInv, TurnsTyped
<1>1. ProcInv'
  BY DEF ProcInv, ActivePhases
<1> QED BY <1>1, SilentStepPreserves DEF ActivePhases

LEMMA OutputEndsPreserves == ASSUME IInv, NEW n \in Turns, OutputEnds(n) PROVE IInv'
<1> USE DEF OutputEnds, Moves, IInv, TurnsTyped
<1>1. ProcInv'
  BY DEF ProcInv, ActivePhases
<1> QED BY <1>1, SilentStepPreserves DEF ActivePhases

(* The killed process of a turn in a handler is no longer alive. *)
LEMMA TimesOutPreserves == ASSUME IInv, NEW n \in Turns, TimesOut(n) PROVE IInv'
<1> USE DEF TimesOut, Moves, IInv, TurnsTyped
<1>1. turn' \in [Turns -> ActivePhases \cup {"none", "over"}]
  BY DEF ActivePhases
<1>2. proc' \in [Turns -> {"none", "alive", "dying", "exited"}]
  OBVIOUS
<1>3. ProcInv'
  <2>1. proc'[n] \in {"dying", "exited"}
    BY DEF Running, ProcInv
  <2> QED BY <2>1 DEF ProcInv, ActivePhases
<1> QED BY <1>1, <1>2, <1>3, SilentStepPreserves DEF ActivePhases

LEMMA ProcExitsPreserves == ASSUME IInv, NEW n \in Turns, ProcExits(n) PROVE IInv'
<1> USE DEF ProcExits, IInv, TurnsTyped
<1>1. ProcInv'
  BY DEF ProcInv, Running
<1> QED BY <1>1, SilentStepPreserves DEF Running

(* Stop kills the process of a turn that has one. *)
LEMMA StopTurnPreserves ==
  ASSUME IInv, NEW r \in Stops, NEW s \in Sessions, StopTurn(r, s)
  PROVE  IInv'
<1> DEFINE n == cur[s]
<1>1. CASE turn[n] \in HasProc /\ Running(n)
  <2>1. n \in Turns
    BY DEF StopTurn, TurnActive, IInv, TurnsTyped
  <2>2. proc' = [proc EXCEPT ![n] = "dying"] /\ UNCHANGED <<alive, made, log, cur, home, turn, left>>
    BY <1>1 DEF StopTurn
  <2>3. ProcInv'
    BY <1>1, <2>1, <2>2 DEF IInv, ProcInv, TurnsTyped, HasProc, ActivePhases
  <2>4. proc[n] # "none"
    BY <1>1 DEF Running
  <2> HIDE DEF n
  <2> QED BY <2>1, <2>2, <2>3, <2>4, SilentStepPreserves DEF IInv, TurnsTyped
<1>2. CASE ~(turn[n] \in HasProc /\ Running(n))
  BY <1>2, StutterPreserves DEF StopTurn, core
<1> QED BY <1>1, <1>2

-----------------------------------------------------------------------------
(* Steps that add to a log. *)

(* A turn that runs is its session's last, in a session that lives. *)
LEMMA RunningTurnIsLast ==
  ASSUME IInv, NEW n \in Turns, turn[n] \in ActivePhases
  PROVE  home[n] \in Sessions /\ home[n] \in alive /\ cur[home[n]] = n
BY DEF IInv, TurnsTyped, HomeInv

(* A turn ends with its turn_end, however it came to its end. *)
LEMMA EndPreserves ==
  ASSUME IInv, NEW n \in Turns, turn[n] \in ActivePhases,
         turn' = [turn EXCEPT ![n] = "over"],
         NEW kinds \in Seq(Kinds \ {"turn_end"}), Ends(n, kinds),
         UNCHANGED <<alive, made, cur, home, proc>>,
         left \subseteq left', left' \subseteq Turns,
         proc[n] = "alive" => n \in left'
  PROVE  IInv'
<1>0. PICK s \in Sessions : s = home[n]
  BY RunningTurnIsLast
<1>1. s \in alive /\ cur[s] = n
  BY <1>0, RunningTurnIsLast
<1>2. PICK all \in Seq(Kinds) :
      /\ all = Append(kinds, "turn_end") /\ Len(all) = Len(kinds) + 1
      /\ \A i \in 1..Len(all) : all[i] = "turn_end" => i = Len(all)
      /\ Len(all) \in 1..Len(all) /\ all[Len(all)] = "turn_end"
  <2> DEFINE all == Append(kinds, "turn_end")
  <2>1. Len(kinds) \in Nat /\ kinds \in Seq(Kinds)
    BY DEF Kinds
  <2>2. \A i \in 1..Len(kinds) : all[i] = kinds[i] /\ kinds[i] # "turn_end"
    <3>1. TAKE i \in 1..Len(kinds)
    <3>2. kinds[i] \in Kinds \ {"turn_end"}
      OBVIOUS
    <3> QED BY <3>2, <2>1
  <2>3. all \in Seq(Kinds) /\ Len(all) = Len(kinds) + 1 /\ all[Len(kinds) + 1] = "turn_end"
    BY <2>1 DEF Kinds
  <2> HIDE DEF all
  <2> QED BY <2>1, <2>2, <2>3
<1>3. AddEvents(n, s, all)
  BY <1>0, <1>2 DEF Ends
<1>4. TurnsTyped /\ LogInv /\ InOrder /\ n \in Turns
  BY DEF IInv
<1>5. /\ log' \in [Sessions -> Seq(Events)]
      /\ Len(log'[s]) = Len(log[s]) + Len(all)
      /\ log'[s][Len(log[s]) + Len(all)] = [kind |-> "turn_end", turn |-> n]
  <2>1. /\ log' \in [Sessions -> Seq(Events)] /\ Len(log'[s]) = Len(log[s]) + Len(all)
        /\ \A i \in 1..Len(all) : log'[s][Len(log[s]) + i] = [kind |-> all[i], turn |-> n]
    BY <1>3, <1>4, AddEventsAppends
  <2> QED BY <1>2, <2>1
<1>6. TurnsTyped'
  BY <1>4, <1>5 DEF TurnsTyped
<1>7. turn[n] # "over" /\ turn[n] # "none" /\ turn'[n] = "over"
      /\ \A m \in Turns \ {n} : turn'[m] = turn[m]
  BY <1>4 DEF ActivePhases, TurnsTyped
<1>8. LogInv' /\ InOrder'
  <2>1. cur'[s] = n /\ cur[s] <= n /\ \A t \in Sessions \ {s} : cur'[t] = cur[t]
    BY <1>1 DEF Turns
  <2> QED BY <1>1, <1>2, <1>3, <1>4, <1>6, <1>7, <2>1, EventsKeepOrder
<1>9. ProcInv'
  BY <1>7 DEF IInv, ProcInv
<1>10. NumberInv'
  <2>1. \A t \in Sessions : cur[t] # None => cur[t] \in Turns
    BY DEF IInv, TurnsTyped
  <2> QED BY <1>7, <2>1 DEF IInv, NumberInv
<1>11. HomeInv'
  BY <1>7 DEF IInv, HomeInv, ActivePhases
<1>12. EndsReported'
  <2>1. SUFFICES ASSUME NEW m \in Turns, turn'[m] = "over", home'[m] \in alive', proc'[m] # "none"
                 PROVE  Reported(m)'
    BY DEF EndsReported
  <2>2. CASE m = n
    <3>1. log'[s] \in Seq(Events) /\ Len(log[s]) \in Nat
      BY <1>1, <1>4, <1>5 DEF TurnsTyped
    <3>2. Len(log'[s]) \in DOMAIN log'[s]
      <4>1. Len(all) \in Nat /\ Len(all) >= 1
        BY <1>2
      <4>2. Len(log'[s]) \in 1..Len(log'[s])
        BY <1>5, <3>1, <4>1
      <4> QED BY <3>1, <4>2
    <3> QED BY <1>0, <1>5, <2>2, <3>2 DEF Reported
  <2>3. CASE m # n
    <3>1. Reported(m) /\ home[m] \in Sessions
      BY <1>4, <1>7, <2>1, <2>3 DEF IInv, EndsReported, TurnsTyped
    <3> QED BY <1>1, <1>2, <1>3, <1>4, <3>1, ReportsStay
  <2> QED BY <2>2, <2>3
<1> QED BY <1>6, <1>8, <1>9, <1>10, <1>11, <1>12 DEF IInv

LEMMA WordsTyped ==
  /\ <<>> \in Seq(Kinds \ {"turn_end"})
  /\ \A k \in Kinds \ {"turn_end"} : <<k>> \in Seq(Kinds \ {"turn_end"})
  /\ \A k \in Kinds : <<k>> \in Seq(Kinds)
OBVIOUS

LEMMA SpawnFailsPreserves == ASSUME IInv, NEW n \in Turns, SpawnFails(n) PROVE IInv'
<1>1. turn[n] \in ActivePhases /\ proc[n] = "none"
  BY DEF SpawnFails, Moves, ActivePhases, IInv, ProcInv
<1>2. <<"error">> \in Seq(Kinds \ {"turn_end"})
  BY WordsTyped DEF Kinds
<1> QED BY <1>1, <1>2, EndPreserves DEF SpawnFails, Moves, IInv, TurnsTyped

LEMMA PumpFailsPreserves == ASSUME IInv, NEW n \in Turns, PumpFails(n) PROVE IInv'
<1>1. turn[n] \in ActivePhases
  BY DEF PumpFails, Moves, ActivePhases
<1> QED BY <1>1, WordsTyped, EndPreserves DEF PumpFails, Moves, IInv, TurnsTyped

LEMMA ReapsPreserves == ASSUME IInv, NEW n \in Turns, Reaps(n) PROVE IInv'
<1>1. turn[n] \in ActivePhases
  BY DEF Reaps, Moves, ActivePhases
<1>2. PICK kinds \in {<<>>, <<"error">>} : Ends(n, kinds)
  BY DEF Reaps
<1>3. kinds \in Seq(Kinds \ {"turn_end"})
  BY WordsTyped DEF Kinds
<1> QED BY <1>1, <1>2, <1>3, EndPreserves DEF Reaps, Moves, IInv, TurnsTyped

LEMMA KilledPreserves == ASSUME IInv, NEW n \in Turns, Killed(n) PROVE IInv'
<1>1. PICK k \in {"error", "cancelled"} : Ends(n, <<k>>)
  BY DEF Killed
<1>2. turn[n] \in ActivePhases /\ turn' = [turn EXCEPT ![n] = "over"]
  BY DEF Killed, Moves, ActivePhases
<1>3. <<k>> \in Seq(Kinds \ {"turn_end"})
  BY WordsTyped DEF Kinds
<1> QED BY <1>1, <1>2, <1>3, EndPreserves DEF Killed, IInv, TurnsTyped

(* The four places where a cancellation finds the task. *)
LEMMA CancelledPreserves == ASSUME IInv, NEW n \in Turns, Cancelled(n) PROVE IInv'
<1>0. UNCHANGED <<alive, made, cur, home, left>> /\ left \subseteq Turns
  BY DEF Cancelled, IInv, TurnsTyped
<1>1. CASE /\ turn[n] \in {"created", "spawning"} /\ turn' = [turn EXCEPT ![n] = "over"]
           /\ UNCHANGED <<log, proc, stream>>
  <2>1. ProcInv'
    BY <1>0, <1>1 DEF IInv, ProcInv, TurnsTyped
  <2> QED BY <1>0, <1>1, <2>1, SilentStepPreserves DEF IInv, TurnsTyped, ActivePhases, ProcInv
<1>2. CASE /\ turn[n] \in {"pumping", "reaping"} /\ ~Running(n)
           /\ turn' = [turn EXCEPT ![n] = "over"] /\ Ends(n, <<"cancelled">>) /\ UNCHANGED proc
  <2>1. <<"cancelled">> \in Seq(Kinds \ {"turn_end"})
    BY WordsTyped DEF Kinds
  <2>2. turn[n] \in ActivePhases /\ proc[n] # "alive"
    BY <1>2 DEF ActivePhases, Running
  <2> QED BY <1>0, <1>2, <2>1, <2>2, EndPreserves
<1>3. CASE /\ turn[n] \in {"pumping", "reaping"} /\ turn' = [turn EXCEPT ![n] = "stopping"]
           /\ proc' = [proc EXCEPT ![n] = "dying"] /\ UNCHANGED <<log, stream>>
  <2>1. ProcInv'
    BY <1>0, <1>3 DEF IInv, ProcInv, TurnsTyped
  <2> QED BY <1>0, <1>3, <2>1, SilentStepPreserves DEF IInv, TurnsTyped, ActivePhases
<1>4. CASE /\ turn[n] \in {"killing", "stopping"} /\ turn' = [turn EXCEPT ![n] = "over"]
           /\ Ends(n, <<>>) /\ UNCHANGED proc
  <2>1. turn[n] \in ActivePhases /\ proc[n] # "alive"
    BY <1>4 DEF ActivePhases, IInv, ProcInv
  <2> QED BY <1>0, <1>4, <2>1, WordsTyped, EndPreserves
<1> QED BY <1>1, <1>2, <1>3, <1>4 DEF Cancelled

(* Output of a turn that runs. *)
LEMMA EmitsPreserves == ASSUME IInv, NEW n \in Turns, Emits(n) PROVE IInv'
<1>1. turn[n] \in ActivePhases /\ turn' = turn /\ UNCHANGED <<alive, made, cur, home, proc, left>>
  BY DEF Emits, Moves, ActivePhases, IInv, TurnsTyped
<1>2. PICK s \in Sessions : s = home[n] /\ s \in alive /\ cur[s] = n
  BY <1>1, RunningTurnIsLast
<1>3. PICK kinds \in Seq(Kinds) : kinds = <<"out">>
  <2>1. <<"out">> \in Seq(Kinds)
    BY WordsTyped DEF Kinds
  <2> QED BY <2>1
<1>4. AddEvents(n, s, kinds) /\ TurnsTyped /\ LogInv /\ InOrder
  BY <1>2, <1>3 DEF Emits, IInv
<1>5. log' \in [Sessions -> Seq(Events)]
  BY <1>4, AddEventsAppends
<1>6. TurnsTyped'
  BY <1>1, <1>4, <1>5 DEF TurnsTyped
<1>7. LogInv' /\ InOrder'
  <2>1. cur'[s] = n /\ cur[s] <= n /\ \A t \in Sessions \ {s} : cur'[t] = cur[t]
    BY <1>1, <1>2 DEF Turns
  <2>2. turn[n] # "over" /\ \A m \in Turns : turn[m] = "over" => turn'[m] = "over"
    BY <1>1 DEF ActivePhases
  <2>3. \A i \in 1..Len(kinds) : kinds[i] # "turn_end"
    BY <1>3
  <2> QED BY <1>4, <1>6, <2>1, <2>2, <2>3, EventsKeepOrder
<1>8. EndsReported'
  <2>1. SUFFICES ASSUME NEW m \in Turns, turn'[m] = "over", home'[m] \in alive', proc'[m] # "none"
                 PROVE  Reported(m)'
    BY DEF EndsReported
  <2>2. Reported(m) /\ home[m] \in Sessions /\ home'[m] = home[m]
    BY <1>1, <1>4, <2>1 DEF IInv, EndsReported, TurnsTyped
  <2> QED BY <1>4, <2>2, ReportsStay
<1> QED BY <1>1, <1>6, <1>7, <1>8 DEF IInv, ProcInv, NumberInv, HomeInv

(* A new turn has a higher number than all before it, and its session has   *)
(* none that runs.                                                          *)
LEMMA StartTurnPreserves ==
  ASSUME IInv, NEW s \in Sessions, s \in alive, ~TurnActive(s), StartTurn(s)
  PROVE  IInv'
<1>1. PICK n \in Turns :
        /\ turn[n] = "none" /\ \A k \in Turns : turn[k] = "none" => n <= k
        /\ turn' = [turn EXCEPT ![n] = "created"] /\ home' = [home EXCEPT ![n] = s]
        /\ cur' = [cur EXCEPT ![s] = n] /\ AddEvents(n, s, <<"user">>)
        /\ UNCHANGED <<alive, made, cut, proc, left, stop>>
  BY DEF StartTurn
<1>2. PICK kinds \in Seq(Kinds) : kinds = <<"user">>
  <2>1. <<"user">> \in Seq(Kinds)
    BY WordsTyped DEF Kinds
  <2> QED BY <2>1
<1>3. AddEvents(n, s, kinds) /\ TurnsTyped /\ LogInv /\ InOrder
  BY <1>1, <1>2 DEF IInv
<1>4. log' \in [Sessions -> Seq(Events)]
  BY <1>3, AddEventsAppends
<1>5. TurnsTyped'
  BY <1>1, <1>3, <1>4 DEF TurnsTyped, ActivePhases
<1>6. cur[s] \in Turns \cup {None} /\ cur[s] < n
  <2>1. cur[s] \in Turns \cup {None}
    BY DEF IInv, TurnsTyped
  <2>2. CASE cur[s] = None
    BY <2>2 DEF None, Turns
  <2>3. CASE cur[s] \in Turns
    <3>1. turn[cur[s]] # "none"
      BY <2>3 DEF IInv, NumberInv, None, Turns
    <3>2. ~(n < cur[s]) /\ cur[s] # n
      BY <1>1, <2>3, <3>1 DEF IInv, NumberInv
    <3> QED BY <2>3, <3>2 DEF Turns
  <2> QED BY <2>1, <2>2, <2>3
<1>7. /\ turn'[n] = "created" /\ home'[n] = s /\ cur'[s] = n
      /\ \A m \in Turns \ {n} : turn'[m] = turn[m] /\ home'[m] = home[m]
      /\ \A t \in Sessions \ {s} : cur'[t] = cur[t]
  BY <1>1, <1>3 DEF TurnsTyped
<1>8. LogInv' /\ InOrder'
  <2>1. cur[s] <= n
    BY <1>6 DEF Turns, None
  <2>2. turn[n] # "over" /\ \A m \in Turns : turn[m] = "over" => turn'[m] = "over"
    BY <1>1, <1>7
  <2>3. \A i \in 1..Len(kinds) : kinds[i] # "turn_end"
    BY <1>2
  <2> QED BY <1>3, <1>5, <1>7, <2>1, <2>2, <2>3, EventsKeepOrder
<1>9. ProcInv'
  BY <1>1, <1>7 DEF IInv, ProcInv
<1>10. NumberInv'
  <2>1. \A m, k \in Turns : m < k /\ turn'[k] # "none" => turn'[m] # "none"
    <3>1. SUFFICES ASSUME NEW m \in Turns, NEW k \in Turns, m < k, turn'[k] # "none", m # n
                   PROVE  turn[m] # "none"
      BY <1>7
    <3>2. CASE k = n
      BY <1>1, <3>1, <3>2 DEF Turns
    <3>3. CASE k # n
      BY <1>7, <3>1, <3>3 DEF IInv, NumberInv
    <3> QED BY <3>2, <3>3
  <2>2. \A t \in Sessions : cur'[t] # None => turn'[cur'[t]] # "none"
    <3>1. SUFFICES ASSUME NEW t \in Sessions, t # s, cur[t] # None
                   PROVE  turn'[cur[t]] # "none"
      BY <1>7
    <3>2. cur[t] \in Turns /\ turn[cur[t]] # "none"
      BY <3>1 DEF IInv, TurnsTyped, NumberInv
    <3> QED BY <1>7, <3>2
  <2> QED BY <2>1, <2>2 DEF NumberInv
<1>11. HomeInv'
  <2>1. SUFFICES ASSUME NEW m \in Turns
                 PROVE  /\ turn'[m] # "none" => home'[m] \in Sessions /\ home'[m] <= made'
                        /\ turn'[m] \in ActivePhases => home'[m] \in alive' /\ cur'[home'[m]] = m
    BY DEF HomeInv
  <2>2. CASE m = n
    BY <1>1, <1>3, <1>7, <2>2 DEF TurnsTyped
  <2>3. CASE m # n
    <3>1. turn[m] \in ActivePhases => home[m] # s
      BY DEF IInv, HomeInv, TurnActive, Turns, None
    <3>2. turn[m] \in ActivePhases => turn[m] # "none"
      BY DEF ActivePhases
    <3> QED BY <1>1, <1>7, <2>3, <3>1, <3>2 DEF IInv, HomeInv
  <2> QED BY <2>2, <2>3
<1>12. EndsReported'
  <2>1. SUFFICES ASSUME NEW m \in Turns, turn'[m] = "over", home'[m] \in alive', proc'[m] # "none"
                 PROVE  Reported(m)'
    BY DEF EndsReported
  <2>2. m # n /\ home'[m] = home[m] /\ turn[m] = "over"
    BY <1>7, <2>1
  <2>3. Reported(m) /\ home[m] \in Sessions
    BY <1>1, <1>3, <2>1, <2>2 DEF IInv, EndsReported, TurnsTyped
  <2> QED BY <1>3, <2>2, <2>3, ReportsStay
<1> QED BY <1>5, <1>8, <1>9, <1>10, <1>11, <1>12 DEF IInv

-----------------------------------------------------------------------------
(* Sessions and the pod. *)

(* A session's number was nobody's home before. *)
LEMMA CreateSessionPreserves ==
  ASSUME IInv, NEW s \in Sessions, CreateSession(s), UNCHANGED <<log, cur, home, turn, proc, left>>
  PROVE  IInv'
<1>1. made' = s /\ alive' = alive \cup {s} /\ s = made + 1 /\ made \in Nat
  BY DEF CreateSession, IInv, TurnsTyped
<1>2. TurnsTyped'
  <2>1. \A t \in alive : t \in Nat /\ t <= made
    BY DEF IInv, TurnsTyped, Sessions
  <2>2. \A t \in alive' : t <= made'
    BY <1>1, <2>1
  <2> QED BY <1>1, <2>2 DEF IInv, TurnsTyped
<1>3. HomeInv'
  <2>1. \A t \in Sessions : t \in Nat
    BY DEF Sessions
  <2>2. \A m \in Turns : turn[m] # "none" => home[m] \in Sessions /\ home[m] <= made'
    <3>1. SUFFICES ASSUME NEW m \in Turns, turn[m] # "none"
                   PROVE  home[m] \in Sessions /\ home[m] <= made'
      OBVIOUS
    <3>2. home[m] \in Sessions /\ home[m] <= made
      BY <3>1 DEF IInv, HomeInv
    <3>3. home[m] \in Nat
      BY <2>1, <3>2
    <3>4. made' = made + 1
      BY <1>1
    <3> QED BY <1>1, <3>2, <3>3, <3>4
  <2> QED BY <1>1, <2>2 DEF IInv, HomeInv
<1>4. EndsReported'
  <2>1. SUFFICES ASSUME NEW m \in Turns, turn[m] = "over", home[m] \in alive', proc[m] # "none"
                 PROVE  Reported(m)'
    BY DEF EndsReported
  <2>2. home[m] # s
    BY <1>1, <2>1 DEF IInv, HomeInv, Sessions
  <2>3. Reported(m)
    BY <1>1, <2>1, <2>2 DEF IInv, EndsReported
  <2> QED BY <2>3 DEF Reported
<1> QED BY <1>2, <1>3, <1>4 DEF IInv, ProcInv, NumberInv, LogInv, InOrder

(* A new pod holds nothing. *)
LEMMA PodReplacedPreserves == ASSUME IInv, PodReplaced PROVE IInv'
<1>1. TurnsTyped'
  BY DEF IInv, TurnsTyped, PodReplaced
<1>2. /\ \A n \in Turns : turn'[n] \in {"none", "over"} /\ proc'[n] \in {"none", "exited"}
      /\ \A n \in Turns : (turn'[n] = "none") <=> (turn[n] = "none")
      /\ \A n \in Turns : proc[n] = "none" => proc'[n] = "none"
      /\ \A s \in Sessions : log'[s] = <<>> /\ cur'[s] = None
      /\ alive' = {} /\ UNCHANGED <<made, home>>
  BY DEF PodReplaced
<1>3. ProcInv' /\ HomeInv'
  BY <1>2 DEF IInv, ProcInv, HomeInv, ActivePhases
<1>4. NumberInv'
  BY <1>2 DEF IInv, NumberInv
<1>5. LogInv' /\ InOrder'
  BY <1>2 DEF LogInv, InOrder
<1>6. EndsReported'
  BY <1>2 DEF EndsReported
<1> QED BY <1>1, <1>3, <1>4, <1>5, <1>6 DEF IInv

-----------------------------------------------------------------------------
(* The theorems. *)

LEMMA InitEstablishes == Init => IInv
<1> SUFFICES ASSUME Init PROVE IInv
  OBVIOUS
<1> USE DEF Init, ServerInit
<1>2. TurnsTyped
  <2>1. 1 \in Sessions
    BY SessionAssumption DEF Sessions
  <2> QED BY <2>1 DEF TurnsTyped
<1>3. ProcInv /\ NumberInv /\ HomeInv
  BY DEF ProcInv, NumberInv, HomeInv, ActivePhases
<1>4. LogInv /\ InOrder /\ EndsReported
  BY DEF LogInv, InOrder, EndsReported
<1> QED BY <1>2, <1>3, <1>4 DEF IInv

LEMMA RequestPreserves == ASSUME IInv, NEW c \in Clients, Request(c) PROVE IInv'
<1>1. CASE Attach(c) \/ AttachRefused(c) \/ Reattach(c) \/ Receive(c) \/ Drop(c)
  BY <1>1, StutterPreserves DEF Attach, AttachRefused, Reattach, Receive, Drop, core, server, tasks
<1>2. CASE Submit(c) \/ Hear(c) \/ ReopenFails(c) \/ PromptLost(c)
  BY <1>2, StutterPreserves DEF Submit, Hear, ReopenFails, PromptLost, core, server, tasks
<1>3. CASE StartOver(c) \/ OpenFails(c) \/ Reconnect(c)
  BY <1>3, StutterPreserves DEF StartOver, OpenFails, Reconnect, core, server, tasks
<1>4. CASE Answer(c)
  <2>1. \/ UNCHANGED server
        \/ \E s \in alive : ~TurnActive(s) /\ StartTurn(s)
    BY <1>4 DEF Answer
  <2>2. alive \subseteq Sessions
    BY DEF IInv, TurnsTyped
  <2> QED BY <2>1, <2>2, StartTurnPreserves, StutterPreserves DEF core, server, tasks
<1>5. CASE Reopen(c) \/ Opened(c)
  BY <1>5, CreateSessionPreserves DEF Reopen, Opened, tasks
<1>6. CASE Stop(c)
  <2>1. PICK r \in Stops, s \in alive : StopTurn(r, s)
    BY <1>6 DEF Stop, StopTurn
  <2>2. alive \subseteq Sessions
    BY DEF IInv, TurnsTyped
  <2> QED BY <2>1, <2>2, StopTurnPreserves
<1> QED BY <1>1, <1>2, <1>3, <1>4, <1>5, <1>6 DEF Request

LEMMA TaskPreserves == ASSUME IInv, NEW n \in Turns, Task(n) PROVE IInv'
BY BeginsPreserves, SpawnsPreserves, SpawnFailsPreserves, ReapsPreserves, KilledPreserves,
   CancelledPreserves, OutputEndsPreserves, TimesOutPreserves, ProcExitsPreserves,
   EmitsPreserves, PumpFailsPreserves DEF Task, TurnSteps

LEMMA StepPreserves == IInv /\ [Next]_vars => IInv'
<1> SUFFICES ASSUME IInv, [Next]_vars PROVE IInv'
  OBVIOUS
<1>1. ASSUME NEW r \in Stops, Stopping(r) PROVE IInv'
  BY <1>1, StutterPreserves DEF Stopping, StopResumes, StopReturns, core, tasks
<1>2. CASE Restart
  BY <1>2, PodReplacedPreserves DEF Restart
<1>3. CASE UNCHANGED vars
  BY <1>3, StutterPreserves DEF vars, core, server, tasks
<1> QED BY <1>1, <1>2, <1>3, TaskPreserves, RequestPreserves DEF Next

(* The invariant holds in every reachable state. *)
THEOREM SessionInvariant == Spec => []IInv
<1> QED BY InitEstablishes, StepPreserves, PTL DEF Spec

(* However exits, timeouts, Stop requests and new pods interleave, an agent *)
(* that was not told to die has a turn that runs, or its output broke.      *)
THEOREM AgentsHaveTurns == Spec => []AgentHasTurn
<1>1. IInv => AgentHasTurn
  BY DEF IInv, TurnsTyped, ProcInv, AgentHasTurn
<1> QED BY <1>1, SessionInvariant, PTL

(* A session's log is one turn after the other, each closed by one turn_end, *)
(* and every turn that had an agent is closed in it.                         *)
THEOREM EveryTurnReported == Spec => []TurnsReported
<1>1. IInv => TurnsReported
  BY DEF IInv, InOrder, EndsReported, TurnsReported
<1> QED BY <1>1, SessionInvariant, PTL

-----------------------------------------------------------------------------
(* Stop. *)

(* A cancel request knows the turn it was asked to stop; if it joins        *)
(* another, that one is over.                                               *)
StopRecords == [pc : {"killing", "joining"}, first : Turns, turn : Turns \cup {None}]
StopInv ==
  /\ stop \in [Stops -> {NoStop} \cup StopRecords]
  /\ \A r \in Stops : stop[r].pc # "idle" =>
       /\ stop[r].first \in Turns /\ turn[stop[r].first] # "none"
       /\ stop[r].pc = "killing" => stop[r].turn = stop[r].first
       /\ stop[r].pc = "joining" => stop[r].turn = stop[r].first \/ turn[stop[r].first] = "over"

(* A turn that has begun has begun, and one that is over is over. *)
Advance ==
  \A m \in Turns : /\ turn[m] # "none" => turn'[m] # "none"
                   /\ turn[m] = "over" => turn'[m] = "over"

LEMMA TaskAdvances == ASSUME IInv, NEW n \in Turns, Task(n) PROVE Advance
<1>1. UNCHANGED turn \/ \E p \in ActivePhases \cup {"over"} :
        turn[n] \in ActivePhases /\ turn' = [turn EXCEPT ![n] = p]
  <2>1. TurnSteps(n) => turn[n] \in ActivePhases /\ \E p \in ActivePhases \cup {"over"} : turn' = [turn EXCEPT ![n] = p]
    BY DEF TurnSteps, Begins, Spawns, SpawnFails, Reaps, Killed, Cancelled, Moves, ActivePhases
  <2>2. OutputEnds(n) \/ TimesOut(n) \/ Emits(n) \/ PumpFails(n) =>
          turn[n] \in ActivePhases /\ \E p \in ActivePhases \cup {"over"} : turn' = [turn EXCEPT ![n] = p]
    BY DEF OutputEnds, TimesOut, Emits, PumpFails, Moves, ActivePhases
  <2>3. ProcExits(n) => UNCHANGED turn
    BY DEF ProcExits
  <2> QED BY <2>1, <2>2, <2>3 DEF Task
<1> QED BY <1>1 DEF Advance, IInv, TurnsTyped, ActivePhases

LEMMA StopKept == ASSUME StopInv, Advance, UNCHANGED stop PROVE StopInv'
BY DEF StopInv, Advance

(* Stop finds the turn that runs. *)
LEMMA StopTurnKeeps ==
  ASSUME IInv, StopInv, NEW q \in Stops, NEW s \in alive, StopTurn(q, s)
  PROVE  StopInv'
<1> DEFINE n == cur[s]
<1>1. n \in Turns /\ turn[n] \in ActivePhases /\ UNCHANGED turn
  BY DEF StopTurn, TurnActive, IInv, TurnsTyped
<1>2. PICK p \in {"killing", "joining"} :
        stop' = [stop EXCEPT ![q] = [pc |-> p, first |-> n, turn |-> n]]
  BY DEF StopTurn
<1> HIDE DEF n
<1>3. stop' \in [Stops -> {NoStop} \cup StopRecords]
  BY <1>1, <1>2 DEF StopInv, StopRecords
<1>4. SUFFICES ASSUME NEW r \in Stops, stop'[r].pc # "idle"
               PROVE  /\ stop'[r].first \in Turns /\ turn'[stop'[r].first] # "none"
                      /\ stop'[r].pc = "killing" => stop'[r].turn = stop'[r].first
                      /\ stop'[r].pc = "joining" =>
                           stop'[r].turn = stop'[r].first \/ turn'[stop'[r].first] = "over"
  BY <1>3 DEF StopInv
<1>5. CASE r = q
  <2>1. stop'[r] = [pc |-> p, first |-> n, turn |-> n]
    BY <1>2, <1>5 DEF StopInv
  <2> QED BY <1>1, <2>1 DEF ActivePhases
<1>6. CASE r # q
  <2>1. stop'[r] = stop[r]
    BY <1>2, <1>6 DEF StopInv
  <2> QED BY <1>1, <1>4, <2>1 DEF StopInv
<1> QED BY <1>5, <1>6

(* When the session's last turn is a later one, the first is over. *)
LEMMA StopResumesKeeps ==
  ASSUME IInv, StopInv, NEW q \in Stops, StopResumes(q)
  PROVE  StopInv'
<1> DEFINE m == stop[q].first
           n == cur[home[m]]
<1>1. m \in Turns /\ turn[m] # "none" /\ stop[q].turn = m /\ UNCHANGED turn
  BY DEF StopResumes, StopInv
<1>2. n \in Turns \cup {None} /\ (n = m \/ turn[m] = "over")
  BY <1>1 DEF IInv, TurnsTyped, HomeInv
<1>3. stop' = [stop EXCEPT ![q].pc = "joining", ![q].turn = n]
  BY <1>1 DEF StopResumes
<1>4. stop[q] \in StopRecords
  BY DEF StopResumes, StopInv, NoStop
<1>5. stop'[q] = [pc |-> "joining", first |-> m, turn |-> n]
  BY <1>3, <1>4 DEF StopInv, StopRecords
<1>6. \A r \in Stops \ {q} : stop'[r] = stop[r]
  BY <1>3 DEF StopInv
<1> HIDE DEF m, n
<1>7. stop' \in [Stops -> {NoStop} \cup StopRecords]
  <2>1. stop'[q] \in StopRecords
    BY <1>1, <1>2, <1>5 DEF StopRecords
  <2>2. stop' = [r \in Stops |-> stop'[r]]
    BY <1>3 DEF StopInv
  <2> QED BY <1>6, <2>1, <2>2 DEF StopInv
<1> QED BY <1>1, <1>2, <1>5, <1>6, <1>7 DEF StopInv

LEMMA StopReturnsKeeps ==
  ASSUME StopInv, NEW q \in Stops, StopReturns(q)
  PROVE  StopInv'
BY DEF StopInv, StopReturns, NoStop, tasks

(* But for Stop, a request changes no cancel request and no turn, unless it *)
(* starts one.                                                              *)
LEMMA RequestEffect ==
  ASSUME NEW c \in Clients, Request(c), ~Stop(c)
  PROVE  UNCHANGED stop /\ (UNCHANGED turn \/ \E s \in alive : StartTurn(s))
<1>1. CASE Attach(c) \/ AttachRefused(c) \/ Reattach(c) \/ Receive(c) \/ Drop(c)
  BY <1>1 DEF Attach, AttachRefused, Reattach, Receive, Drop, server, tasks
<1>2. CASE Submit(c) \/ Hear(c) \/ ReopenFails(c) \/ PromptLost(c)
  BY <1>2 DEF Submit, Hear, ReopenFails, PromptLost, server, tasks
<1>3. CASE Answer(c)
  BY <1>3 DEF Answer, StartTurn, server, tasks
<1>4. CASE Reopen(c) \/ StartOver(c) \/ Opened(c) \/ OpenFails(c) \/ Reconnect(c)
  BY <1>4 DEF Reopen, StartOver, Opened, OpenFails, Reconnect, server, tasks
<1> QED BY <1>1, <1>2, <1>3, <1>4 DEF Request

LEMMA StopStepPreserves == ASSUME IInv, StopInv, [Next]_vars PROVE StopInv'
<1>1. ASSUME NEW n \in Turns, Task(n) PROVE StopInv'
  <2>1. UNCHANGED stop
    BY <1>1 DEF Task, TurnSteps, Begins, Spawns, SpawnFails, Reaps, Killed, Cancelled, OutputEnds,
                TimesOut, ProcExits, Emits, PumpFails
  <2> QED BY <1>1, <2>1, TaskAdvances, StopKept
<1>2. ASSUME NEW r \in Stops, Stopping(r) PROVE StopInv'
  BY <1>2, StopResumesKeeps, StopReturnsKeeps DEF Stopping
<1>3. ASSUME NEW c \in Clients, Request(c) PROVE StopInv'
  <2>1. CASE Stop(c)
    BY <2>1, StopTurnKeeps DEF Stop, StopTurn
  <2>2. CASE ~Stop(c)
    <3>1. UNCHANGED stop /\ (UNCHANGED turn \/ \E s \in alive : StartTurn(s))
      BY <1>3, <2>2, RequestEffect
    <3>2. Advance
      BY <3>1 DEF Advance, StartTurn, IInv, TurnsTyped
    <3> QED BY <3>1, <3>2, StopKept
  <2> QED BY <2>1, <2>2
<1>4. CASE Restart
  BY <1>4 DEF Restart, PodReplaced, StopInv, NoStop
<1>5. CASE UNCHANGED vars
  BY <1>5, StopKept DEF vars, server, tasks, Advance
<1> QED BY <1>1, <1>2, <1>3, <1>4, <1>5 DEF Next

(* When Stop answers, or its pod is gone, the turn it was pressed for is    *)
(* over, although it may have joined a later turn in its place.             *)
THEOREM StopMeansOver == Spec => StopStops
<1>1. Init => StopInv
  BY DEF Init, ServerInit, StopInv, NoStop
<1>2. IInv /\ StopInv /\ [Next]_vars => StopInv'
  BY StopStepPreserves
<1>3. ASSUME IInv, StopInv, [Next]_vars, NEW r \in Stops, stop[r].pc # "idle", stop'[r].pc = "idle"
      PROVE  turn'[stop[r].first] = "over"
  <2>1. stop[r].first \in Turns /\ turn[stop[r].first] # "none"
    BY <1>3 DEF StopInv
  <2>2. CASE Restart
    BY <2>1, <2>2 DEF Restart, PodReplaced
  <2>3. ASSUME NEW q \in Stops, Stopping(q) PROVE turn'[stop[r].first] = "over"
    <3>1. CASE StopResumes(q)
      BY <1>3, <3>1 DEF StopResumes, StopInv
    <3>2. CASE StopReturns(q)
      <4>1. q = r
        BY <1>3, <3>2 DEF StopReturns, StopInv
      <4> QED BY <1>3, <3>2, <4>1 DEF StopReturns, StopInv, tasks
    <3> QED BY <2>3, <3>1, <3>2 DEF Stopping
  <2>4. ASSUME NEW c \in Clients, Request(c) PROVE FALSE
    <3>1. UNCHANGED stop \/ \E q \in Stops, s \in alive : StopTurn(q, s)
      BY <2>4, RequestEffect DEF Stop, StopTurn
    <3>2. ASSUME NEW q \in Stops, NEW s \in alive, StopTurn(q, s) PROVE stop'[r].pc # "idle"
      BY <1>3, <3>2 DEF StopTurn, StopInv
    <3> QED BY <1>3, <3>1, <3>2
  <2>5. ASSUME NEW n \in Turns, Task(n) PROVE FALSE
    BY <1>3, <2>5 DEF Task, TurnSteps, Begins, Spawns, SpawnFails, Reaps, Killed, Cancelled, OutputEnds,
                      TimesOut, ProcExits, Emits, PumpFails
  <2>6. CASE UNCHANGED vars
    BY <1>3, <2>6 DEF vars, server
  <2> QED BY <1>3, <2>2, <2>3, <2>4, <2>5, <2>6 DEF Next
<1>4. IInv /\ StopInv /\ [Next]_vars =>
        [\A r \in Stops : stop[r].pc # "idle" /\ stop'[r].pc = "idle" => turn'[stop[r].first] = "over"]_vars
  BY <1>3
<1> QED BY <1>1, <1>2, <1>4, SessionInvariant, PTL DEF Spec, StopStops

-----------------------------------------------------------------------------
(* Pages: the inductive invariant. *)

(* A session that is gone holds nothing; the last turn of another is at     *)
(* home in it, and its prompt is logged.                                    *)
LastInv ==
  /\ \A s \in Sessions : s \notin alive => log[s] = <<>> /\ cur[s] = None
  /\ \A s \in Sessions : cur[s] # None =>
       /\ home[cur[s]] = s
       /\ \E i \in DOMAIN log[s] : log[s][i] = [kind |-> "user", turn |-> cur[s]]
  /\ \A n \in Turns : turn[n] # "none" /\ home[n] \in alive => cur[home[n]] # None

(* A cancel request does not outlive the session of its turn. *)
StopsLive ==
  /\ cut \subseteq Turns
  /\ \A r \in Stops : stop[r].pc # "idle" => home[stop[r].first] \in alive /\ stop[r].turn # None

Posts == {"none", "sent", "resent", "started", "busy", "gone", "reopening"}
Pages ==
  [sess : Sessions, last : Nat, max : Nat, active : BOOLEAN, busy : BOOLEAN,
   post : Posts, to : Sessions \cup {None}, opening : Nat, saved : BOOLEAN, es : BOOLEAN,
   link : {"connecting", "attached", "error"}, timers : Nat, stale : BOOLEAN, astray : BOOLEAN]
Streams == [sess : Sessions \cup {None}, rest : Seq(Nat), q : Seq(Nat), seen : Nat]

PagesTyped ==
  /\ page \in [Clients -> Pages] /\ shown \in [Clients -> Seq(Nat)]
  /\ stream \in [Clients -> Streams] /\ mishaps \in 0..MaxMishaps

(* The rest is said of a page p, of what it shows, sh, and of its stream x, *)
(* where the sessions in A are alive, M were made and L are their logs: so  *)
(* a step's effect on one page can be put in its place.                     *)

(* What holds of a page whatever it carried over: its EventSource is        *)
(* attached to its own session at most, and a session that is gone for a    *)
(* prompt is gone for good.                                                 *)
Attached(A, M, p, x) ==
  /\ p.sess <= M /\ p.to <= M
  /\ x.sess # None => x.sess = p.sess /\ p.sess \in A /\ p.es
  /\ x.sess = None => x = Detached
  /\ p.post \in {"gone", "reopening"} => p.to \notin A
  /\ p.active => p.busy /\ p.max # 0

(* The first m events of log l end in a turn that is not closed. *)
OpenAfter(l, m) ==
  \E i \in 1..m : l[i].kind = "user" /\ \A j \in i..m : l[j].kind # "turn_end"

(* What a page shows is the first events of its session's log; what the     *)
(* EventSource has heard is among them, and may be less after a new start.  *)
Follows(A, L, p, sh) ==
  /\ p.max = Len(sh) /\ \A i \in 1..Len(sh) : sh[i] = i
  /\ p.sess \in A =>
       /\ p.es => p.last <= p.max
       /\ p.max <= Len(L[p.sess])
       /\ p.active <=> OpenAfter(L[p.sess], p.max)

(* A stream holds what is missing: first the replay, then the live events.  *)
Counts(v, m) == \A i \in 1..Len(v) : v[i] = m + i
Carries(L, p, x) ==
  x.sess # None =>
    /\ Len(x.rest) + p.last = x.seen /\ Counts(x.rest, p.last)
    /\ Len(x.q) + x.seen = Len(L[p.sess]) /\ Counts(x.q, x.seen)

(* A page that is busy without a turn to show for it has events to come,    *)
(* unless its session has yet to answer, or never had the prompt.           *)
Asked(p) == p.post \in {"sent", "resent"} /\ p.to = p.sess
Awaits(A, L, p) ==
  p.sess \in A /\ p.busy /\ ~p.active /\ ~p.astray /\ ~Asked(p) =>
    (IF p.stale THEN 0 ELSE p.max) < Len(L[p.sess])

PageOk(A, M, L, p, sh, x) ==
  Attached(A, M, p, x) /\ Awaits(A, L, p) /\ (~p.stale => Follows(A, L, p, sh) /\ Carries(L, p, x))

PageInv(c) == PageOk(alive, made, log, page[c], shown[c], stream[c])

PInv == LastInv /\ StopsLive /\ PagesTyped /\ \A c \in Clients : PageInv(c)

LEMMA PageFacts ==
  ASSUME IInv, PInv, NEW c \in Clients
  PROVE  /\ page[c] \in Pages /\ shown[c] \in Seq(Nat) /\ stream[c] \in Streams
         /\ PageOk(alive, made, log, page[c], shown[c], stream[c])
         /\ page[c].sess \in Sessions /\ page[c].max \in Nat /\ page[c].last \in Nat
         /\ log[page[c].sess] \in Seq(Events) /\ made \in Nat
<1>1. page[c] \in Pages /\ shown[c] \in Seq(Nat) /\ stream[c] \in Streams /\ PageInv(c)
  BY DEF PInv, PagesTyped
<1>2. page[c].sess \in Sessions /\ page[c].max \in Nat /\ page[c].last \in Nat
  BY <1>1 DEF Pages
<1> QED BY <1>1, <1>2 DEF PageInv, IInv, TurnsTyped

LEMMA NothingAttached ==
  /\ Detached \in Streams /\ Detached.sess = None /\ <<>> \in Seq(Nat)
  /\ Len(<<>>) = 0 /\ \A i \in 1..Len(<<>>) : FALSE
BY DEF Detached, Streams

-----------------------------------------------------------------------------
(* What a step of a turn's task changes, as far as sessions and pages see. *)

LEMMA TaskEffect ==
  ASSUME IInv, NEW n \in Turns, Task(n)
  PROVE  /\ UNCHANGED <<alive, made, cur, home, stop, page, shown, mishaps>> /\ cut' \subseteq cut
         /\ \A m \in Turns : turn[m] = "none" <=> turn'[m] = "none"
         /\ \/ UNCHANGED <<log, stream>>
            \/ turn[n] \in ActivePhases /\ \E kinds \in Seq(Kinds) : AddEvents(n, home[n], kinds)
<1>1. ASSUME NEW k \in Kinds PROVE Append(<<k>>, "turn_end") \in Seq(Kinds)
  BY WordsTyped DEF Kinds
<1>2. Append(<<>>, "turn_end") \in Seq(Kinds) /\ <<"out">> \in Seq(Kinds)
  BY WordsTyped DEF Kinds
<1>3. CASE Begins(n) \/ Spawns(n) \/ OutputEnds(n) \/ TimesOut(n) \/ ProcExits(n)
  BY <1>3 DEF Task, Begins, Spawns, OutputEnds, TimesOut, ProcExits, Moves, IInv, TurnsTyped
<1>4. CASE SpawnFails(n) \/ Killed(n)
  <2>1. PICK k \in Kinds : Ends(n, <<k>>)
    BY <1>4 DEF SpawnFails, Killed, Kinds
  <2>2. turn[n] \in ActivePhases /\ turn' = [turn EXCEPT ![n] = "over"]
        /\ UNCHANGED <<alive, made, cur, home, cut, stop>>
    BY <1>4 DEF SpawnFails, Killed, Moves, ActivePhases
  <2> QED BY <1>1, <1>4, <2>1, <2>2 DEF Ends, Task, IInv, TurnsTyped, ActivePhases
<1>5. CASE Reaps(n)
  <2>1. PICK kinds \in {<<>>, <<"error">>} : Ends(n, kinds)
    BY <1>5 DEF Reaps
  <2>2. Append(kinds, "turn_end") \in Seq(Kinds)
    BY <1>1, <1>2 DEF Kinds
  <2> QED BY <1>5, <2>1, <2>2 DEF Reaps, Moves, Ends, Task, IInv, TurnsTyped, ActivePhases
<1>6. CASE Emits(n)
  BY <1>2, <1>6 DEF Emits, Moves, Task, IInv, TurnsTyped, ActivePhases
<1>7. CASE PumpFails(n)
  BY <1>2, <1>7 DEF PumpFails, Moves, Ends, Task, IInv, TurnsTyped, ActivePhases
<1>8. CASE Cancelled(n)
  <2>1. UNCHANGED <<alive, made, cur, home, stop, page, shown, mishaps>> /\ cut' \subseteq cut
    BY <1>8 DEF Cancelled, Task
  <2>2. turn[n] \in ActivePhases /\ \E p \in ActivePhases \cup {"over"} : turn' = [turn EXCEPT ![n] = p]
    BY <1>8 DEF Cancelled, ActivePhases
  <2>3. UNCHANGED <<log, stream>> \/ Ends(n, <<"cancelled">>) \/ Ends(n, <<>>)
    BY <1>8 DEF Cancelled
  <2>4. Append(<<"cancelled">>, "turn_end") \in Seq(Kinds)
    BY <1>1 DEF Kinds
  <2> QED BY <1>2, <2>1, <2>2, <2>3, <2>4 DEF Ends, IInv, TurnsTyped, ActivePhases
<1> QED BY <1>3, <1>4, <1>5, <1>6, <1>7, <1>8 DEF Task, TurnSteps

-----------------------------------------------------------------------------
(* Sessions and cancel requests. *)

(* The sessions keep their last turns when events are added. *)
LEMMA LastKept ==
  ASSUME IInv, LastInv, UNCHANGED <<alive, cur, home>>,
         \A m \in Turns : turn[m] = "none" <=> turn'[m] = "none",
         \/ UNCHANGED log
         \/ \E n \in Turns, s \in alive, kinds \in Seq(Kinds) : AddEvents(n, s, kinds)
  PROVE  LastInv'
<1>1. CASE UNCHANGED log
  BY <1>1 DEF LastInv
<1>2. ASSUME NEW n \in Turns, NEW s \in alive, NEW kinds \in Seq(Kinds), AddEvents(n, s, kinds)
      PROVE  LastInv'
  <2>1. s \in Sessions /\ log[s] \in Seq(Events) /\ TurnsTyped
    BY DEF IInv, TurnsTyped
  <2>2. /\ log' \in [Sessions -> Seq(Events)] /\ \A t \in Sessions \ {s} : log'[t] = log[t]
        /\ Len(log'[s]) = Len(log[s]) + Len(kinds)
        /\ \A i \in 1..Len(log[s]) : log'[s][i] = log[s][i]
    BY <1>2, <2>1, AddEventsAppends
  <2>3. \A i \in DOMAIN log[s] : i \in DOMAIN log'[s] /\ log'[s][i] = log[s][i]
    <3>1. DOMAIN log[s] = 1..Len(log[s]) /\ DOMAIN log'[s] = 1..Len(log'[s])
          /\ Len(log[s]) \in Nat /\ Len(kinds) \in Nat
      BY <2>1, <2>2
    <3>2. 1..Len(log[s]) \subseteq 1..Len(log'[s])
      BY <2>2, <3>1
    <3> QED BY <2>2, <3>1, <3>2
  <2>4. \A t \in Sessions : cur[t] # None =>
          \E i \in DOMAIN log'[t] : log'[t][i] = [kind |-> "user", turn |-> cur[t]]
    <3>1. TAKE t \in Sessions
    <3>2. CASE t = s
      BY <2>3, <3>2 DEF LastInv
    <3>3. CASE t # s
      BY <2>2, <3>3 DEF LastInv
    <3> QED BY <3>2, <3>3
  <2>5. \A t \in Sessions : t \notin alive => log'[t] = <<>> /\ cur[t] = None
    BY <2>2 DEF LastInv
  <2> QED BY <2>4, <2>5 DEF LastInv
<1> QED BY <1>1, <1>2

LEMMA StopsKept ==
  ASSUME StopsLive, StopInv, cut' \subseteq cut, UNCHANGED stop, alive \subseteq alive',
         \A m \in Turns : turn[m] # "none" => home'[m] = home[m]
  PROVE  StopsLive'
BY DEF StopsLive, StopInv

-----------------------------------------------------------------------------
(* Pages that a step does not touch. *)

LEMMA PageUntouched ==
  ASSUME NEW A, NEW B, NEW M \in Nat, NEW N \in Nat, NEW L, NEW p \in Pages, NEW sh, NEW x,
         PageOk(A, M, L, p, sh, x), M <= N,
         p.sess \in B <=> p.sess \in A, p.to \in B => p.to \in A
  PROVE  PageOk(B, N, L, p, sh, x)
<1>1. p.sess \in Nat /\ p.to \in Nat
  BY DEF Pages, Sessions, None
<1>2. Attached(B, N, p, x)
  BY <1>1 DEF PageOk, Attached
<1>3. Awaits(B, L, p) /\ (~p.stale => Follows(B, L, p, sh) /\ Carries(L, p, x))
  BY DEF PageOk, Awaits, Follows
<1> QED BY <1>2, <1>3 DEF PageOk

LEMMA OpenSame ==
  ASSUME NEW l, NEW n, NEW m \in Nat, \A i \in 1..m : n[i] = l[i]
  PROVE  OpenAfter(n, m) <=> OpenAfter(l, m)
<1>1. \A i \in 1..m : i..m \subseteq 1..m
  OBVIOUS
<1> QED BY <1>1 DEF OpenAfter

LEMMA Joined ==
  ASSUME NEW v \in Seq(Nat), NEW w \in Seq(Nat)
  PROVE  /\ Len(v \o w) = Len(v) + Len(w)
         /\ \A i \in 1..Len(v) : (v \o w)[i] = v[i]
         /\ \A i \in 1..Len(w) : (v \o w)[Len(v) + i] = w[i]
OBVIOUS

(* Numbers that go on from m, and then some more, go on from m. *)
LEMMA JoinedCounts ==
  ASSUME NEW v \in Seq(Nat), NEW w \in Seq(Nat), NEW m \in Nat, NEW n \in Nat, Len(v) + m = n,
         Counts(v, m), Counts(w, n)
  PROVE  Counts(v \o w, m)
<1>1. SUFFICES ASSUME NEW i \in 1..Len(v \o w) PROVE (v \o w)[i] = m + i
  BY DEF Counts
<1>2. Len(v) \in Nat /\ Len(w) \in Nat /\ i \in 1..(Len(v) + Len(w))
  BY Joined
<1>3. CASE i \in 1..Len(v)
  BY <1>3, Joined DEF Counts
<1>4. CASE i \notin 1..Len(v)
  <2>1. PICK j \in 1..Len(w) : i = Len(v) + j
    <3>1. i - Len(v) \in 1..Len(w)
      BY <1>2, <1>4
    <3>2. i = Len(v) + (i - Len(v))
      BY <1>2
    <3> QED BY <3>1, <3>2
  <2>2. (v \o w)[i] = w[j]
    BY <2>1, Joined
  <2>3. w[j] = n + j /\ j \in Nat
    BY <2>1 DEF Counts
  <2>4. n + j = m + i
    <3>1. \A a, b, k \in Nat : (a + b) + k = b + (a + k)
      OBVIOUS
    <3>2. (Len(v) + m) + j = m + (Len(v) + j)
      BY <1>2, <2>3, <3>1
    <3> QED BY <2>1, <3>2, Zenon
  <2> QED BY <2>2, <2>3, <2>4
<1> QED BY <1>3, <1>4

(* The log of session s grows by the events numbered ids. *)
Grown(L, N, s, ids) ==
  /\ L \in [Sessions -> Seq(Events)] /\ N \in [Sessions -> Seq(Events)]
  /\ \A t \in Sessions \ {s} : N[t] = L[t]
  /\ Len(N[s]) = Len(L[s]) + Len(ids) /\ \A i \in 1..Len(L[s]) : N[s][i] = L[s][i]
  /\ Counts(ids, Len(L[s]))

(* Session s gets more events: what a page has seen stays as it was, and the   *)
(* streams of s get what follows.                                           *)
LEMMA PageGrows ==
  ASSUME NEW A, NEW M, NEW p \in Pages, NEW sh, NEW x \in Streams,
         NEW L, NEW N, NEW s \in Sessions, NEW ids \in Seq(Nat), Grown(L, N, s, ids),
         PageOk(A, M, L, p, sh, x)
  PROVE  PageOk(A, M, N, p, sh, IF x.sess = s THEN [x EXCEPT !.q = @ \o ids] ELSE x)
<1> DEFINE t == p.sess
           m == p.max
           y == IF x.sess = s THEN [x EXCEPT !.q = @ \o ids] ELSE x
<1>1. t \in Sessions /\ m \in Nat /\ L[t] \in Seq(Events) /\ N[t] \in Seq(Events)
      /\ Len(L[t]) \in Nat /\ Len(N[t]) \in Nat /\ Len(L[s]) \in Nat /\ Len(ids) \in Nat
  <2>1. t \in Sessions /\ m \in Nat
    BY DEF Pages
  <2> QED BY <2>1 DEF Grown
<1>2. y.sess = x.sess /\ (x.sess = None => y = x)
  BY DEF Streams, Sessions, None
<1>3. Len(N[t]) >= Len(L[t]) /\ \A i \in 1..Len(L[t]) : N[t][i] = L[t][i]
  <2>1. CASE t = s
    BY <1>1, <2>1 DEF Grown
  <2>2. CASE t # s
    BY <1>1, <2>2 DEF Grown
  <2> QED BY <2>1, <2>2
<1>4. Attached(A, M, p, y)
  BY <1>2 DEF PageOk, Attached
<1>5. Awaits(A, N, p)
  BY <1>1, <1>3 DEF PageOk, Awaits
<1>6. ASSUME ~p.stale PROVE Follows(A, N, p, sh)
  <2>1. Follows(A, L, p, sh)
    BY <1>6 DEF PageOk
  <2>2. ASSUME t \in A PROVE m <= Len(N[t]) /\ (OpenAfter(N[t], m) <=> OpenAfter(L[t], m))
    <3>1. m <= Len(L[t])
      BY <2>1, <2>2 DEF Follows
    <3>2. \A i \in 1..m : N[t][i] = L[t][i]
      BY <1>1, <1>3, <3>1
    <3> HIDE DEF m, t
    <3>3. m <= Len(N[t])
      BY <1>1, <1>3, <3>1
    <3>4. OpenAfter(N[t], m) <=> OpenAfter(L[t], m)
      BY <1>1, <3>2, OpenSame
    <3> QED BY <3>3, <3>4
  <2> QED BY <2>1, <2>2 DEF Follows
<1>7. ASSUME ~p.stale PROVE Carries(N, p, y)
  <2>1. Carries(L, p, x) /\ Attached(A, M, p, x)
    BY <1>7 DEF PageOk
  <2>2. CASE x.sess # s
    BY <1>1, <2>1, <2>2 DEF Attached, Carries, Grown
  <2>3. CASE x.sess = s
    <3>1. x.sess # None /\ t = s
      BY <2>1, <2>3 DEF Attached, None, Sessions
    <3>2. /\ x.q \in Seq(Nat) /\ x.seen \in Nat /\ x.rest \in Seq(Nat)
          /\ y.sess = x.sess /\ y.rest = x.rest /\ y.seen = x.seen /\ y.q = x.q \o ids
      BY <2>3 DEF Streams
    <3>4. /\ Len(x.rest) + p.last = x.seen /\ Counts(x.rest, p.last)
          /\ Len(x.q) + x.seen = Len(L[s]) /\ Counts(x.q, x.seen)
      BY <2>1, <3>1 DEF Carries
    <3>5. Len(x.q \o ids) = Len(x.q) + Len(ids) /\ Len(x.q) \in Nat
      BY <3>2, Joined
    <3>6. Counts(x.q \o ids, x.seen)
      <4>1. Counts(ids, Len(L[s]))
        BY DEF Grown
      <4> HIDE DEF y, t
      <4> QED BY <1>1, <3>2, <3>4, <4>1, JoinedCounts
    <3>7. Len(x.q \o ids) + x.seen = Len(N[s])
      <4>1. \A a, b, n \in Nat : (a + n) + b = (a + b) + n
        OBVIOUS
      <4>2. (Len(x.q) + Len(ids)) + x.seen = (Len(x.q) + x.seen) + Len(ids)
        BY <1>1, <3>2, <3>5, <4>1, Zenon
      <4>3. Len(N[s]) = Len(L[s]) + Len(ids)
        BY DEF Grown
      <4> QED BY <3>4, <3>5, <4>2, <4>3, Zenon
    <3> HIDE DEF y, t
    <3> QED BY <3>1, <3>2, <3>4, <3>6, <3>7 DEF Carries, t
  <2> QED BY <2>2, <2>3
<1> QED BY <1>4, <1>5, <1>6, <1>7 DEF PageOk

(* So it is for every page when a turn adds events. *)
LEMMA PageFed ==
  ASSUME IInv, PInv, NEW n \in Turns, NEW s \in alive, NEW kinds \in Seq(Kinds), AddEvents(n, s, kinds)
  PROVE  /\ stream' \in [Clients -> Streams]
         /\ \A c \in Clients : PageOk(alive, made, log', page[c], shown[c], stream'[c])
         /\ Len(log'[s]) = Len(log[s]) + Len(kinds)
<1> DEFINE ids == [i \in 1..Len(kinds) |-> Len(log[s]) + i]
<1>1. s \in Sessions /\ stream \in [Clients -> Streams] /\ log \in [Sessions -> Seq(Events)]
  BY DEF IInv, TurnsTyped, PInv, PagesTyped
<1>2. ids \in Seq(Nat) /\ Len(ids) = Len(kinds) /\ Len(kinds) \in Nat
      /\ \A i \in 1..Len(kinds) : ids[i] = Len(log[s]) + i
  <2>1. Len(log[s]) \in Nat /\ Len(kinds) \in Nat
    BY <1>1
  <2>2. \A i \in 1..Len(kinds) : Len(log[s]) + i \in Nat
    BY <2>1
  <2> QED BY <2>1, <2>2
<1>3. /\ log' \in [Sessions -> Seq(Events)] /\ \A t \in Sessions \ {s} : log'[t] = log[t]
      /\ Len(log'[s]) = Len(log[s]) + Len(kinds)
      /\ \A i \in 1..Len(log[s]) : log'[s][i] = log[s][i]
  BY <1>1, AddEventsAppends DEF IInv
<1>4. stream' = [c \in Clients |-> IF stream[c].sess = s THEN [stream[c] EXCEPT !.q = @ \o ids] ELSE stream[c]]
  BY DEF AddEvents
<1> HIDE DEF ids
<1>5. ASSUME NEW c \in Clients PROVE stream'[c] \in Streams
  <2>1. PICK x \in Streams : x = stream[c]
    BY <1>1
  <2>2. x.q \in Seq(Nat)
    BY DEF Streams
  <2>3. x.q \o ids \in Seq(Nat)
    BY <1>2, <2>2
  <2>4. [x EXCEPT !.q = @ \o ids] \in Streams
    BY <2>3 DEF Streams
  <2> QED BY <1>4, <2>1, <2>4
<1>6. stream' \in [Clients -> Streams]
  BY <1>4, <1>5
<1>7. ASSUME NEW c \in Clients PROVE PageOk(alive, made, log', page[c], shown[c], stream'[c])
  <2>1. PageOk(alive, made, log, page[c], shown[c], stream[c]) /\ page[c] \in Pages /\ stream[c] \in Streams
    BY PageFacts
  <2>2. stream'[c] = IF stream[c].sess = s THEN [stream[c] EXCEPT !.q = @ \o ids] ELSE stream[c]
    BY <1>4
  <2>3. Grown(log, log', s, ids)
    BY <1>1, <1>2, <1>3 DEF Grown, Counts
  <2>4. PageOk(alive, made, log', page[c], shown[c],
               IF stream[c].sess = s THEN [stream[c] EXCEPT !.q = @ \o ids] ELSE stream[c])
    BY <1>1, <1>2, <2>1, <2>3, PageGrows
  <2> QED BY <2>2, <2>4
<1> QED BY <1>3, <1>6, <1>7

-----------------------------------------------------------------------------
(* The steps of one page that leave the server alone but for its stream. *)

LEMMA OnePageSteps ==
  ASSUME IInv, PInv, NEW c \in Clients, UNCHANGED <<alive, made, log, cur, home, tasks, stop>>,
         mishaps' \in 0..MaxMishaps,
         NEW p \in Pages, NEW sh \in Seq(Nat), NEW x \in Streams,
         page' = [page EXCEPT ![c] = p], shown' = [shown EXCEPT ![c] = sh],
         stream' = [stream EXCEPT ![c] = x],
         PageOk(alive, made, log, p, sh, x)
  PROVE  PInv'
<1>1. LastInv' /\ StopsLive'
  BY DEF PInv, LastInv, StopsLive, tasks
<1>2. PagesTyped'
  BY DEF PInv, PagesTyped
<1>3. ASSUME NEW d \in Clients PROVE PageInv(d)'
  <2>1. CASE d = c
    <3>1. page'[c] = p /\ shown'[c] = sh /\ stream'[c] = x
      BY DEF PInv, PagesTyped
    <3> QED BY <2>1, <3>1 DEF PageInv
  <2>2. CASE d # c
    <3>1. page'[d] = page[d] /\ shown'[d] = shown[d] /\ stream'[d] = stream[d]
      BY <2>2 DEF PInv, PagesTyped
    <3> QED BY <3>1, PageFacts DEF PageInv
  <2> QED BY <2>1, <2>2
<1> QED BY <1>1, <1>2, <1>3 DEF PInv

(* The same where the page's stream and what it shows are left alone. *)
LEMMA OnePageChanges ==
  ASSUME IInv, PInv, NEW c \in Clients, UNCHANGED <<server, shown>>, mishaps' \in 0..MaxMishaps,
         NEW p \in Pages, page' = [page EXCEPT ![c] = p],
         PageOk(alive, made, log, p, shown[c], stream[c])
  PROVE  PInv'
<1>1. PICK sh \in Seq(Nat) : sh = shown[c] /\ shown' = [shown EXCEPT ![c] = sh]
  BY DEF PInv, PagesTyped
<1>2. PICK x \in Streams : x = stream[c] /\ stream' = [stream EXCEPT ![c] = x]
  BY DEF PInv, PagesTyped, server
<1>3. UNCHANGED <<alive, made, log, cur, home, tasks, stop>>
  BY DEF server
<1>4. PageOk(alive, made, log, p, sh, x)
  BY <1>1, <1>2
<1> QED BY <1>1, <1>2, <1>3, <1>4, OnePageSteps

LEMMA MishapsBounded == ASSUME PInv PROVE Mishap \/ UNCHANGED mishaps => mishaps' \in 0..MaxMishaps
BY PageAssumption DEF PInv, PagesTyped, Mishap

(* A page whose fields of concern stay as they are. *)
LEMMA SameConcerns ==
  ASSUME NEW A, NEW M, NEW L, NEW p \in Pages, NEW q \in Pages, NEW sh, NEW x,
         PageOk(A, M, L, q, sh, x),
         p.sess = q.sess, p.last = q.last, p.max = q.max, p.active = q.active, p.busy = q.busy,
         p.post = q.post, p.to = q.to, p.stale = q.stale, p.astray = q.astray,
         p.es = q.es \/ (~p.es /\ x.sess = None)
  PROVE  PageOk(A, M, L, p, sh, x)
BY DEF PageOk, Attached, Awaits, Asked, Follows, Carries

(* What is missing after event last is replayed. *)
LEMMA AttachKeeps == ASSUME IInv, PInv, NEW c \in Clients, Attach(c) PROVE PInv'
<1> DEFINE s == page[c].sess
           last == page[c].last
           size == Len(log[s])
           gap == IF last < size THEN size - last ELSE 0
           rest == [i \in 1..gap |-> last + i]
           seen == IF last < size THEN size ELSE last
<1>1. /\ s \in alive /\ stream[c].sess = None /\ page[c].es
      /\ stream' = [stream EXCEPT ![c] = [sess |-> s, rest |-> rest, q |-> <<>>, seen |-> seen]]
      /\ page' = [page EXCEPT ![c].link = "attached"]
      /\ UNCHANGED <<alive, made, log, cur, home, tasks, stop, shown, mishaps>>
  BY DEF Attach, AttachStream
<1>2. /\ s \in Sessions /\ last \in Nat /\ size \in Nat /\ page[c].max \in Nat
      /\ PageOk(alive, made, log, page[c], shown[c], stream[c])
  BY PageFacts
<1>3. gap \in Nat /\ seen \in Nat /\ (last <= size => last + gap = size /\ seen = size)
  BY <1>2
<1> HIDE DEF size, gap, seen
<1>4. rest \in Seq(Nat) /\ Len(rest) = gap /\ Counts(rest, last)
  <2>1. \A i \in 1..gap : last + i \in Nat
    BY <1>2, <1>3
  <2> QED BY <1>3, <2>1 DEF Counts
<1> HIDE DEF rest
<1>5. PICK x \in Streams : x = [sess |-> s, rest |-> rest, q |-> <<>>, seen |-> seen]
  BY <1>2, <1>3, <1>4, NothingAttached DEF Streams
<1>6. PICK q \in Pages : q = page[c]
  BY PageFacts
<1>7. PICK p \in Pages : p = [q EXCEPT !.link = "attached"]
  BY DEF Pages
<1>8. page' = [page EXCEPT ![c] = p] /\ shown' = [shown EXCEPT ![c] = shown[c]]
  BY <1>1, <1>6, <1>7 DEF PInv, PagesTyped
<1>9. PageOk(alive, made, log, p, shown[c], stream[c]) /\ p.sess = s /\ p.last = last /\ p.es /\ p.max = page[c].max
      /\ p.stale = q.stale
  BY <1>1, <1>2, <1>6, <1>7, SameConcerns DEF Pages
<1>10. x.sess = s /\ x.sess # None /\ x.rest = rest /\ x.q = <<>> /\ x.seen = seen
  BY <1>2, <1>5 DEF Sessions, None
<1>11. Attached(alive, made, p, x)
  BY <1>1, <1>9, <1>10 DEF PageOk, Attached
<1>12. ASSUME ~p.stale PROVE Follows(alive, log, p, shown[c]) /\ Carries(log, p, x)
  <2>1. Follows(alive, log, p, shown[c])
    BY <1>9, <1>12 DEF PageOk
  <2>2. last <= page[c].max /\ page[c].max <= size
    BY <1>1, <1>9, <2>1 DEF Follows, size
  <2>3. last <= size
    BY <1>2, <2>2
  <2>4. Len(rest) + last = seen /\ seen = size
    BY <1>2, <1>3, <1>4, <2>3
  <2>5. Len(<<>>) + seen = size /\ Counts(<<>>, seen)
    BY <1>2, <2>4, NothingAttached DEF Counts
  <2>6. Carries(log, p, x)
    BY <1>4, <1>9, <1>10, <2>4, <2>5 DEF Carries, size
  <2> QED BY <2>1, <2>6
<1>13. PageOk(alive, made, log, p, shown[c], x)
  BY <1>9, <1>11, <1>12 DEF PageOk
<1> QED BY <1>1, <1>5, <1>8, <1>13, PageFacts, MishapsBounded, OnePageSteps

LEMMA AttachRefusedKeeps == ASSUME IInv, PInv, NEW c \in Clients, AttachRefused(c) PROVE PInv'
<1>1. PICK q \in Pages : q = page[c]
  BY PageFacts
<1>2. PICK t \in Nat : t = IF q.sess \in alive THEN q.timers + 1 ELSE 1
  BY DEF Pages
<1>3. PICK p \in Pages : p = [q EXCEPT !.es = FALSE, !.link = "error", !.timers = t]
  BY DEF Pages
<1>4. page' = [page EXCEPT ![c] = p]
  BY <1>1, <1>2, <1>3 DEF AttachRefused, PInv, PagesTyped
<1>5. PageOk(alive, made, log, p, shown[c], stream[c])
  <2>1. /\ p.sess = q.sess /\ p.last = q.last /\ p.max = q.max /\ p.active = q.active
        /\ p.busy = q.busy /\ p.post = q.post /\ p.to = q.to /\ p.stale = q.stale
        /\ p.astray = q.astray /\ ~p.es
    BY <1>3 DEF Pages
  <2>2. stream[c].sess = None /\ PageOk(alive, made, log, q, shown[c], stream[c])
    BY <1>1, PageFacts DEF AttachRefused
  <2> QED BY <2>1, <2>2, SameConcerns
<1> QED BY <1>4, <1>5, MishapsBounded, OnePageChanges DEF AttachRefused

(* A page without a stream. *)
LEMMA Unattached ==
  ASSUME IInv, PInv, NEW c \in Clients, UNCHANGED <<alive, made, log, cur, home, tasks, stop>>,
         Mishap \/ UNCHANGED mishaps, Disconnect(c),
         NEW p \in Pages, page' = [page EXCEPT ![c] = p],
         NEW sh \in Seq(Nat), shown' = [shown EXCEPT ![c] = sh],
         p.sess = page[c].sess, p.post = page[c].post, p.to = page[c].to,
         p.active => p.busy /\ p.max # 0,
         Awaits(alive, log, p), ~p.stale => Follows(alive, log, p, sh)
  PROVE  PInv'
<1>1. Detached \in Streams /\ stream' = [stream EXCEPT ![c] = Detached] /\ Detached.sess = None
  BY NothingAttached DEF Disconnect
<1>2. PageOk(alive, made, log, page[c], shown[c], stream[c])
  BY PageFacts
<1>3. Attached(alive, made, p, Detached) /\ Carries(log, p, Detached)
  BY <1>1, <1>2 DEF PageOk, Attached, Carries
<1>4. PageOk(alive, made, log, p, sh, Detached)
  BY <1>3 DEF PageOk
<1> QED BY <1>1, <1>4, MishapsBounded, OnePageSteps

LEMMA DropKeeps == ASSUME IInv, PInv, NEW c \in Clients, Drop(c) PROVE PInv'
<1>1. PICK q \in Pages : q = page[c] /\ PageOk(alive, made, log, q, shown[c], stream[c])
  BY PageFacts
<1>2. PICK p \in Pages : p = [q EXCEPT !.link = "connecting"]
  BY DEF Pages
<1>3. page' = [page EXCEPT ![c] = p] /\ shown' = [shown EXCEPT ![c] = shown[c]]
  BY <1>1, <1>2 DEF Drop, PInv, PagesTyped
<1>4. PageOk(alive, made, log, p, shown[c], stream[c])
      /\ p.sess = q.sess /\ p.post = q.post /\ p.to = q.to
  BY <1>1, <1>2, SameConcerns DEF Pages
<1> QED BY <1>1, <1>3, <1>4, PageFacts, Unattached DEF Drop, PageOk, Attached

(* An EventSource begins anew: the transcript drops what it has. *)
LEMMA ReattachKeeps == ASSUME IInv, PInv, NEW c \in Clients, Reattach(c) PROVE PInv'
<1>1. PICK q \in Pages : q = page[c] /\ PageOk(alive, made, log, q, shown[c], stream[c])
  BY PageFacts
<1>2. PICK t \in Nat : t = q.timers - 1
  BY <1>1 DEF Reattach, Pages
<1>3. PICK p \in Pages : p = [q EXCEPT !.last = 0, !.es = TRUE, !.link = "connecting", !.timers = t]
  BY DEF Pages
<1>4. [AttachTo(q, q.sess) EXCEPT !.timers = q.timers - 1] = p
  BY <1>2, <1>3 DEF AttachTo, Pages
<1>5. page' = [page EXCEPT ![c] = p] /\ shown' = [shown EXCEPT ![c] = shown[c]]
  BY <1>1, <1>4 DEF Reattach, PInv, PagesTyped
<1>6. /\ p.sess = q.sess /\ p.last = 0 /\ p.max = q.max /\ p.active = q.active /\ p.busy = q.busy
      /\ p.post = q.post /\ p.to = q.to /\ p.stale = q.stale /\ p.astray = q.astray /\ q.max \in Nat
  BY <1>3 DEF Pages
<1>7. Awaits(alive, log, p) /\ (p.active => p.busy /\ p.max # 0)
  BY <1>1, <1>6 DEF PageOk, Attached, Awaits, Asked
<1>8. ~p.stale => Follows(alive, log, p, shown[c])
  BY <1>1, <1>6 DEF PageOk, Follows
<1> QED BY <1>1, <1>5, <1>6, <1>7, <1>8, PageFacts, Unattached DEF Reattach

-----------------------------------------------------------------------------
(* A frame arrives. *)

LEMMA FrontTaken ==
  ASSUME NEW v \in Seq(Nat), NEW m \in Nat, v # <<>>, Counts(v, m)
  PROVE  /\ Head(v) = m + 1 /\ Tail(v) \in Seq(Nat) /\ Counts(Tail(v), Head(v))
         /\ Len(v) \in Nat /\ Len(v) >= 1 /\ Len(Tail(v)) = Len(v) - 1
<1>1. /\ Len(v) \in Nat /\ Len(v) >= 1 /\ Head(v) = v[1] /\ Len(Tail(v)) = Len(v) - 1
      /\ \A i \in 1..(Len(v) - 1) : Tail(v)[i] = v[i + 1]
      /\ Tail(v) \in Seq(Nat)
  OBVIOUS
<1>2. Head(v) = m + 1
  BY <1>1 DEF Counts
<1>3. Counts(Tail(v), Head(v))
  <2>1. SUFFICES ASSUME NEW i \in 1..Len(Tail(v)) PROVE Tail(v)[i] = Head(v) + i
    BY DEF Counts
  <2>2. i + 1 \in 1..Len(v) /\ Tail(v)[i] = v[i + 1] /\ i \in Nat
    BY <1>1
  <2>3. Tail(v)[i] = m + (i + 1)
    BY <2>2 DEF Counts
  <2> QED BY <1>2, <2>2, <2>3
<1> QED BY <1>1, <1>2, <1>3

LEMMA TailTyped == ASSUME NEW v \in Seq(Nat), v # <<>> PROVE Tail(v) \in Seq(Nat)
OBVIOUS

LEMMA SendsTyped ==
  ASSUME IInv, PInv, NEW c \in Clients, NEW id \in Nat, Sends(c, id)
  PROVE  \E x \in Streams :
           /\ stream' = [stream EXCEPT ![c] = x] /\ x.sess = stream[c].sess
           /\ stream[c].sess # None
           /\ \/ /\ stream[c].rest # <<>> /\ id = Head(stream[c].rest)
                 /\ x.rest = Tail(stream[c].rest) /\ x.q = stream[c].q /\ x.seen = stream[c].seen
              \/ /\ stream[c].rest = <<>> /\ stream[c].q # <<>> /\ id = Head(stream[c].q)
                 /\ x.rest = <<>> /\ x.q = Tail(stream[c].q) /\ x.seen = id
<1>1. PICK y \in Streams : y = stream[c]
  BY PageFacts
<1>2. y.rest \in Seq(Nat) /\ y.q \in Seq(Nat)
  BY DEF Streams
<1>3. y.sess # None
  BY <1>1, PageFacts DEF Sends, PageOk, Attached, Detached
<1>4. CASE y.rest # <<>> /\ id = Head(y.rest) /\ stream' = [stream EXCEPT ![c].rest = Tail(@)]
  <2>1. PICK v \in Seq(Nat) : v = Tail(y.rest)
    BY <1>2, <1>4, TailTyped
  <2>2. PICK x \in Streams : x = [y EXCEPT !.rest = v]
    BY DEF Streams
  <2>3. x.sess = y.sess /\ x.rest = v /\ x.q = y.q /\ x.seen = y.seen
    BY <2>2 DEF Streams
  <2>4. stream' = [stream EXCEPT ![c] = x]
    BY <1>1, <1>4, <2>1, <2>2 DEF PInv, PagesTyped
  <2> QED BY <1>1, <1>3, <1>4, <2>1, <2>3, <2>4
<1>5. CASE /\ y.rest = <<>> /\ y.q # <<>> /\ id = Head(y.q)
           /\ stream' = [stream EXCEPT ![c].q = Tail(@), ![c].seen = id]
  <2>1. PICK v \in Seq(Nat) : v = Tail(y.q)
    BY <1>2, <1>5, TailTyped
  <2>2. PICK x \in Streams : x = [y EXCEPT !.q = v, !.seen = id]
    BY DEF Streams
  <2>3. x.sess = y.sess /\ x.rest = y.rest /\ x.q = v /\ x.seen = id
    BY <2>2 DEF Streams
  <2>4. stream' = [stream EXCEPT ![c] = x]
    BY <1>1, <1>5, <2>1, <2>2 DEF PInv, PagesTyped
  <2> QED BY <1>1, <1>3, <1>5, <2>1, <2>3, <2>4
<1> QED BY <1>1, <1>4, <1>5 DEF Sends

(* The frame follows what the EventSource had, and the rest of the stream   *)
(* follows the frame.                                                       *)
LEMMA FrameIsNext ==
  ASSUME NEW L, NEW p, NEW x \in Streams, NEW y \in Streams, NEW id \in Nat,
         p.last \in Nat, Len(L[p.sess]) \in Nat, x.sess # None, y.sess = x.sess, Carries(L, p, x),
         \/ x.rest # <<>> /\ id = Head(x.rest) /\ y.rest = Tail(x.rest) /\ y.q = x.q /\ y.seen = x.seen
         \/ x.rest = <<>> /\ x.q # <<>> /\ id = Head(x.q) /\ y.rest = <<>> /\ y.q = Tail(x.q) /\ y.seen = id
  PROVE  /\ id = p.last + 1 /\ id <= Len(L[p.sess])
         /\ Len(y.rest) + id = y.seen /\ Counts(y.rest, id)
         /\ Len(y.q) + y.seen = Len(L[p.sess]) /\ Counts(y.q, y.seen)
<1> DEFINE m == p.last
           size == Len(L[p.sess])
<1>1. x.rest \in Seq(Nat) /\ x.q \in Seq(Nat) /\ x.seen \in Nat /\ m \in Nat /\ size \in Nat
  BY DEF Streams
<1>2. /\ Len(x.rest) + m = x.seen /\ Counts(x.rest, m)
      /\ Len(x.q) + x.seen = size /\ Counts(x.q, x.seen) /\ Len(x.q) \in Nat
  BY <1>1 DEF Carries
<1> HIDE DEF m, size
<1>3. CASE x.rest # <<>> /\ id = Head(x.rest) /\ y.rest = Tail(x.rest) /\ y.q = x.q /\ y.seen = x.seen
  <2>1. /\ id = m + 1 /\ Counts(Tail(x.rest), id)
        /\ Len(x.rest) \in Nat /\ Len(x.rest) >= 1 /\ Len(Tail(x.rest)) = Len(x.rest) - 1
    BY <1>1, <1>2, <1>3, FrontTaken
  <2>2. \A a, b, z \in Nat : a >= 1 => (a - 1) + (b + 1) = a + b /\ b + 1 <= z + (a + b)
    OBVIOUS
  <2>3. /\ (Len(x.rest) - 1) + (m + 1) = Len(x.rest) + m
        /\ m + 1 <= Len(x.q) + (Len(x.rest) + m)
    BY <1>1, <1>2, <2>1, <2>2, Zenon
  <2> QED BY <1>2, <1>3, <2>1, <2>3 DEF m, size
<1>4. CASE x.rest = <<>> /\ x.q # <<>> /\ id = Head(x.q) /\ y.rest = <<>> /\ y.q = Tail(x.q) /\ y.seen = id
  <2>1. x.seen = m
    BY <1>1, <1>2, <1>4, NothingAttached
  <2>2. /\ id = m + 1 /\ Counts(Tail(x.q), id)
        /\ Len(x.q) >= 1 /\ Len(Tail(x.q)) = Len(x.q) - 1
    BY <1>1, <1>2, <1>4, <2>1, FrontTaken
  <2>3. \A a, b \in Nat : a >= 1 => (a - 1) + (b + 1) = a + b /\ b + 1 <= a + b
    OBVIOUS
  <2>4. (Len(x.q) - 1) + (m + 1) = size /\ m + 1 <= size
    BY <1>1, <1>2, <2>1, <2>2, <2>3
  <2>5. Len(<<>>) + id = id /\ Counts(<<>>, id)
    BY NothingAttached DEF Counts
  <2> QED BY <1>4, <2>2, <2>4, <2>5 DEF m, size
<1> QED BY <1>3, <1>4

(* An event more: open if it is a prompt, or was open and is no turn_end. *)
LEMMA OpenStep ==
  ASSUME NEW L, NEW m \in Nat
  PROVE  OpenAfter(L, m + 1) <=>
           L[m + 1].kind = "user" \/ (OpenAfter(L, m) /\ L[m + 1].kind # "turn_end")
<1>1. 1..(m + 1) = (1..m) \cup {m + 1} /\ (m + 1)..(m + 1) = {m + 1}
  OBVIOUS
<1>2. \A i \in 1..m : i..(m + 1) = (i..m) \cup {m + 1}
  OBVIOUS
<1>3. OpenAfter(L, m + 1) <=>
        \E i \in (1..m) \cup {m + 1} : L[i].kind = "user" /\ \A j \in i..(m + 1) : L[j].kind # "turn_end"
  BY <1>1 DEF OpenAfter
<1>4. (L[m + 1].kind = "user" /\ \A j \in (m + 1)..(m + 1) : L[j].kind # "turn_end")
        <=> L[m + 1].kind = "user"
  BY <1>1
<1>5. \A i \in 1..m :
        (\A j \in i..(m + 1) : L[j].kind # "turn_end")
          <=> (\A j \in i..m : L[j].kind # "turn_end") /\ L[m + 1].kind # "turn_end"
  BY <1>2
<1>6. OpenAfter(L, m) <=> \E i \in 1..m : L[i].kind = "user" /\ \A j \in i..m : L[j].kind # "turn_end"
  BY DEF OpenAfter
<1> QED BY <1>3, <1>4, <1>5, <1>6

LEMMA Appended ==
  ASSUME NEW v \in Seq(Nat), NEW n \in Nat
  PROVE  /\ Append(v, n) \in Seq(Nat) /\ Len(Append(v, n)) = Len(v) + 1
         /\ Append(v, n)[Len(v) + 1] = n /\ \A i \in 1..Len(v) : Append(v, n)[i] = v[i]
OBVIOUS

LEMMA ReceiveKeeps == ASSUME IInv, PInv, NEW c \in Clients, Receive(c) PROVE PInv'
<1>1. PICK q \in Pages : q = page[c] /\ PageOk(alive, made, log, q, shown[c], stream[c])
  BY PageFacts
<1> DEFINE s == q.sess
<1>2. PICK id \in DOMAIN log[s] :
        /\ Sends(c, id)
        /\ \/ /\ id > q.max
              /\ page' = [page EXCEPT ![c] = [Fold(@, log[s][id]) EXCEPT
                            !.last = id, !.max = id, !.astray = FALSE]]
              /\ shown' = [shown EXCEPT ![c] = Append(@, id)]
           \/ ~(id > q.max) /\ page' = [page EXCEPT ![c].last = id] /\ UNCHANGED shown
  BY <1>1 DEF Receive
<1>3. UNCHANGED <<alive, made, log, cur, home, tasks, stop, mishaps>>
  BY DEF Receive
<1>4. /\ q.max \in Nat /\ q.last \in Nat /\ Len(log[s]) \in Nat /\ id \in Nat
      /\ shown[c] \in Seq(Nat) /\ stream[c] \in Streams
  BY <1>1, PageFacts
<1>5. PICK x \in Streams :
        /\ stream' = [stream EXCEPT ![c] = x] /\ x.sess = stream[c].sess /\ stream[c].sess # None
        /\ \/ /\ stream[c].rest # <<>> /\ id = Head(stream[c].rest)
              /\ x.rest = Tail(stream[c].rest) /\ x.q = stream[c].q /\ x.seen = stream[c].seen
           \/ /\ stream[c].rest = <<>> /\ stream[c].q # <<>> /\ id = Head(stream[c].q)
              /\ x.rest = <<>> /\ x.q = Tail(stream[c].q) /\ x.seen = id
  BY <1>2, <1>4, SendsTyped
<1>6. s \in alive /\ q.es
  BY <1>1, <1>5 DEF PageOk, Attached
<1>7. ASSUME ~q.stale
      PROVE  /\ id = q.last + 1 /\ id <= Len(log[s])
             /\ Len(x.rest) + id = x.seen /\ Counts(x.rest, id)
             /\ Len(x.q) + x.seen = Len(log[s]) /\ Counts(x.q, x.seen)
  <2>1. Carries(log, q, stream[c])
    BY <1>1, <1>7 DEF PageOk
  <2> QED BY <1>4, <1>5, <2>1, FrameIsNext
<1>8. ASSUME ~q.stale
      PROVE  /\ q.max = Len(shown[c]) /\ \A i \in 1..Len(shown[c]) : shown[c][i] = i
             /\ q.last <= q.max /\ (q.active <=> OpenAfter(log[s], q.max))
             /\ q.max <= Len(log[s])
  BY <1>1, <1>6, <1>8 DEF PageOk, Follows
<1>9. CASE /\ id > q.max
           /\ page' = [page EXCEPT ![c] = [Fold(@, log[s][id]) EXCEPT
                         !.last = id, !.max = id, !.astray = FALSE]]
           /\ shown' = [shown EXCEPT ![c] = Append(@, id)]
  <2> DEFINE kind == log[s][id].kind
  <2>1. PICK open \in BOOLEAN :
          /\ open = CASE kind = "user" -> TRUE [] kind = "turn_end" -> FALSE [] OTHER -> q.active
          /\ open <=> kind = "user" \/ (q.active /\ kind # "turn_end")
    BY DEF Pages
  <2>2. PICK p \in Pages :
          p = [[q EXCEPT !.active = open, !.busy = open] EXCEPT !.last = id, !.max = id, !.astray = FALSE]
    BY <1>4 DEF Pages
  <2>3. page' = [page EXCEPT ![c] = p]
    BY <1>1, <1>9, <2>1, <2>2 DEF Fold, PInv, PagesTyped
  <2>4. /\ p.sess = s /\ p.last = id /\ p.max = id /\ p.active = open /\ p.busy = open
        /\ p.post = q.post /\ p.to = q.to /\ p.stale = q.stale /\ p.es = q.es
    BY <1>4, <2>2 DEF Pages
  <2> HIDE DEF s, kind
  <2>5. PICK sh \in Seq(Nat) :
          /\ sh = Append(shown[c], id) /\ Len(sh) = Len(shown[c]) + 1 /\ sh[Len(shown[c]) + 1] = id
          /\ \A i \in 1..Len(shown[c]) : sh[i] = shown[c][i]
    <3>1. PICK v \in Seq(Nat) : v = shown[c]
      BY <1>4
    <3>2. /\ Append(v, id) \in Seq(Nat) /\ Len(Append(v, id)) = Len(v) + 1
          /\ Append(v, id)[Len(v) + 1] = id /\ \A i \in 1..Len(v) : Append(v, id)[i] = v[i]
      BY <1>4, Appended
    <3> QED BY <3>1, <3>2
  <2>6. shown' = [shown EXCEPT ![c] = sh]
    BY <1>9, <2>5 DEF PInv, PagesTyped
  <2>7. Attached(alive, made, p, x) /\ Awaits(alive, log, p)
    BY <1>1, <1>4, <1>5, <1>6, <1>9, <2>4 DEF PageOk, Attached, Awaits, s
  <2>8. ASSUME ~p.stale PROVE Follows(alive, log, p, sh) /\ Carries(log, p, x)
    <3>1. id = q.max + 1
      <4>1. id = q.last + 1 /\ q.last <= q.max /\ id > q.max
        BY <1>7, <1>8, <1>9, <2>4, <2>8
      <4> QED BY <1>4, <4>1
    <3>2. open <=> OpenAfter(log[s], id)
      BY <1>4, <1>8, <2>1, <2>4, <2>8, <3>1, OpenStep DEF kind
    <3>3. Len(sh) = id /\ \A i \in 1..Len(sh) : sh[i] = i
      <4>1. q.max = Len(shown[c]) /\ \A i \in 1..Len(shown[c]) : shown[c][i] = i
        BY <1>8, <2>4, <2>8
      <4>2. Len(sh) = id /\ \A i \in 1..id : i \in 1..Len(shown[c]) \/ i = Len(shown[c]) + 1
        BY <1>4, <2>5, <3>1, <4>1
      <4> QED BY <2>5, <3>1, <4>1, <4>2
    <3>4. Follows(alive, log, p, sh)
      BY <1>4, <1>7, <2>4, <2>8, <3>2, <3>3 DEF Follows
    <3>5. Carries(log, p, x)
      BY <1>7, <2>4, <2>8 DEF Carries
    <3> QED BY <3>4, <3>5
  <2>9. PageOk(alive, made, log, p, sh, x)
    BY <2>7, <2>8 DEF PageOk
  <2> QED BY <1>3, <1>5, <2>3, <2>6, <2>9, MishapsBounded, OnePageSteps
<1>10. CASE ~(id > q.max) /\ page' = [page EXCEPT ![c].last = id] /\ UNCHANGED shown
  <2>1. PICK p \in Pages : p = [q EXCEPT !.last = id]
    BY <1>4 DEF Pages
  <2>2. page' = [page EXCEPT ![c] = p] /\ shown' = [shown EXCEPT ![c] = shown[c]]
    BY <1>1, <1>10, <2>1 DEF PInv, PagesTyped
  <2>3. /\ p.sess = s /\ p.last = id /\ p.max = q.max /\ p.active = q.active /\ p.busy = q.busy
        /\ p.post = q.post /\ p.to = q.to /\ p.stale = q.stale /\ p.astray = q.astray /\ p.es = q.es
    BY <1>4, <2>1 DEF Pages
  <2> HIDE DEF s
  <2>4. Attached(alive, made, p, x) /\ Awaits(alive, log, p)
    BY <1>1, <1>5, <2>3 DEF PageOk, Attached, Awaits, Asked, s
  <2>5. ASSUME ~p.stale PROVE Follows(alive, log, p, shown[c]) /\ Carries(log, p, x)
    <3>1. id <= q.max
      BY <1>4, <1>10
    <3> QED BY <1>7, <1>8, <2>3, <2>5, <3>1 DEF Follows, Carries
  <2>6. PageOk(alive, made, log, p, shown[c], x)
    BY <2>4, <2>5 DEF PageOk
  <2> QED BY <1>3, <1>4, <1>5, <2>2, <2>6, MishapsBounded, OnePageSteps
<1> QED BY <1>2, <1>9, <1>10

-----------------------------------------------------------------------------
(* Prompts. *)

(* A page makes up its mind about a prompt or a new session. *)
LEMMA PageDecides ==
  ASSUME IInv, PInv, NEW c \in Clients, UNCHANGED <<server, shown>>, Mishap \/ UNCHANGED mishaps,
         NEW q \in Pages, q = page[c], NEW p \in Pages, page' = [page EXCEPT ![c] = p],
         p.sess = q.sess, p.last = q.last, p.max = q.max, p.active = q.active,
         p.stale = q.stale, p.es = q.es,
         p.active => p.busy, p.to <= made,
         p.post \in {"gone", "reopening"} => p.to \notin alive,
         Awaits(alive, log, p)
  PROVE  PInv'
<1>1. PageOk(alive, made, log, q, shown[c], stream[c])
  BY PageFacts
<1>2. Attached(alive, made, p, stream[c])
  BY <1>1 DEF PageOk, Attached
<1>3. ~p.stale => Follows(alive, log, p, shown[c]) /\ Carries(log, p, stream[c])
  BY <1>1 DEF PageOk, Follows, Carries
<1>4. PageOk(alive, made, log, p, shown[c], stream[c])
  BY <1>2, <1>3 DEF PageOk
<1> QED BY <1>4, MishapsBounded, OnePageChanges

LEMMA SubmitKeeps == ASSUME IInv, PInv, NEW c \in Clients, Submit(c) PROVE PInv'
<1>1. PICK q \in Pages : q = page[c] /\ PageOk(alive, made, log, q, shown[c], stream[c])
  BY PageFacts
<1>2. PICK p \in Pages : p = [q EXCEPT !.busy = TRUE, !.post = "sent", !.to = q.sess]
  BY DEF Pages, Posts
<1>3. page' = [page EXCEPT ![c] = p]
  BY <1>1, <1>2 DEF Submit, PInv, PagesTyped
<1>4. /\ p.sess = q.sess /\ p.last = q.last /\ p.max = q.max /\ p.active = q.active
      /\ p.stale = q.stale /\ p.es = q.es /\ p.busy /\ p.post = "sent" /\ p.to = p.sess
  BY <1>2 DEF Pages
<1>5. p.to <= made /\ Awaits(alive, log, p)
  BY <1>1, <1>4 DEF PageOk, Attached, Awaits, Asked
<1> QED BY <1>1, <1>3, <1>4, <1>5, PageDecides DEF Submit

LEMMA HearKeeps == ASSUME IInv, PInv, NEW c \in Clients, Hear(c) PROVE PInv'
<1>1. PICK q \in Pages : q = page[c] /\ PageOk(alive, made, log, q, shown[c], stream[c]) /\ made \in Nat
  BY PageFacts
<1>2. CASE q.post \in {"started", "busy"} /\ page' = [page EXCEPT ![c].post = "none", ![c].to = None]
  <2>1. PICK p \in Pages : p = [q EXCEPT !.post = "none", !.to = None]
    BY DEF Pages, Posts
  <2>2. page' = [page EXCEPT ![c] = p]
    BY <1>1, <1>2, <2>1 DEF PInv, PagesTyped
  <2>3. /\ p.sess = q.sess /\ p.last = q.last /\ p.max = q.max /\ p.active = q.active /\ p.busy = q.busy
        /\ p.stale = q.stale /\ p.astray = q.astray /\ p.es = q.es /\ p.post = "none" /\ p.to = None
    BY <2>1 DEF Pages
  <2>4. p.to <= made /\ (p.active => p.busy) /\ Awaits(alive, log, p)
    BY <1>1, <1>2, <2>3 DEF PageOk, Attached, Awaits, Asked, None
  <2> QED BY <1>1, <2>2, <2>3, <2>4, PageDecides DEF Hear
<1>3. CASE /\ q.post = "gone"
           /\ page' = [page EXCEPT ![c].post = "reopening", ![c].saved = FALSE, ![c].link = "connecting"]
  <2>1. PICK p \in Pages : p = [q EXCEPT !.post = "reopening", !.saved = FALSE, !.link = "connecting"]
    BY DEF Pages, Posts
  <2>2. page' = [page EXCEPT ![c] = p]
    BY <1>1, <1>3, <2>1 DEF PInv, PagesTyped
  <2>3. /\ p.sess = q.sess /\ p.last = q.last /\ p.max = q.max /\ p.active = q.active /\ p.busy = q.busy
        /\ p.stale = q.stale /\ p.astray = q.astray /\ p.es = q.es /\ p.post = "reopening" /\ p.to = q.to
    BY <2>1 DEF Pages
  <2>4. p.to <= made /\ (p.active => p.busy) /\ p.to \notin alive /\ Awaits(alive, log, p)
    BY <1>1, <1>3, <2>3 DEF PageOk, Attached, Awaits, Asked
  <2> QED BY <1>1, <2>2, <2>3, <2>4, PageDecides DEF Hear
<1> QED BY <1>1, <1>2, <1>3 DEF Hear

LEMMA ReopenFailsKeeps == ASSUME IInv, PInv, NEW c \in Clients, ReopenFails(c) PROVE PInv'
<1>1. PICK q \in Pages : q = page[c] /\ PageOk(alive, made, log, q, shown[c], stream[c])
  BY PageFacts
<1>2. PICK p \in Pages :
        p = [q EXCEPT !.post = "resent", !.to = q.sess, !.link = "error", !.astray = FALSE]
  BY DEF Pages, Posts
<1>3. page' = [page EXCEPT ![c] = p]
  BY <1>1, <1>2 DEF ReopenFails, PInv, PagesTyped
<1>4. /\ p.sess = q.sess /\ p.last = q.last /\ p.max = q.max /\ p.active = q.active /\ p.busy = q.busy
      /\ p.stale = q.stale /\ p.es = q.es /\ p.post = "resent" /\ p.to = p.sess
  BY <1>2 DEF Pages
<1>5. p.to <= made /\ (p.active => p.busy) /\ Awaits(alive, log, p)
  BY <1>1, <1>4 DEF PageOk, Attached, Awaits, Asked
<1> QED BY <1>1, <1>3, <1>4, <1>5, PageDecides DEF ReopenFails

LEMMA PromptLostKeeps == ASSUME IInv, PInv, NEW c \in Clients, PromptLost(c) PROVE PInv'
<1>1. PICK q \in Pages : q = page[c] /\ PageOk(alive, made, log, q, shown[c], stream[c]) /\ made \in Nat
  BY PageFacts
<1>2. PICK p \in Pages :
        p = [q EXCEPT !.post = "none", !.to = None, !.busy = q.active, !.astray = FALSE]
  BY DEF Pages, Posts
<1>3. page' = [page EXCEPT ![c] = p]
  BY <1>1, <1>2 DEF PromptLost, PInv, PagesTyped
<1>4. /\ p.sess = q.sess /\ p.last = q.last /\ p.max = q.max /\ p.active = q.active /\ p.busy = q.active
      /\ p.stale = q.stale /\ p.es = q.es /\ p.post = "none" /\ p.to = None
  BY <1>2 DEF Pages
<1>5. p.to <= made /\ (p.active => p.busy) /\ Awaits(alive, log, p)
  BY <1>1, <1>4 DEF Awaits, None
<1> QED BY <1>1, <1>3, <1>4, <1>5, PageDecides DEF PromptLost

LEMMA OpenFailsKeeps == ASSUME IInv, PInv, NEW c \in Clients, OpenFails(c) PROVE PInv'
<1>1. PICK q \in Pages : q = page[c] /\ PageOk(alive, made, log, q, shown[c], stream[c])
  BY PageFacts
<1>2. PICK t \in Nat : t = q.opening - 1
  BY <1>1 DEF OpenFails, Pages
<1>3. PICK p \in Pages : p = [q EXCEPT !.opening = t, !.link = "error"]
  BY DEF Pages
<1>4. page' = [page EXCEPT ![c] = p]
  BY <1>1, <1>2, <1>3 DEF OpenFails, PInv, PagesTyped
<1>5. /\ p.sess = q.sess /\ p.last = q.last /\ p.max = q.max /\ p.active = q.active /\ p.busy = q.busy
      /\ p.stale = q.stale /\ p.astray = q.astray /\ p.es = q.es /\ p.post = q.post /\ p.to = q.to
  BY <1>3 DEF Pages
<1>6. PageOk(alive, made, log, p, shown[c], stream[c])
  BY <1>1, <1>5, SameConcerns
<1> QED BY <1>4, <1>6, MishapsBounded, OnePageChanges DEF OpenFails

(* A page that has all there is of a session whose turn runs shows it. *)
LEMMA RunningIsOpen ==
  ASSUME IInv, LastInv, NEW s \in Sessions, TurnActive(s)
  PROVE  OpenAfter(log[s], Len(log[s]))
<1> DEFINE n == cur[s]
           L == log[s]
<1>1. n \in Turns /\ n # None /\ turn[n] # "over" /\ L \in Seq(Events)
  BY DEF TurnActive, IInv, TurnsTyped, ActivePhases
<1>2. PICK i \in DOMAIN L : L[i] = [kind |-> "user", turn |-> n]
  BY <1>1 DEF LastInv
<1>3. ASSUME NEW j \in i..Len(L), L[j].kind = "turn_end" PROVE FALSE
  <2>1. i \in 1..Len(L) /\ j \in 1..Len(L) /\ j \in DOMAIN L /\ Len(L) \in Nat
    BY <1>1, <1>2
  <2>2. i # j /\ i < j
    BY <1>2, <1>3, <2>1
  <2>3. L[j] \in Events
    BY <1>1, <2>1
  <2>4. L[j].turn \in Turns /\ L[i].turn = n
    BY <1>2, <2>3 DEF Events
  <2>5. n <= L[j].turn
    BY <2>1, <2>2, <2>4 DEF IInv, InOrder
  <2>6. L[j].turn <= n /\ turn[L[j].turn] = "over"
    BY <1>3, <2>1 DEF IInv, LogInv
  <2>7. L[j].turn = n
    BY <1>1, <2>4, <2>5, <2>6 DEF Turns
  <2> QED BY <1>1, <2>6, <2>7
<1>4. i \in 1..Len(L) /\ L[i].kind = "user"
  BY <1>1, <1>2
<1> QED BY <1>3, <1>4 DEF OpenAfter

(* The prompt starts a turn, or finds one: there are events to come unless  *)
(* the page shows that one already.                                         *)
LEMMA AnswerRefusedKeeps ==
  ASSUME IInv, PInv, NEW c \in Clients, UNCHANGED <<server, shown, mishaps>>,
         page[c].post \in {"sent", "resent"}, NEW word \in {"gone", "busy", "started"},
         page' = [page EXCEPT ![c].post = word],
         page[c].to \in alive => word # "gone" /\ TurnActive(page[c].to)
  PROVE  PInv'
<1>1. PICK q \in Pages : q = page[c] /\ PageOk(alive, made, log, q, shown[c], stream[c]) /\ q.sess \in Sessions
                         /\ q.max \in Nat /\ log[q.sess] \in Seq(Events)
  BY PageFacts
<1>2. PICK p \in Pages : p = [q EXCEPT !.post = word]
  BY DEF Pages, Posts
<1>3. page' = [page EXCEPT ![c] = p]
  BY <1>1, <1>2 DEF PInv, PagesTyped
<1>4. /\ p.sess = q.sess /\ p.last = q.last /\ p.max = q.max /\ p.active = q.active /\ p.busy = q.busy
      /\ p.stale = q.stale /\ p.astray = q.astray /\ p.es = q.es /\ p.post = word /\ p.to = q.to
  BY <1>2 DEF Pages
<1>5. p.to <= made /\ (p.active => p.busy) /\ (p.post = "gone" => p.to \notin alive)
  BY <1>1, <1>4 DEF PageOk, Attached
<1>6. Awaits(alive, log, p)
  <2>1. SUFFICES ASSUME p.sess \in alive, p.busy, ~p.active, ~p.astray
                 PROVE  (IF p.stale THEN 0 ELSE p.max) < Len(log[p.sess])
    BY DEF Awaits
  <2>2. CASE q.to # q.sess
    BY <1>1, <1>4, <2>1, <2>2 DEF PageOk, Awaits, Asked
  <2>3. CASE q.to = q.sess
    <3>1. OpenAfter(log[q.sess], Len(log[q.sess]))
      BY <1>1, <1>4, <2>1, <2>3, RunningIsOpen DEF PInv
    <3>2. Len(log[q.sess]) \in Nat /\ Len(log[q.sess]) # 0
      BY <1>1, <3>1 DEF OpenAfter
    <3>3. ASSUME ~q.stale PROVE q.max <= Len(log[q.sess]) /\ q.max # Len(log[q.sess])
      BY <1>1, <1>4, <2>1, <3>1, <3>3 DEF PageOk, Follows
    <3> QED BY <1>1, <1>4, <3>2, <3>3
  <2> QED BY <2>2, <2>3
<1> QED BY <1>1, <1>3, <1>4, <1>5, <1>6, PageDecides

(* A turn that starts is the last of its session, and its prompt is logged. *)
LEMMA StartKeepsLast ==
  ASSUME IInv, LastInv, NEW s \in alive, StartTurn(s)
  PROVE  LastInv'
<1>1. PICK n \in Turns :
        /\ turn[n] = "none" /\ turn' = [turn EXCEPT ![n] = "created"]
        /\ home' = [home EXCEPT ![n] = s] /\ cur' = [cur EXCEPT ![s] = n]
        /\ AddEvents(n, s, <<"user">>) /\ UNCHANGED alive
  BY DEF StartTurn
<1>2. PICK kinds \in Seq(Kinds) : kinds = <<"user">>
  <2>1. <<"user">> \in Seq(Kinds)
    BY WordsTyped DEF Kinds
  <2> QED BY <2>1
<1>3. AddEvents(n, s, kinds) /\ s \in Sessions /\ n # None
  BY <1>1, <1>2 DEF IInv, TurnsTyped, Turns, None
<1>4. \A t \in Sessions \ {s} : log'[t] = log[t] /\ cur'[t] = cur[t]
  BY <1>1, <1>3, AddEventsAppends DEF IInv, TurnsTyped
<1>5. cur'[s] = n /\ home'[n] = s /\ \A m \in Turns \ {n} : home'[m] = home[m] /\ turn'[m] = turn[m]
  BY <1>1, <1>3 DEF IInv, TurnsTyped
<1>6. \E i \in DOMAIN log'[s] : log'[s][i] = [kind |-> "user", turn |-> n]
  <2>1. /\ log' \in [Sessions -> Seq(Events)] /\ Len(log'[s]) = Len(log[s]) + Len(kinds)
        /\ \A i \in 1..Len(kinds) : log'[s][Len(log[s]) + i] = [kind |-> kinds[i], turn |-> n]
    BY <1>3, AddEventsAppends DEF IInv
  <2>2. Len(kinds) = 1 /\ kinds[1] = "user" /\ Len(log[s]) \in Nat /\ log'[s] \in Seq(Events)
    BY <1>2, <1>3, <2>1 DEF IInv, TurnsTyped
  <2>3. Len(log[s]) + 1 \in DOMAIN log'[s]
    BY <2>1, <2>2
  <2> QED BY <2>1, <2>2, <2>3
<1>7. \A t \in Sessions : cur[t] # None => cur[t] \in Turns \ {n}
  BY <1>1 DEF IInv, TurnsTyped, NumberInv
<1>8. \A t \in Sessions : cur'[t] # None =>
        /\ home'[cur'[t]] = t
        /\ \E i \in DOMAIN log'[t] : log'[t][i] = [kind |-> "user", turn |-> cur'[t]]
  <2>1. TAKE t \in Sessions
  <2>2. CASE t = s
    BY <1>5, <1>6, <2>2
  <2>3. CASE t # s
    BY <1>4, <1>5, <1>7, <2>3 DEF LastInv
  <2> QED BY <2>2, <2>3
<1>9. \A m \in Turns : turn'[m] # "none" /\ home'[m] \in alive' => cur'[home'[m]] # None
  <2>1. SUFFICES ASSUME NEW m \in Turns, turn'[m] # "none", home'[m] \in alive'
                 PROVE  cur'[home'[m]] # None
    OBVIOUS
  <2>2. CASE home'[m] = s
    BY <1>3, <1>5, <2>2
  <2>3. CASE home'[m] # s
    <3>1. m # n /\ home[m] = home'[m] /\ turn[m] # "none" /\ home[m] \in Sessions
      BY <1>1, <1>5, <2>1, <2>3 DEF IInv, TurnsTyped
    <3> QED BY <1>1, <1>4, <2>1, <2>3, <3>1 DEF LastInv
  <2> QED BY <2>2, <2>3
<1> QED BY <1>1, <1>3, <1>4, <1>8, <1>9 DEF LastInv

LEMMA AnswerStartedKeeps ==
  ASSUME IInv, StopInv, PInv, NEW c \in Clients, UNCHANGED <<shown, mishaps>>,
         page[c].post \in {"sent", "resent"}, page' = [page EXCEPT ![c].post = "started"],
         page[c].to \in alive, StartTurn(page[c].to)
  PROVE  PInv'
<1>1. PICK s \in alive : s = page[c].to
  OBVIOUS
<1>2. PICK n \in Turns :
        turn[n] = "none" /\ home' = [home EXCEPT ![n] = s]
        /\ AddEvents(n, s, <<"user">>) /\ UNCHANGED <<alive, made, cut, stop>>
  BY <1>1 DEF StartTurn
<1>3. PICK kinds \in Seq(Kinds) : kinds = <<"user">> /\ Len(kinds) = 1
  <2>1. <<"user">> \in Seq(Kinds) /\ Len(<<"user">>) = 1
    BY WordsTyped DEF Kinds
  <2> QED BY <2>1
<1>4. /\ stream' \in [Clients -> Streams] /\ Len(log'[s]) = Len(log[s]) + 1
      /\ \A d \in Clients : PageOk(alive, made, log', page[d], shown[d], stream'[d])
  BY <1>2, <1>3, PageFed
<1>5. PICK q \in Pages : q = page[c] /\ q.max \in Nat
                         /\ PageOk(alive, made, log, q, shown[c], stream[c])
                         /\ PageOk(alive, made, log', q, shown[c], stream'[c])
  BY <1>4, PageFacts
<1>6. PICK p \in Pages : p = [q EXCEPT !.post = "started"]
  BY DEF Pages, Posts
<1>7. page' = [page EXCEPT ![c] = p]
  BY <1>5, <1>6 DEF PInv, PagesTyped
<1>8. /\ p.sess = q.sess /\ p.last = q.last /\ p.max = q.max /\ p.active = q.active /\ p.busy = q.busy
      /\ p.stale = q.stale /\ p.astray = q.astray /\ p.es = q.es /\ p.post = "started" /\ p.to = q.to
  BY <1>6 DEF Pages
<1>9. Awaits(alive, log', p)
  <2>1. CASE q.to # q.sess
    BY <1>5, <1>8, <2>1 DEF PageOk, Awaits, Asked
  <2>2. CASE q.to = q.sess
    <3>1. Len(log[s]) \in Nat
      BY <1>1 DEF IInv, TurnsTyped
    <3>2. ~q.stale => q.max <= Len(log[s])
      BY <1>1, <1>5, <2>2 DEF PageOk, Follows
    <3> QED BY <1>1, <1>4, <1>5, <1>8, <2>2, <3>1, <3>2 DEF Awaits
  <2> QED BY <2>1, <2>2
<1>10. PageOk(alive, made, log', p, shown[c], stream'[c])
  BY <1>5, <1>8, <1>9 DEF PageOk, Attached, Follows, Carries
<1>11. \A d \in Clients : PageInv(d)'
  <2>1. TAKE d \in Clients
  <2>2. CASE d = c
    <3>1. page'[d] = p
      BY <1>7, <2>2 DEF PInv, PagesTyped
    <3> QED BY <1>2, <1>10, <2>2, <3>1 DEF PageInv
  <2>3. CASE d # c
    <3>1. page'[d] = page[d]
      BY <1>7, <2>3 DEF PInv, PagesTyped
    <3> QED BY <1>2, <1>4, <3>1 DEF PageInv
  <2> QED BY <2>2, <2>3
<1>12. PagesTyped'
  BY <1>4, <1>7 DEF PInv, PagesTyped
<1>13. StopsLive'
  <2>1. \A m \in Turns : turn[m] # "none" => home'[m] = home[m]
    BY <1>2 DEF IInv, TurnsTyped
  <2> QED BY <1>2, <2>1, StopsKept DEF PInv
<1> QED BY <1>1, <1>11, <1>12, <1>13, StartKeepsLast DEF PInv

LEMMA AnswerKeeps == ASSUME IInv, StopInv, PInv, NEW c \in Clients, Answer(c) PROVE PInv'
<1>1. PICK q \in Pages : q = page[c]
  BY PageFacts
<1>2. /\ UNCHANGED <<shown, mishaps>> /\ q.post \in {"sent", "resent"}
      /\ \E word \in {"gone", "busy", "started"} :
           /\ page' = [page EXCEPT ![c].post = IF @ = "resent" THEN "started" ELSE word]
           /\ \/ word = "gone" /\ q.to \notin alive /\ UNCHANGED server
              \/ word = "busy" /\ q.to \in alive /\ TurnActive(q.to) /\ UNCHANGED server
              \/ word = "started" /\ q.to \in alive /\ StartTurn(q.to)
  BY <1>1 DEF Answer
<1>3. PICK word \in {"gone", "busy", "started"} :
        /\ page' = [page EXCEPT ![c].post = IF q.post = "resent" THEN "started" ELSE word]
        /\ \/ word = "gone" /\ q.to \notin alive /\ UNCHANGED server
           \/ word = "busy" /\ q.to \in alive /\ TurnActive(q.to) /\ UNCHANGED server
           \/ word = "started" /\ q.to \in alive /\ StartTurn(q.to)
  BY <1>1, <1>2
<1>4. PICK said \in {"gone", "busy", "started"} : said = IF q.post = "resent" THEN "started" ELSE word
  OBVIOUS
<1>5. page' = [page EXCEPT ![c].post = said]
  BY <1>3, <1>4
<1>6. CASE word = "started"
  BY <1>1, <1>2, <1>3, <1>4, <1>5, <1>6, AnswerStartedKeeps
<1>7. CASE word # "started"
  <2>1. UNCHANGED server /\ (q.to \in alive => said # "gone" /\ TurnActive(q.to))
    BY <1>3, <1>4, <1>7
  <2> QED BY <1>1, <1>2, <1>5, <2>1, AnswerRefusedKeeps
<1> QED BY <1>6, <1>7

-----------------------------------------------------------------------------
(* New sessions. *)

LEMMA StartOverKeeps == ASSUME IInv, PInv, NEW c \in Clients, StartOver(c) PROVE PInv'
<1>1. PICK q \in Pages : q = page[c] /\ PageOk(alive, made, log, q, shown[c], stream[c]) /\ ~q.busy
                         /\ log[q.sess] \in Seq(Events)
  BY PageFacts DEF StartOver
<1> DEFINE k == q.opening + 1
<1>2. PICK p \in Pages :
        p = [q EXCEPT !.max = 0, !.active = FALSE, !.opening = k, !.link = "connecting",
                      !.es = FALSE, !.saved = FALSE, !.last = 0, !.stale = FALSE]
  <2>1. k \in Nat
    BY DEF Pages
  <2> HIDE DEF k
  <2> QED BY <2>1 DEF Pages
<1>3. [Asks(Cleared(q)) EXCEPT !.es = FALSE, !.saved = FALSE, !.last = 0, !.stale = FALSE] = p
  BY <1>2 DEF Asks, Cleared, Pages
<1>4. page' = [page EXCEPT ![c] = p]
  BY <1>1, <1>3 DEF StartOver, PInv, PagesTyped
<1>5. /\ p.sess = q.sess /\ p.max = 0 /\ p.active = FALSE /\ p.busy = q.busy /\ p.post = q.post
      /\ p.to = q.to /\ p.es = FALSE
  BY <1>2 DEF Pages
<1>6. Awaits(alive, log, p) /\ (p.active => p.busy /\ p.max # 0)
  BY <1>1, <1>5 DEF Awaits
<1>7. Follows(alive, log, p, <<>>)
  BY <1>1, <1>5, NothingAttached DEF Follows, OpenAfter
<1> QED BY <1>1, <1>4, <1>5, <1>6, <1>7, NothingAttached, Unattached DEF StartOver

(* What a page without a transcript is busy with has been logged, unless it *)
(* comes from a transcript that began elsewhere.                            *)
LEMMA ReconnectKeeps == ASSUME IInv, PInv, NEW c \in Clients, Reconnect(c) PROVE PInv'
<1>1. PICK q \in Pages : q = page[c] /\ PageOk(alive, made, log, q, shown[c], stream[c])
                         /\ log[q.sess] \in Seq(Events) /\ q.max \in Nat
  BY PageFacts
<1>2. PICK b \in BOOLEAN : b <=> q.astray \/ (q.stale /\ q.active)
  OBVIOUS
<1>3. PICK r \in Pages : r = [q EXCEPT !.max = 0, !.active = FALSE, !.astray = b]
  BY DEF Pages
<1>4. [Cleared(q) EXCEPT !.astray = @ \/ (q.stale /\ q.active)] = r
  BY <1>2, <1>3 DEF Cleared, Pages
<1>5. /\ r.sess = q.sess /\ r.last = q.last /\ r.max = 0 /\ r.active = FALSE /\ r.busy = q.busy
      /\ r.post = q.post /\ r.to = q.to /\ r.stale = q.stale /\ r.astray = b /\ r.es = q.es
      /\ r.timers = q.timers /\ r.opening = q.opening
  BY <1>3 DEF Pages
<1>6. q.sess \in alive /\ q.busy /\ ~b /\ ~Asked(q) => 0 < Len(log[q.sess])
  <2>1. Len(log[q.sess]) \in Nat
    BY <1>1
  <2>2. CASE q.active
    BY <1>1, <1>2, <2>1, <2>2 DEF PageOk, Attached, Follows
  <2>3. CASE ~q.active
    BY <1>1, <1>2, <2>1, <2>3 DEF PageOk, Awaits
  <2> QED BY <2>2, <2>3
<1>7. CASE /\ page' = [page EXCEPT ![c] = [AttachTo(r, r.sess) EXCEPT !.stale = FALSE]]
           /\ Disconnect(c)
  <2>1. PICK p \in Pages : p = [r EXCEPT !.last = 0, !.es = TRUE, !.link = "connecting", !.stale = FALSE]
    BY DEF Pages
  <2>2. [AttachTo(r, r.sess) EXCEPT !.stale = FALSE] = p
    BY <2>1 DEF AttachTo, Pages
  <2>3. page' = [page EXCEPT ![c] = p]
    BY <1>7, <2>2
  <2>4. /\ p.sess = q.sess /\ p.last = 0 /\ p.max = 0 /\ p.active = FALSE /\ p.busy = q.busy
        /\ p.post = q.post /\ p.to = q.to /\ p.astray = b
    BY <1>5, <2>1 DEF Pages
  <2>5. Awaits(alive, log, p) /\ (p.active => p.busy /\ p.max # 0)
    BY <1>6, <2>4 DEF Awaits, Asked
  <2>6. Follows(alive, log, p, <<>>)
    BY <1>1, <2>4, NothingAttached DEF Follows, OpenAfter
  <2> QED BY <1>1, <1>7, <2>3, <2>4, <2>5, <2>6, NothingAttached, Unattached DEF Reconnect
<1>8. CASE /\ page' = [page EXCEPT ![c] = [Asks(r) EXCEPT !.stale = r.es]]
           /\ UNCHANGED stream
  <2> DEFINE k == r.opening + 1
  <2>1. PICK p \in Pages : p = [r EXCEPT !.opening = k, !.link = "connecting", !.stale = r.es]
    <3>1. k \in Nat /\ r.es \in BOOLEAN
      BY DEF Pages
    <3> HIDE DEF k
    <3> QED BY <3>1 DEF Pages
  <2>2. [Asks(r) EXCEPT !.stale = r.es] = p
    BY <2>1 DEF Asks, Pages
  <2>3. page' = [page EXCEPT ![c] = p]
    BY <1>8, <2>2
  <2>4. /\ p.sess = q.sess /\ p.max = 0 /\ p.active = FALSE /\ p.busy = q.busy
        /\ p.post = q.post /\ p.to = q.to /\ p.astray = b /\ p.es = q.es /\ p.stale = q.es
    BY <1>5, <2>1 DEF Pages
  <2>5. Awaits(alive, log, p)
    BY <1>6, <2>4 DEF Awaits, Asked
  <2>6. Attached(alive, made, p, stream[c])
    BY <1>1, <2>4 DEF PageOk, Attached
  <2>7. ~p.stale => Follows(alive, log, p, <<>>) /\ Carries(log, p, stream[c])
    BY <1>1, <2>4, NothingAttached DEF PageOk, Attached, Follows, Carries, OpenAfter
  <2>8. PageOk(alive, made, log, p, <<>>, stream[c])
    BY <2>5, <2>6, <2>7 DEF PageOk
  <2>9. stream' = [stream EXCEPT ![c] = stream[c]] /\ stream[c] \in Streams
    BY <1>8 DEF PInv, PagesTyped
  <2> QED BY <2>3, <2>8, <2>9, NothingAttached, MishapsBounded, OnePageSteps DEF Reconnect
<1>9. \/ /\ page' = [page EXCEPT ![c] = [AttachTo(r, r.sess) EXCEPT !.stale = FALSE]]
         /\ Disconnect(c)
      \/ /\ page' = [page EXCEPT ![c] = [Asks(r) EXCEPT !.stale = r.es]]
         /\ UNCHANGED stream
  BY <1>1, <1>4 DEF Reconnect
<1> QED BY <1>7, <1>8, <1>9

(* A page moves to a session that was just opened: nothing is known of it. *)
LEMMA MoveKeeps ==
  ASSUME IInv, PInv, NEW c \in Clients, NEW s \in Sessions, CreateSession(s),
         UNCHANGED <<log, cur, home, tasks, stop, mishaps>>,
         NEW p \in Pages, page' = [page EXCEPT ![c] = p],
         p.sess = s, p.last = 0, p.to <= s, p.active => p.busy /\ p.max # 0,
         p.post \in {"gone", "reopening"} => p.to # s /\ p.to \notin alive,
         Asked(p) \/ ~p.busy \/ p.astray,
         ~p.stale => p.max = 0,
         Disconnect(c), shown' = [shown EXCEPT ![c] = <<>>]
  PROVE  PInv'
<1>1. s = made + 1 /\ made' = s /\ alive' = alive \cup {s} /\ made \in Nat
  BY DEF CreateSession, IInv, TurnsTyped
<1>2. s \notin alive /\ log[s] = <<>> /\ cur[s] = None
  BY <1>1 DEF IInv, TurnsTyped, PInv, LastInv
<1>3. LastInv'
  <2>1. ASSUME NEW m \in Turns, turn[m] # "none", home[m] \in alive' PROVE home[m] \in alive
    BY <1>1, <2>1 DEF IInv, HomeInv
  <2> QED BY <1>1, <1>2, <2>1 DEF PInv, LastInv, tasks
<1>4. StopsLive'
  BY <1>1 DEF PInv, StopsLive, tasks
<1>5. /\ page'[c] = p /\ stream'[c] = Detached /\ shown'[c] = <<>>
      /\ \A d \in Clients \ {c} : page'[d] = page[d] /\ shown'[d] = shown[d] /\ stream'[d] = stream[d]
  BY DEF PInv, PagesTyped, Disconnect
<1>6. PagesTyped'
  BY NothingAttached DEF PInv, PagesTyped, Disconnect
<1>7. PageOk(alive', made', log', p, <<>>, Detached)
  <2>1. Attached(alive', made', p, Detached)
    BY <1>1, NothingAttached DEF Attached
  <2>2. Awaits(alive', log', p)
    BY DEF Awaits
  <2>3. ASSUME ~p.stale PROVE Follows(alive', log', p, <<>>) /\ Carries(log', p, Detached)
    BY <1>2, <2>3, NothingAttached DEF Follows, Carries, OpenAfter
  <2> QED BY <2>1, <2>2, <2>3 DEF PageOk
<1>8. ASSUME NEW d \in Clients, d # c PROVE PageInv(d)'
  <2>1. PICK q \in Pages : q = page[d] /\ PageOk(alive, made, log, q, shown[d], stream[d])
    BY PageFacts
  <2>2. q.sess \in Nat /\ q.to \in Nat /\ q.sess <= made /\ q.to <= made
    BY <2>1 DEF Pages, Sessions, None, PageOk, Attached
  <2>3. (q.sess \in alive' <=> q.sess \in alive) /\ (q.to \in alive' => q.to \in alive) /\ made <= made'
    BY <1>1, <2>2
  <2>4. PageOk(alive', made', log', q, shown[d], stream[d])
    BY <1>1, <2>1, <2>3, PageUntouched
  <2> QED BY <1>5, <1>8, <2>1, <2>4 DEF PageInv
<1>9. PageInv(c)'
  BY <1>5, <1>7 DEF PageInv
<1> QED BY <1>3, <1>4, <1>6, <1>8, <1>9 DEF PInv

LEMMA ReopenKeeps == ASSUME IInv, PInv, NEW c \in Clients, Reopen(c) PROVE PInv'
<1>1. PICK s \in Sessions :
        /\ CreateSession(s)
        /\ page' = [page EXCEPT ![c] = [Fresh(c, s) EXCEPT !.post = "resent", !.to = s, !.astray = FALSE]]
  BY DEF Reopen
<1>2. PICK q \in Pages : q = page[c] /\ PageOk(alive, made, log, q, shown[c], stream[c])
  BY PageFacts
<1>3. PICK b \in BOOLEAN, t \in Nat : (b <=> q.max # 0) /\ t = IF s = q.sess THEN q.timers ELSE 0
  BY DEF Pages
<1>4. PICK p \in Pages :
        p = [q EXCEPT !.sess = s, !.last = 0, !.es = TRUE, !.link = "connecting", !.timers = t,
                      !.saved = TRUE, !.stale = b, !.post = "resent", !.to = s, !.astray = FALSE]
  BY DEF Pages, Posts
<1>5. [Fresh(c, s) EXCEPT !.post = "resent", !.to = s, !.astray = FALSE] = p
  BY <1>2, <1>3, <1>4 DEF Fresh, AttachTo, Pages
<1>6. /\ p.sess = s /\ p.last = 0 /\ p.post = "resent" /\ p.to = s /\ p.stale = b /\ p.max = q.max
      /\ p.active = q.active /\ p.busy = q.busy
  BY <1>4 DEF Pages
<1>7. page' = [page EXCEPT ![c] = p]
  BY <1>1, <1>5
<1>8. (p.active => p.busy /\ p.max # 0) /\ p.to <= s /\ Asked(p) /\ (~p.stale => p.max = 0)
  BY <1>2, <1>3, <1>6 DEF PageOk, Attached, Sessions, Asked
<1>9. Disconnect(c) /\ shown' = [shown EXCEPT ![c] = <<>>] /\ UNCHANGED <<log, cur, home, tasks, stop, mishaps>>
  BY DEF Reopen
<1> QED BY <1>1, <1>6, <1>7, <1>8, <1>9, MoveKeeps

LEMMA OpenedKeeps == ASSUME IInv, PInv, NEW c \in Clients, Opened(c) PROVE PInv'
<1>1. PICK s \in Sessions :
        /\ CreateSession(s)
        /\ page' = [page EXCEPT ![c] =
             [Fresh(c, s) EXCEPT !.opening = page[c].opening - 1, !.astray = page[c].busy]]
  BY DEF Opened
<1>2. PICK q \in Pages : q = page[c] /\ PageOk(alive, made, log, q, shown[c], stream[c]) /\ made \in Nat
  BY PageFacts
<1>3. PICK b \in BOOLEAN, t \in Nat : (b <=> q.max # 0) /\ t = IF s = q.sess THEN q.timers ELSE 0
  BY DEF Pages
<1>4. PICK k \in Nat : k = q.opening - 1
  BY <1>2 DEF Opened, Pages
<1>5. PICK p \in Pages :
        p = [q EXCEPT !.sess = s, !.last = 0, !.es = TRUE, !.link = "connecting", !.timers = t,
                      !.saved = TRUE, !.stale = b, !.opening = k, !.astray = q.busy]
  <2>1. q.busy \in BOOLEAN
    BY DEF Pages
  <2> QED BY <2>1 DEF Pages
<1>6. [Fresh(c, s) EXCEPT !.opening = page[c].opening - 1, !.astray = page[c].busy] = p
  BY <1>2, <1>3, <1>4, <1>5 DEF Fresh, AttachTo, Pages
<1>7. /\ p.sess = s /\ p.last = 0 /\ p.post = q.post /\ p.to = q.to /\ p.stale = b /\ p.max = q.max
      /\ p.active = q.active /\ p.busy = q.busy /\ p.astray = q.busy
  BY <1>5 DEF Pages
<1>8. page' = [page EXCEPT ![c] = p]
  BY <1>1, <1>6
<1>9. /\ q.active => q.busy /\ q.max # 0
      /\ q.to <= made /\ (q.post \in {"gone", "reopening"} => q.to \notin alive)
  BY <1>2 DEF PageOk, Attached
<1>10. q.to <= s /\ q.to # s
  <2>1. q.to \in Nat
    BY DEF Pages, Sessions, None
  <2> QED BY <1>1, <1>2, <1>9, <2>1 DEF CreateSession
<1> QED BY <1>1, <1>3, <1>7, <1>8, <1>9, <1>10, MoveKeeps DEF Opened

-----------------------------------------------------------------------------
(* Stop, tasks and the pod. *)

(* Pages and sessions are not touched. *)
LEMMA PagesStay ==
  ASSUME PInv, UNCHANGED <<alive, made, log, page, shown, stream, mishaps>>
  PROVE  PagesTyped' /\ \A c \in Clients : PageInv(c)'
<1>1. PagesTyped'
  BY DEF PInv, PagesTyped
<1>2. ASSUME NEW c \in Clients PROVE PageInv(c)'
  <2>1. PageInv(c)
    BY DEF PInv
  <2> QED BY <2>1 DEF PageInv
<1> QED BY <1>1, <1>2

LEMMA StopKeeps == ASSUME IInv, StopInv, PInv, NEW c \in Clients, Stop(c) PROVE PInv'
<1>1. PICK r \in Stops : StopTurn(r, page[c].sess)
  BY DEF Stop
<1> DEFINE s == page[c].sess
           n == cur[s]
<1>2. /\ s \in alive /\ n \in Turns /\ turn[n] \in ActivePhases /\ home[n] \in alive /\ n # None
      /\ UNCHANGED <<alive, made, log, cur, home, turn, stream, page, shown, mishaps>>
  BY <1>1 DEF Stop, StopTurn, TurnActive, IInv, TurnsTyped, HomeInv
<1>3. \E w \in {"killing", "joining"} : stop' = [stop EXCEPT ![r] = [pc |-> w, first |-> n, turn |-> n]]
  BY <1>1 DEF StopTurn
<1>4. cut' \subseteq cut \cup {n}
  BY <1>1 DEF StopTurn
<1>5. LastInv'
  BY <1>2 DEF PInv, LastInv
<1> HIDE DEF n, s
<1>6. StopsLive'
  <2>1. cut' \subseteq Turns
    BY <1>2, <1>4 DEF PInv, StopsLive
  <2>2. ASSUME NEW q \in Stops, stop'[q].pc # "idle"
        PROVE  home[stop'[q].first] \in alive /\ stop'[q].turn # None
    <3>1. CASE q = r
      BY <1>2, <1>3, <3>1 DEF StopInv
    <3>2. CASE q # r
      BY <1>3, <2>2, <3>2 DEF StopInv, PInv, StopsLive
    <3> QED BY <3>1, <3>2
  <2> QED BY <1>2, <2>1, <2>2 DEF StopsLive
<1> QED BY <1>2, <1>5, <1>6, PagesStay DEF PInv

LEMMA StoppingKeeps == ASSUME IInv, StopInv, PInv, NEW q \in Stops, Stopping(q) PROVE PInv'
<1>1. UNCHANGED <<alive, made, log, cur, home, turn, page, shown, stream, mishaps>>
  BY DEF Stopping, StopResumes, StopReturns, tasks
<1>2. LastInv'
  BY <1>1 DEF PInv, LastInv
<1>3. CASE StopResumes(q)
  <2> DEFINE m == stop[q].first
             n == cur[home[m]]
  <2>1. m \in Turns /\ turn[m] # "none" /\ stop[q].turn = m /\ home[m] \in alive /\ stop[q] \in StopRecords
    BY <1>3 DEF StopResumes, StopInv, PInv, StopsLive, NoStop
  <2>2. n \in Turns /\ n # None
    BY <2>1 DEF PInv, LastInv, IInv, TurnsTyped
  <2>3. stop' = [stop EXCEPT ![q].pc = "joining", ![q].turn = n] /\ cut' \subseteq cut \cup {n}
    BY <1>3, <2>1 DEF StopResumes
  <2> HIDE DEF n
  <2>4. stop'[q].first = m /\ stop'[q].turn = n /\ \A r \in Stops \ {q} : stop'[r] = stop[r]
    BY <2>1, <2>3 DEF StopInv, StopRecords
  <2>5. StopsLive'
    <3>1. cut' \subseteq Turns
      BY <2>2, <2>3 DEF PInv, StopsLive
    <3>2. \A r \in Stops : stop'[r].pc # "idle" => home[stop'[r].first] \in alive /\ stop'[r].turn # None
      BY <2>1, <2>2, <2>4 DEF PInv, StopsLive
    <3> QED BY <1>1, <3>1, <3>2 DEF StopsLive
  <2> QED BY <1>1, <1>2, <2>5, PagesStay DEF PInv
<1>4. CASE StopReturns(q)
  <2>1. StopsLive'
    BY <1>1, <1>4 DEF StopReturns, tasks, PInv, StopsLive, StopInv, NoStop
  <2> QED BY <1>1, <1>2, <2>1, PagesStay DEF PInv
<1> QED BY <1>3, <1>4 DEF Stopping

LEMMA TaskKeeps == ASSUME IInv, StopInv, PInv, NEW n \in Turns, Task(n) PROVE PInv'
<1>1. /\ UNCHANGED <<alive, made, cur, home, stop, page, shown, mishaps>> /\ cut' \subseteq cut
      /\ \A m \in Turns : turn[m] = "none" <=> turn'[m] = "none"
  BY TaskEffect
<1>2. StopsLive'
  BY <1>1, StopsKept DEF PInv
<1>3. CASE UNCHANGED <<log, stream>>
  <2>1. LastInv'
    BY <1>1, <1>3, LastKept DEF PInv
  <2> QED BY <1>1, <1>2, <1>3, <2>1, PagesStay DEF PInv
<1>4. ASSUME turn[n] \in ActivePhases, NEW kinds \in Seq(Kinds), AddEvents(n, home[n], kinds) PROVE PInv'
  <2>1. PICK s \in alive : s = home[n]
    BY <1>4, RunningTurnIsLast
  <2>2. AddEvents(n, s, kinds)
    BY <1>4, <2>1
  <2>3. LastInv'
    BY <1>1, <2>2, LastKept DEF PInv
  <2>4. /\ stream' \in [Clients -> Streams]
        /\ \A c \in Clients : PageOk(alive, made, log', page[c], shown[c], stream'[c])
    BY <2>2, PageFed
  <2>5. PagesTyped' /\ \A c \in Clients : PageInv(c)'
    BY <1>1, <2>4 DEF PInv, PagesTyped, PageInv
  <2> QED BY <1>2, <2>3, <2>5 DEF PInv
<1> QED BY <1>3, <1>4, TaskEffect

(* The pages are left with sessions that no pod will ever hold. *)
LEMMA RestartKeeps == ASSUME IInv, StopInv, PInv, Restart PROVE PInv'
<1>1. /\ alive' = {} /\ UNCHANGED <<made, home, page, shown>> /\ cut' = {}
      /\ log' = [s \in Sessions |-> <<>>] /\ cur' = [s \in Sessions |-> None]
      /\ stream' = [c \in Clients |-> Detached] /\ stop' = [r \in Stops |-> NoStop]
  BY DEF Restart, PodReplaced
<1>2. LastInv' /\ StopsLive'
  BY <1>1 DEF LastInv, StopsLive, NoStop
<1>3. PagesTyped'
  BY <1>1, MishapsBounded, NothingAttached DEF Restart, PInv, PagesTyped
<1>4. ASSUME NEW c \in Clients PROVE PageInv(c)'
  <2>1. PICK p \in Pages : p = page[c] /\ PageOk(alive, made, log, p, shown[c], stream[c])
    BY PageFacts
  <2>2. PageOk(alive', made, log', p, shown[c], Detached)
    BY <1>1, <2>1, NothingAttached DEF PageOk, Attached, Awaits, Follows, Carries
  <2> QED BY <1>1, <2>1, <2>2 DEF PageInv
<1> QED BY <1>2, <1>3, <1>4 DEF PInv

-----------------------------------------------------------------------------
(* What a drained page knows. *)

LEMMA DrainedHasAll ==
  ASSUME IInv, PInv, NEW c \in Clients, ~page[c].stale, Drained(c)
  PROVE  page[c].max = Len(log[page[c].sess])
<1>1. PICK q \in Pages : /\ q = page[c] /\ q.sess \in Sessions /\ q.max \in Nat /\ q.last \in Nat
                         /\ log[q.sess] \in Seq(Events) /\ stream[c] \in Streams
                         /\ PageOk(alive, made, log, q, shown[c], stream[c])
  BY PageFacts
<1>2. stream[c].sess # None /\ stream[c].rest = <<>> /\ stream[c].q = <<>> /\ stream[c].seen \in Nat
  BY <1>1 DEF Drained, Sessions, None, Streams
<1>3. q.last = Len(log[q.sess])
  BY <1>1, <1>2, NothingAttached DEF PageOk, Carries
<1>4. q.last <= q.max /\ q.max <= Len(log[q.sess])
  BY <1>1, <1>2 DEF PageOk, Attached, Follows
<1> QED BY <1>1, <1>3, <1>4

(* A log that ends in an open turn does not report its session's last one. *)
LEMMA OpenIsUnreported ==
  ASSUME IInv, LastInv, NEW s \in Sessions, OpenAfter(log[s], Len(log[s]))
  PROVE  cur[s] # None /\ ~Reported(cur[s])
<1> DEFINE n == cur[s]
           L == log[s]
<1>1. L \in Seq(Events) /\ n \in Turns \cup {None} /\ Len(L) \in Nat
  BY DEF IInv, TurnsTyped
<1>2. PICK i \in 1..Len(L) : L[i].kind = "user" /\ \A j \in i..Len(L) : L[j].kind # "turn_end"
  BY DEF OpenAfter
<1>3. i \in DOMAIN L /\ L[i] \in Events
  BY <1>1
<1>4. L[i].turn \in Turns /\ L[i].turn <= n
  BY <1>3 DEF Events, IInv, LogInv
<1>5. n # None /\ n \in Turns
  BY <1>1, <1>4 DEF Turns, None
<1>6. home[n] = s
  BY <1>5 DEF LastInv
<1>7. ASSUME Reported(n) PROVE FALSE
  <2>1. PICK j \in DOMAIN L : L[j] = [kind |-> "turn_end", turn |-> n]
    BY <1>6, <1>7 DEF Reported
  <2>2. j \in 1..Len(L) /\ j < i
    BY <1>1, <1>2, <2>1
  <2>3. L[j].turn < L[i].turn
    BY <1>3, <2>1, <2>2 DEF IInv, InOrder
  <2> QED BY <1>4, <1>5, <2>1, <2>3 DEF Turns
<1> QED BY <1>5, <1>7

-----------------------------------------------------------------------------
(* The theorems about pages. *)

LEMMA PageInit == Init => PInv
<1> SUFFICES ASSUME Init PROVE PInv
  OBVIOUS
<1>1. 1 \in Sessions /\ MaxMishaps \in Nat
  BY SessionAssumption, PageAssumption DEF Sessions
<1>2. LastInv /\ StopsLive
  BY DEF Init, ServerInit, LastInv, StopsLive, NoStop
<1>3. PICK p \in Pages :
        /\ p = NewPage(1) /\ p.sess = 1 /\ p.max = 0 /\ p.last = 0 /\ p.active = FALSE
        /\ p.busy = FALSE /\ p.post = "none" /\ p.to = None
  <2>1. NewPage(1) \in Pages
    BY <1>1 DEF NewPage, Pages, Posts
  <2> QED BY <2>1 DEF NewPage
<1>4. PagesTyped
  BY <1>1, <1>3, NothingAttached DEF Init, ServerInit, PagesTyped
<1>5. ASSUME NEW c \in Clients PROVE PageInv(c)
  <2>1. page[c] = p /\ stream[c] = Detached /\ shown[c] = <<>> /\ made = 1 /\ log[1] = <<>>
    BY <1>1, <1>3 DEF Init, ServerInit
  <2>2. PageOk(alive, made, log, p, <<>>, Detached)
    BY <1>3, <2>1, NothingAttached DEF PageOk, Attached, Awaits, Follows, Carries, OpenAfter, None
  <2> QED BY <2>1, <2>2 DEF PageInv
<1> QED BY <1>2, <1>4, <1>5 DEF PInv

LEMMA PageStep == ASSUME IInv, StopInv, PInv, [Next]_vars PROVE PInv'
<1>1. ASSUME NEW c \in Clients, Request(c) PROVE PInv'
  BY <1>1, AttachKeeps, AttachRefusedKeeps, ReattachKeeps, ReceiveKeeps, DropKeeps, SubmitKeeps,
     AnswerKeeps, HearKeeps, ReopenKeeps, ReopenFailsKeeps, PromptLostKeeps, StopKeeps,
     StartOverKeeps, OpenedKeeps, OpenFailsKeeps, ReconnectKeeps DEF Request
<1>2. CASE UNCHANGED vars
  <2>1. LastInv' /\ StopsLive'
    BY <1>2 DEF vars, server, tasks, PInv, LastInv, StopsLive
  <2> QED BY <1>2, <2>1, PagesStay DEF vars, server, PInv
<1> QED BY <1>1, <1>2, TaskKeeps, StoppingKeeps, RestartKeeps DEF Next

LEMMA PageInvariant == Spec => [](IInv /\ StopInv /\ PInv)
<1>1. Init => StopInv
  BY DEF Init, ServerInit, StopInv, NoStop
<1>2. IInv /\ StopInv /\ PInv /\ [Next]_vars => StopInv' /\ PInv'
  BY StopStepPreserves, PageStep
<1> QED BY <1>1, <1>2, PageInit, SessionInvariant, PTL DEF Spec

(* Every variable keeps its type: a Stop request always knows a turn to     *)
(* join, also when the one it was pressed for has ended meanwhile.          *)
THEOREM PageTypes == Spec => []TypeOK
<1>1. IInv /\ StopInv /\ PInv => TypeOK
  <2> SUFFICES ASSUME IInv, StopInv, PInv PROVE TypeOK
    OBVIOUS
  <2>1. stop \in [Stops -> {NoStop} \cup [pc : {"killing", "joining"}, first : Turns, turn : Turns]]
    <3>1. ASSUME NEW r \in Stops
          PROVE  stop[r] \in {NoStop} \cup [pc : {"killing", "joining"}, first : Turns, turn : Turns]
      BY DEF StopInv, StopRecords, NoStop, PInv, StopsLive
    <3> QED BY <3>1 DEF StopInv
  <2> QED BY <2>1 DEF IInv, TurnsTyped, PInv, PagesTyped, Pages, Posts, Streams, StopsLive, TypeOK
<1> QED BY <1>1, PageInvariant, PTL

(* However often a page reconnects, in a replay or in a turn, it shows the  *)
(* events of its session in order, none twice and none left out, and all of *)
(* them once its stream is drained.                                         *)
THEOREM PagesShowTheLog == Spec => []ShownInOrder
<1>1. IInv /\ PInv => ShownInOrder
  <2> SUFFICES ASSUME IInv, PInv, NEW c \in Clients, ~page[c].stale
               PROVE  /\ \A i \in DOMAIN shown[c] : shown[c][i] = i
                      /\ Drained(c) => Len(shown[c]) = Len(log[page[c].sess])
    BY DEF ShownInOrder
  <2>1. shown[c] \in Seq(Nat) /\ page[c].max = Len(shown[c]) /\ \A i \in 1..Len(shown[c]) : shown[c][i] = i
    BY PageFacts DEF PageOk, Follows
  <2>2. \A i \in DOMAIN shown[c] : shown[c][i] = i
    BY <2>1
  <2>3. ASSUME Drained(c) PROVE page[c].max = Len(log[page[c].sess])
    BY <2>3, DrainedHasAll
  <2> QED BY <2>1, <2>2, <2>3
<1> QED BY <1>1, PageInvariant, PTL

(* A drained page that waits for no answer offers Stop when a turn of its   *)
(* session runs, whichever page started it, and in vain only for a turn     *)
(* that nobody reported or for a prompt that went to the session before:    *)
(* newSession leaves that window open while it waits for the new one.       *)
THEOREM StopIsOffered == Spec => []BusyTracksTurn
<1>1. IInv /\ PInv => BusyTracksTurn
  <2> SUFFICES ASSUME IInv, PInv, NEW c \in Clients, Drained(c), page[c].post = "none", ~page[c].stale
               PROVE  LET s == page[c].sess
                      IN /\ TurnActive(s) => page[c].busy
                         /\ page[c].busy => \/ TurnActive(s) \/ (cur[s] # None /\ ~Reported(cur[s]))
                                           \/ page[c].astray
    BY DEF BusyTracksTurn
  <2> DEFINE s == page[c].sess
             L == log[s]
  <2>1. s \in Sessions /\ s \in alive /\ L \in Seq(Events) /\ page[c].max = Len(L)
        /\ PageOk(alive, made, log, page[c], shown[c], stream[c])
    BY DrainedHasAll, PageFacts DEF Drained
  <2>2. (page[c].active <=> OpenAfter(L, Len(L))) /\ (page[c].active => page[c].busy)
    BY <2>1 DEF PageOk, Follows, Attached
  <2>3. TurnActive(s) => page[c].busy
    BY <2>1, <2>2, RunningIsOpen DEF PInv
  <2>4. page[c].busy => page[c].active \/ page[c].astray
    BY <2>1 DEF PageOk, Awaits, Asked
  <2>5. ASSUME page[c].busy, ~page[c].astray PROVE cur[s] # None /\ ~Reported(cur[s])
    BY <2>1, <2>2, <2>4, <2>5, OpenIsUnreported DEF PInv
  <2> QED BY <2>3, <2>5
<1> QED BY <1>1, PageInvariant, PTL
=============================================================================
