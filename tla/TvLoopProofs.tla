------------------------------ MODULE TvLoopProofs ------------------------------
(***************************************************************************)
(* Safety of the tv profile for every set of issues and jobs and every     *)
(* bound: types, every run and every record belongs to an issue somebody   *)
(* asked for, the owner is never told of a fix that was not shipped; and   *)
(* while the two actors keep out of each other's way, the drain starts no  *)
(* run for an issue that has had one and that no person asked about again. *)
(*                                                                         *)
(* Two layers: Facts is inductive whatever happens, and Order is inductive *)
(* on top of it in behaviours without a failed call and without a race.    *)
(***************************************************************************)
EXTENDS TvLoop, FiniteSetTheorems, TLAPS

(* What the tick keeps of an issue that was listed. *)
People == {Owner, Guest, FeedbackBot}
Reads ==
  [repo : {"tv"}, number : Issues, labels : SUBSET {HumanLabel}, prios : {{}},
   timeline : {<<[label |-> "approved", actor |-> a]>> : a \in People}, named : {{}, {None}}]

TickType ==
  [pc : TickPhases, ready : SUBSET Reads, sweep : BOOLEAN, todo : SUBSET Issues, held : SUBSET Issues,
   issue : Issues \cup {None}, rec : Records, shipped : BOOLEAN, orphan : BOOLEAN, late : BOOLEAN,
   job : Jobs \cup {None}]
RecvType ==
  [pc : {"idle", "clear", "lock", "submit", "stamp", "release", "record"},
   issue : Issues \cup {None}, continuing : BOOLEAN, human : BOOLEAN, job : Jobs \cup {None}]

TrackerTyped ==
  /\ open \subseteq Issues /\ labels \in [Issues -> SUBSET Labels]
  /\ approver \in [Issues -> People]
  /\ footer \in [Issues -> Records] /\ shipped \in [Issues -> Jobs \cup {None}]
  /\ \A d \in hooks : d.repo = "tv" /\ d.issue \in Issues
ServiceTyped ==
  /\ status \in [Jobs -> {"unused", "live", "ended", "gone"}]
  /\ owner \in [Jobs -> Issues \cup {None}]
  /\ \A j \in Jobs : status[j] # "unused" => owner[j] # None
HistoryTyped ==
  /\ asked \subseteq Issues /\ fresh \subseteq Issues /\ reply \subseteq Issues
  /\ faults \in Nat

(* Where an actor has an issue, a record or a job in hand. *)
TickPlaced ==
  /\ tick \in TickType
  /\ tick.pc \in {"submit", "clear", "stamp", "record", "turn", "unlock", "hand", "resubmit",
                 "persist"} =>
       tick.issue \in Issues
  /\ tick.pc \in {"clear", "stamp", "record", "persist"} => tick.job # None
  /\ tick.pc \in {"turn", "resubmit", "persist"} => tick.rec # NoRecord
RecvPlaced ==
  /\ recv \in RecvType
  /\ recv.pc # "idle" => recv.issue \in Issues
  /\ recv.pc \in {"stamp", "record"} => recv.job # None
  /\ recv.pc \in {"idle", "clear", "lock", "submit"} => recv.job = None

(* What may lead to a run is asked for: a delivery under way, a listed      *)
(* issue, a record, an issue in an actor's hand.                            *)
AskedInv ==
  /\ \A j \in Jobs : owner[j] # None => owner[j] \in asked
  /\ \A i \in Issues : footer[i] # NoRecord => i \in asked
  /\ \A i \in Issues : approver[i] = Owner /\ "approved" \in labels[i] => i \in asked
  /\ \A d \in hooks : d.actor = Owner /\ "approved" \in d.labels => d.issue \in asked
  /\ recv.pc # "idle" => recv.issue \in asked
  /\ tick.pc = "listed" => \A x \in tick.ready : x.timeline[1].actor = Owner => x.number \in asked
  /\ tick.pc \in {"submit", "clear", "stamp", "record"} => tick.issue \in asked
  /\ tick.rec # NoRecord => tick.issue \in asked

(* What the tick knows of shipped fixes stays true until somebody ships. *)
ShippedInv ==
  /\ tick.pc = "next" => ~tick.late
  /\ tick.pc \in {"turn", "unlock", "hand"} =>
       /\ tick.orphan <=> tick.rec = NoRecord
       /\ ~tick.orphan /\ ~tick.late => (tick.shipped <=> shipped[tick.issue] >= tick.rec.start)

Facts == TrackerTyped /\ ServiceTyped /\ HistoryTyped /\ TickPlaced /\ RecvPlaced /\ AskedInv /\ ShippedInv

-----------------------------------------------------------------------------
(* What is at rest, and what a rebuilt tick holds. *)

LEMMA AtRest ==
  /\ Resting \in TickType /\ Listening \in RecvType
  /\ Resting.pc = "idle" /\ Resting.ready = {} /\ Resting.todo = {} /\ Resting.held = {}
  /\ Resting.issue = None /\ Resting.rec = NoRecord /\ Resting.job = None
  /\ Resting.sweep = FALSE /\ Resting.shipped = FALSE /\ Resting.orphan = FALSE /\ Resting.late = FALSE
  /\ Listening.pc = "idle" /\ Listening.issue = None /\ Listening.job = None
  /\ Listening.continuing = FALSE
<1>1. Listening \in RecvType
  BY DEF Listening, RecvType
<1>2. NoRecord \in Records /\ "idle" \in TickPhases
  BY DEF Records, TickPhases
<1>3. Resting \in TickType
  BY <1>2 DEF Resting, TickType
<1> QED BY <1>1, <1>3 DEF Resting, Listening

(* A tick that rests but for its phase. *)
LEMMA RestsAt ==
  ASSUME NEW pc \in {"watch", "sweep"}, NEW x, x = [Resting EXCEPT !.pc = pc]
  PROVE  /\ x \in TickType /\ x.pc = pc /\ x.ready = {} /\ x.todo = {} /\ x.held = {}
         /\ x.issue = None /\ x.rec = NoRecord /\ x.job = None /\ ~x.sweep /\ ~x.late
BY AtRest DEF TickType, TickPhases

(* A tick that goes on with what is left to do. *)
Going(sweep, todo, held) ==
  [Resting EXCEPT !.pc = "next", !.sweep = sweep, !.todo = todo, !.held = held]

(* The tick after the issue in hand. *)
LEMMA DoneWith ==
  ASSUME tick \in TickType, NEW x, x = Done
  PROVE  /\ x \in TickType /\ x.pc \in {"idle", "sweep", "next"} /\ x.ready = {}
         /\ x.issue = None /\ x.rec = NoRecord /\ x.job = None /\ ~x.late
         /\ x.pc = "next" => /\ x.todo = tick.todo \ {tick.issue} /\ x.held = tick.held
                             /\ x.sweep = tick.sweep
<1>1. tick.todo \subseteq Issues /\ tick.held \subseteq Issues /\ tick.sweep \in BOOLEAN
  BY DEF TickType
<1>2. CASE tick.todo \ {tick.issue} # {}
  <2>1. tick.todo \ {tick.issue} \in SUBSET Issues /\ tick.held \in SUBSET Issues
    BY <1>1
  <2>2. x = Going(tick.sweep, tick.todo \ {tick.issue}, tick.held)
    BY <1>2 DEF Done, Rest, Going
  <2> HIDE DEF Done
  <2>3. /\ x.pc = "next" /\ x.sweep = tick.sweep /\ x.todo = tick.todo \ {tick.issue}
        /\ x.held = tick.held
    BY <2>2 DEF Going, Resting
  <2>4. /\ x.ready = Resting.ready /\ x.issue = Resting.issue /\ x.rec = Resting.rec
        /\ x.shipped = Resting.shipped /\ x.orphan = Resting.orphan /\ x.late = Resting.late
        /\ x.job = Resting.job
    BY <2>2 DEF Going, Resting
  <2>5. x \in TickType
    BY <1>1, <2>1, <2>2, AtRest DEF Going, TickType, TickPhases
  <2> QED BY <2>3, <2>4, <2>5, AtRest
<1>3. CASE tick.todo \ {tick.issue} = {} /\ tick.sweep
  BY <1>1, <1>3, AtRest DEF Done, Rest
<1>4. CASE tick.todo \ {tick.issue} = {} /\ ~tick.sweep
  BY <1>1, <1>4, RestsAt DEF Done, Rest
<1> QED BY <1>1, <1>2, <1>3, <1>4

(* The two listings. *)
LEMMA HeldListed ==
  ASSUME TrackerTyped, ListHeld
  PROVE  /\ tick' \in TickType /\ tick'.pc \in {"sweep", "next"}
         /\ tick'.issue = None /\ tick'.rec = NoRecord /\ tick'.job = None /\ ~tick'.late
         /\ tick'.pc = "next" =>
              tick'.todo = Held /\ ~tick'.sweep /\ tick'.held = Held \cap Carrying(HumanLabel)
<1>1. Held \subseteq Issues
  BY DEF TrackerTyped, Held, Carrying
<1>2. CASE Held # {}
  <2>1. tick' = Going(FALSE, Held, Held \cap Carrying(HumanLabel))
    BY <1>2 DEF ListHeld, List, Going
  <2> QED BY <1>1, <2>1, AtRest DEF Going, TickType, TickPhases
<1>3. CASE Held = {}
  <2>1. tick' = [Resting EXCEPT !.pc = "sweep"]
    BY <1>3 DEF ListHeld, List
  <2> QED BY <2>1, RestsAt
<1> QED BY <1>2, <1>3

LEMMA ClosedListed ==
  ASSUME TrackerTyped, ListClosed
  PROVE  /\ tick' \in TickType /\ tick'.pc \in {"idle", "next"}
         /\ tick'.issue = None /\ tick'.rec = NoRecord /\ tick'.job = None /\ ~tick'.late
         /\ tick'.pc = "next" =>
              tick'.todo = Carrying(InProgressLabel) \ open /\ tick'.sweep /\ tick'.held = {}
<1> DEFINE todo == Carrying(InProgressLabel) \ open
<1>1. todo \subseteq Issues
  BY DEF Carrying
<1>2. CASE todo # {}
  <2>1. tick' = Going(TRUE, todo, {})
    BY <1>2 DEF ListClosed, List, Going
  <2> HIDE DEF todo
  <2>2. /\ tick' \in TickType /\ tick'.pc = "next"
        /\ tick'.issue = None /\ tick'.rec = NoRecord /\ tick'.job = None /\ ~tick'.late
        /\ tick'.todo = todo /\ tick'.sweep /\ tick'.held = {}
    BY <1>1, <2>1, AtRest DEF Going, TickType, TickPhases
  <2> QED BY <2>2 DEF todo
<1>3. CASE todo = {}
  <2>1. tick' = Resting
    BY <1>3 DEF ListClosed, List
  <2> QED BY <2>1, AtRest
<1> QED BY <1>2, <1>3

(* A job that is started is the issue's. *)
LEMMA StartsFor ==
  ASSUME ServiceTyped, HistoryTyped, NEW i \in Issues, NEW j \in Unused, Start(i, j)
  PROVE  /\ status' \in [Jobs -> {"unused", "live", "ended", "gone"}]
         /\ owner' \in [Jobs -> Issues \cup {None}] /\ owner'[j] = i
         /\ \A k \in Jobs : status'[k] # "unused" => owner'[k] # None
         /\ \A k \in Jobs \ {j} : owner'[k] = owner[k]
         /\ j \in Jobs /\ j # None
         /\ asked' = asked /\ fresh' = fresh \ {i} /\ reply' \subseteq Issues /\ fresh' \subseteq Issues
BY TvAssumption DEF ServiceTyped, HistoryTyped, Start, Unused, None, Jobs

(* The time of a report is the number of a job. *)
LEMMA NewestJob == Cardinality(Jobs \ Unused) \in Jobs \cup {None}
<1>1. MaxJobs \in Nat
  BY TvAssumption
<1>2. IsFiniteSet(Jobs) /\ Cardinality(Jobs) = MaxJobs
  BY <1>1, FS_Interval DEF Jobs
<1>3. /\ IsFiniteSet(Jobs \ Unused) /\ Cardinality(Jobs \ Unused) <= Cardinality(Jobs)
  BY <1>2, FS_Subset
<1>4. Cardinality(Jobs \ Unused) \in Nat
  BY <1>3, FS_CardinalityType
<1> QED BY <1>1, <1>2, <1>3, <1>4 DEF Jobs, None

(* What the handler lets in, its owner has asked for. *)
LEMMA AdmittedIsAsked ==
  ASSUME Facts, NEW d \in hooks \cup BotDeliveries, Admitted(d)
  PROVE  d.issue \in Issues /\ d.issue \in asked
<1>1. d.repo = "tv" /\ d.issue \in Issues
  BY DEF Facts, TrackerTyped, BotDeliveries
<1>2. "approved" \in d.labels /\ d.actor = Owner /\ d.actor \notin {Bot, FeedbackBot}
  BY <1>1 DEF Admitted, Decide, IsTrigger, ProfileFor
<1>3. d \in hooks
  BY <1>2 DEF BotDeliveries
<1> QED BY <1>1, <1>2, <1>3 DEF Facts, AskedInv

(* What the drain chooses, its owner has asked for; and no person holds it. *)
LEMMA ChosenIsAsked ==
  ASSUME Facts, tick.pc = "listed", NEW busy, NEW x \in SelectDispatchable(tick.ready, busy)
  PROVE  /\ x \in tick.ready /\ x.number \in Issues /\ x.number \in asked
         /\ HumanLabel \notin x.labels /\ "tv" \notin busy
<1>1. x \in tick.ready /\ IsEligible(x, busy)
  BY DEF SelectDispatchable
<1>2. x \in Reads
  BY <1>1 DEF Facts, TickPlaced, TickType
<1>3. x.number \in Issues /\ x.repo = "tv"
  BY <1>2 DEF Reads
<1>4. PICK a \in People : x.timeline = <<[label |-> "approved", actor |-> a]>>
  BY <1>2 DEF Reads
<1>5. DOMAIN x.timeline = {1} /\ x.timeline[1].actor = a
  BY <1>4
<1>6. Association(a) \in TrustedAssociations("tv")
  BY <1>1, <1>3, <1>5 DEF IsEligible, LabeledByTrusted
<1>7. a = Owner
  BY <1>6 DEF Association, TrustedAssociations
<1> QED BY <1>1, <1>3, <1>5, <1>7 DEF IsEligible, Facts, AskedInv

-----------------------------------------------------------------------------
(* Facts: one lemma for each action.                                        *)

LEMMA ReceiverClearsFacts == ASSUME Facts, ReceiverClears PROVE Facts'
<1>1. ServiceTyped' /\ HistoryTyped' /\ TickPlaced' /\ ShippedInv'
  BY DEF ReceiverClears, service, bounds, history, Facts, ServiceTyped, HistoryTyped, TickPlaced,
    ShippedInv
<1>2. TrackerTyped'
  BY DEF ReceiverClears, Remove, Facts, TrackerTyped
<1>3. RecvPlaced'
  BY DEF ReceiverClears, Facts, RecvPlaced, RecvType
<1>4. AskedInv'
  BY DEF ReceiverClears, Remove, service, history, Facts, AskedInv
<1> QED BY <1>1, <1>2, <1>3, <1>4 DEF Facts

LEMMA ReceiverReadsLockFacts == ASSUME Facts, ReceiverReadsLock PROVE Facts'
<1>1. TrackerTyped' /\ ServiceTyped' /\ HistoryTyped' /\ TickPlaced' /\ ShippedInv'
  BY DEF ReceiverReadsLock, tracker, service, bounds, history, Facts, TrackerTyped, ServiceTyped,
    HistoryTyped, TickPlaced, ShippedInv
<1>2. RecvPlaced'
  BY AtRest DEF ReceiverReadsLock, Facts, RecvPlaced, RecvType
<1>3. AskedInv'
  BY AtRest DEF ReceiverReadsLock, tracker, service, history, Facts, AskedInv
<1> QED BY <1>1, <1>2, <1>3 DEF Facts

LEMMA ReceiverSubmitsFacts == ASSUME Facts, ReceiverSubmits PROVE Facts'
<1>1. TrackerTyped' /\ TickPlaced' /\ ShippedInv'
  BY DEF ReceiverSubmits, tracker, Facts, TrackerTyped, TickPlaced, ShippedInv
<1>2. PICK j \in Unused : Start(recv.issue, j) /\ recv' = [recv EXCEPT !.pc = "stamp", !.job = j]
  BY DEF ReceiverSubmits
<1>3. j \in Jobs /\ j # None
  BY DEF Unused, Jobs, None
<1>4. recv.issue \in Issues /\ recv.issue \in asked
  BY DEF ReceiverSubmits, Facts, RecvPlaced, AskedInv
<1>5. /\ recv' \in RecvType /\ recv'.pc = "stamp" /\ recv'.issue = recv.issue /\ recv'.job = j
  BY <1>2, <1>3 DEF Facts, RecvPlaced, RecvType
<1>6. ServiceTyped' /\ HistoryTyped'
  <2>1. fresh' \subseteq Issues /\ reply' \subseteq Issues /\ asked' = asked /\ faults' = faults
    BY <1>2, <1>4, StartsFor DEF ReceiverSubmits, bounds, Facts
  <2> QED BY <1>2, <1>4, <2>1, StartsFor DEF Facts, ServiceTyped, HistoryTyped
<1>7. RecvPlaced'
  BY <1>3, <1>4, <1>5 DEF RecvPlaced
<1>8. AskedInv'
  <2>1. asked' = asked /\ \A k \in Jobs : owner'[k] = owner[k] \/ owner'[k] = recv.issue
    BY <1>2, <1>4, StartsFor DEF Facts
  <2>2. UNCHANGED <<labels, approver, footer, hooks, tick>>
    BY DEF ReceiverSubmits, tracker
  <2> QED BY <1>4, <1>5, <2>1, <2>2 DEF Facts, AskedInv
<1> QED BY <1>1, <1>6, <1>7, <1>8 DEF Facts

LEMMA ReceiverStampsFacts == ASSUME Facts, ReceiverStamps PROVE Facts'
<1>1. ServiceTyped' /\ HistoryTyped' /\ TickPlaced' /\ ShippedInv'
  BY DEF ReceiverStamps, service, bounds, history, Facts, ServiceTyped, HistoryTyped, TickPlaced,
    ShippedInv
<1>2. TrackerTyped'
  BY DEF ReceiverStamps, Add, Facts, TrackerTyped, Labels
<1>3. RecvPlaced'
  BY DEF ReceiverStamps, Facts, RecvPlaced, RecvType
<1>4. AskedInv'
  BY DEF ReceiverStamps, Add, service, history, Facts, AskedInv
<1> QED BY <1>1, <1>2, <1>3, <1>4 DEF Facts

LEMMA ReceiverReleasesFacts == ASSUME Facts, ReceiverReleases PROVE Facts'
<1>1. ServiceTyped' /\ HistoryTyped' /\ TickPlaced' /\ ShippedInv'
  BY DEF ReceiverReleases, service, bounds, history, Facts, ServiceTyped, HistoryTyped, TickPlaced,
    ShippedInv
<1>2. TrackerTyped'
  BY DEF ReceiverReleases, Remove, Facts, TrackerTyped
<1>3. RecvPlaced'
  BY AtRest DEF ReceiverReleases, Facts, RecvPlaced, RecvType
<1>4. AskedInv'
  BY AtRest DEF ReceiverReleases, Remove, service, history, Facts, AskedInv
<1> QED BY <1>1, <1>2, <1>3, <1>4 DEF Facts

LEMMA ReceiverRecordsFacts == ASSUME Facts, ReceiverRecords PROVE Facts'
<1>1. ServiceTyped' /\ HistoryTyped' /\ TickPlaced' /\ ShippedInv'
  BY DEF ReceiverRecords, service, bounds, history, Facts, ServiceTyped, HistoryTyped, TickPlaced,
    ShippedInv
<1>2. TrackerTyped'
  BY DEF ReceiverRecords, FirstRecord, Facts, TrackerTyped, RecvPlaced, RecvType, Records
<1>3. RecvPlaced'
  BY AtRest DEF ReceiverRecords, Facts, RecvPlaced
<1>4. AskedInv'
  BY AtRest DEF ReceiverRecords, service, history, Facts, AskedInv
<1> QED BY <1>1, <1>2, <1>3, <1>4 DEF Facts

LEMMA ReceiverFailsFacts == ASSUME Facts, ReceiverFails PROVE Facts'
<1>1. TrackerTyped' /\ ServiceTyped' /\ TickPlaced' /\ ShippedInv'
  BY DEF ReceiverFails, tracker, service, Facts, TrackerTyped, ServiceTyped, TickPlaced, ShippedInv
<1>2. HistoryTyped'
  <2>1. asked' = asked /\ fresh' = fresh /\ reply' \subseteq reply /\ faults' = faults + 1
    BY DEF ReceiverFails
  <2> QED BY <2>1 DEF Facts, HistoryTyped
<1>3. RecvPlaced'
  BY AtRest DEF ReceiverFails, Facts, RecvPlaced
<1>4. AskedInv'
  BY AtRest DEF ReceiverFails, tracker, service, Facts, AskedInv
<1> QED BY <1>1, <1>2, <1>3, <1>4 DEF Facts

LEMMA ListReadyFacts == ASSUME Facts, ListReady PROVE Facts'
<1> DEFINE ready == {Raw(i) : i \in open \cap Carrying("approved")}
<1>1. tick' = [Resting EXCEPT !.pc = "listed", !.ready = ready]
  BY DEF ListReady
<1>2. TrackerTyped' /\ ServiceTyped' /\ HistoryTyped' /\ RecvPlaced'
  BY DEF ListReady, tracker, service, bounds, history, Facts, TrackerTyped, ServiceTyped, HistoryTyped,
    RecvPlaced
<1>3. ready \in SUBSET Reads
  <2>1. ASSUME NEW i \in Issues PROVE Raw(i) \in Reads
    <3>1. approver[i] \in People /\ labels[i] \cap {HumanLabel} \in SUBSET {HumanLabel}
      BY DEF Facts, TrackerTyped
    <3> QED BY <3>1 DEF Raw, Reads
  <2> QED BY <2>1 DEF Facts, TrackerTyped
<1>4. \A x \in ready : x.timeline[1].actor = Owner => x.number \in asked
  BY DEF Raw, Carrying, Facts, AskedInv
<1> HIDE DEF ready
<1>5. /\ tick' \in TickType /\ tick'.pc = "listed" /\ tick'.ready = ready /\ tick'.rec = NoRecord
  BY <1>1, <1>3, AtRest DEF TickType, TickPhases
<1>6. TickPlaced' /\ ShippedInv'
  BY <1>5 DEF TickPlaced, ShippedInv
<1>7. AskedInv'
  BY <1>4, <1>5 DEF ListReady, tracker, service, history, Facts, AskedInv
<1> QED BY <1>2, <1>6, <1>7 DEF Facts

(* What the drain has read: nothing to start, or an issue to start that no  *)
(* person held and, as no open issue was locked, its owner asked for.       *)
LEMMA LockRead ==
  ASSUME Facts, ReadLock
  PROVE  /\ tick' \in TickType /\ tick'.rec = NoRecord
         /\ \/ tick'.pc = "watch"
            \/ /\ tick'.pc = "submit" /\ Held = {}
               /\ \E x \in tick.ready : /\ tick'.issue = x.number /\ HumanLabel \notin x.labels
                                        /\ x.number \in Issues /\ x.number \in asked
<1> DEFINE busy == IF Held = {} THEN {} ELSE {"tv"}
<1>1. CASE tick' = [Resting EXCEPT !.pc = "watch"]
  BY <1>1, RestsAt
<1>2. ASSUME NEW x \in SelectDispatchable(tick.ready, busy),
             tick' = [Resting EXCEPT !.pc = "submit", !.issue = x.number]
      PROVE  /\ tick' \in TickType /\ tick'.rec = NoRecord /\ tick'.pc = "submit" /\ Held = {}
             /\ tick'.issue = x.number /\ HumanLabel \notin x.labels
             /\ x \in tick.ready /\ x.number \in Issues /\ x.number \in asked
  <2>1. tick.pc = "listed"
    BY DEF ReadLock
  <2>2. /\ x \in tick.ready /\ x.number \in Issues /\ x.number \in asked
        /\ HumanLabel \notin x.labels /\ "tv" \notin busy
    BY <2>1, ChosenIsAsked
  <2>3. tick' \in TickType /\ tick'.pc = "submit" /\ tick'.issue = x.number /\ tick'.rec = NoRecord
    BY <1>2, <2>2, AtRest DEF TickType, TickPhases
  <2> QED BY <2>2, <2>3
<1> QED BY <1>1, <1>2 DEF ReadLock

LEMMA ReadLockFacts == ASSUME Facts, ReadLock PROVE Facts'
<1>1. TrackerTyped' /\ ServiceTyped' /\ HistoryTyped' /\ RecvPlaced'
  BY DEF ReadLock, tracker, service, bounds, history, Facts, TrackerTyped, ServiceTyped, HistoryTyped,
    RecvPlaced
<1>2. TickPlaced' /\ ShippedInv'
  BY LockRead DEF TickPlaced, ShippedInv
<1>3. AskedInv'
  BY LockRead DEF ReadLock, tracker, service, history, Facts, AskedInv
<1> QED BY <1>1, <1>2, <1>3 DEF Facts

LEMMA DrainSubmitsFacts == ASSUME Facts, DrainSubmits PROVE Facts'
<1>1. TrackerTyped' /\ RecvPlaced'
  BY DEF DrainSubmits, tracker, Facts, TrackerTyped, RecvPlaced
<1>2. PICK j \in Unused : /\ Start(tick.issue, j)
                          /\ \E pc \in {"clear", "stamp"} : tick' = [tick EXCEPT !.job = j, !.pc = pc]
  BY DEF DrainSubmits
<1>3. j \in Jobs /\ j # None
  BY DEF Unused, Jobs, None
<1>4. tick.issue \in Issues /\ tick.issue \in asked
  BY DEF DrainSubmits, Facts, TickPlaced, AskedInv
<1>5. /\ tick' \in TickType /\ tick'.pc \in {"clear", "stamp"} /\ tick'.issue = tick.issue /\ tick'.job = j
      /\ tick'.rec = tick.rec
  BY <1>2, <1>3 DEF Facts, TickPlaced, TickType, TickPhases
<1>6. ServiceTyped' /\ HistoryTyped'
  <2>1. fresh' \subseteq Issues /\ reply' \subseteq Issues /\ asked' = asked /\ faults' = faults
    BY <1>2, <1>4, StartsFor DEF DrainSubmits, bounds, Facts
  <2> QED BY <1>2, <1>4, <2>1, StartsFor DEF Facts, ServiceTyped, HistoryTyped
<1>7. TickPlaced' /\ ShippedInv'
  BY <1>3, <1>4, <1>5 DEF TickPlaced, ShippedInv
<1>8. AskedInv'
  <2>1. asked' = asked /\ \A k \in Jobs : owner'[k] = owner[k] \/ owner'[k] = tick.issue
    BY <1>2, <1>4, StartsFor DEF Facts
  <2>2. UNCHANGED <<labels, approver, footer, hooks, recv>>
    BY DEF DrainSubmits, tracker
  <2> QED BY <1>4, <1>5, <2>1, <2>2 DEF Facts, AskedInv
<1> QED BY <1>1, <1>6, <1>7, <1>8 DEF Facts

LEMMA DrainClearsFacts == ASSUME Facts, DrainClears PROVE Facts'
<1>1. ServiceTyped' /\ HistoryTyped' /\ RecvPlaced'
  BY DEF DrainClears, service, bounds, history, Facts, ServiceTyped, HistoryTyped, RecvPlaced
<1>2. TrackerTyped'
  BY DEF DrainClears, Remove, Facts, TrackerTyped
<1>3. TickPlaced'
  BY DEF DrainClears, Facts, TickPlaced, TickType, TickPhases
<1>4. AskedInv'
  BY DEF DrainClears, Remove, service, history, Facts, AskedInv
<1>5. ShippedInv'
  BY DEF DrainClears, Facts, ShippedInv
<1> QED BY <1>1, <1>2, <1>3, <1>4, <1>5 DEF Facts

LEMMA DrainStampsFacts == ASSUME Facts, DrainStamps PROVE Facts'
<1>1. ServiceTyped' /\ HistoryTyped' /\ RecvPlaced'
  BY DEF DrainStamps, service, bounds, history, Facts, ServiceTyped, HistoryTyped, RecvPlaced
<1>2. TrackerTyped'
  BY DEF DrainStamps, Add, Facts, TrackerTyped, Labels
<1>3. TickPlaced'
  BY DEF DrainStamps, Facts, TickPlaced, TickType, TickPhases
<1>4. AskedInv'
  BY DEF DrainStamps, Add, service, history, Facts, AskedInv
<1>5. ShippedInv'
  BY DEF DrainStamps, Facts, ShippedInv
<1> QED BY <1>1, <1>2, <1>3, <1>4, <1>5 DEF Facts

LEMMA DrainRecordsFacts == ASSUME Facts, DrainRecords PROVE Facts'
<1>1. ServiceTyped' /\ HistoryTyped' /\ RecvPlaced'
  BY DEF DrainRecords, service, bounds, history, Facts, ServiceTyped, HistoryTyped, RecvPlaced
<1>2. TrackerTyped'
  BY DEF DrainRecords, FirstRecord, Facts, TrackerTyped, TickPlaced, TickType, Records
<1>3. TickPlaced'
  BY RestsAt DEF DrainRecords, Facts, TickPlaced
<1>4. AskedInv'
  BY RestsAt DEF DrainRecords, service, history, Facts, AskedInv, TickType
<1>5. ShippedInv'
  BY DEF DrainRecords, Facts, ShippedInv
<1> QED BY <1>1, <1>2, <1>3, <1>4, <1>5 DEF Facts

LEMMA ListHeldFacts == ASSUME Facts, ListHeld PROVE Facts'
<1>1. TrackerTyped' /\ ServiceTyped' /\ HistoryTyped' /\ RecvPlaced'
  BY DEF ListHeld, List, tracker, service, bounds, history, Facts, TrackerTyped, ServiceTyped,
    HistoryTyped, RecvPlaced
<1>2. TickPlaced'
  BY HeldListed DEF ListHeld, Facts, TickPlaced
<1>3. AskedInv'
  BY HeldListed DEF ListHeld, List, tracker, service, history, Facts, AskedInv
<1>4. ShippedInv'
  BY HeldListed DEF ListHeld, Facts, ShippedInv
<1> QED BY <1>1, <1>2, <1>3, <1>4 DEF Facts

LEMMA ListClosedFacts == ASSUME Facts, ListClosed PROVE Facts'
<1>1. TrackerTyped' /\ ServiceTyped' /\ HistoryTyped' /\ RecvPlaced'
  BY DEF ListClosed, List, tracker, service, bounds, history, Facts, TrackerTyped, ServiceTyped,
    HistoryTyped, RecvPlaced
<1>2. TickPlaced'
  BY ClosedListed DEF ListClosed, Facts, TickPlaced
<1>3. AskedInv'
  BY ClosedListed DEF ListClosed, List, tracker, service, history, Facts, AskedInv
<1>4. ShippedInv'
  BY ClosedListed DEF ListClosed, Facts, ShippedInv
<1> QED BY <1>1, <1>2, <1>3, <1>4 DEF Facts

LEMMA ReadCommentsFacts == ASSUME Facts, ReadComments PROVE Facts'
<1>1. PICK i \in tick.todo :
        tick' = [tick EXCEPT !.issue = i, !.rec = footer[i], !.shipped = ShippedSince(i, footer[i]),
                   !.orphan = footer[i] = NoRecord,
                   !.pc = IF footer[i] = NoRecord THEN "unlock" ELSE "turn"]
  BY DEF ReadComments
<1>2. i \in Issues /\ footer[i] \in Records /\ tick.pc = "next"
  BY DEF Facts, TickPlaced, TickType, TrackerTyped, ReadComments
<1>3. ShippedSince(i, footer[i]) \in BOOLEAN /\ (footer[i] = NoRecord) \in BOOLEAN
  BY DEF ShippedSince
<1>4. /\ tick' \in TickType /\ tick'.issue = i /\ tick'.rec = footer[i]
      /\ tick'.pc = IF footer[i] = NoRecord THEN "unlock" ELSE "turn"
      /\ tick'.shipped = ShippedSince(i, footer[i]) /\ tick'.orphan = (footer[i] = NoRecord)
  BY <1>1, <1>2, <1>3 DEF Facts, TickPlaced, TickType, TickPhases
<1>5. UNCHANGED <<tracker, service, recv, bounds, history>>
  BY DEF ReadComments
<1>6. TrackerTyped' /\ ServiceTyped' /\ HistoryTyped' /\ RecvPlaced'
  BY <1>5 DEF tracker, service, bounds, history, Facts, TrackerTyped, ServiceTyped, HistoryTyped,
    RecvPlaced
<1>7. TickPlaced' /\ ShippedInv'
  BY <1>2, <1>4, <1>5 DEF tracker, TickPlaced, ShippedInv, ShippedSince
<1>8. AskedInv'
  BY <1>2, <1>4, <1>5 DEF tracker, service, history, Facts, AskedInv
<1> QED BY <1>6, <1>7, <1>8 DEF Facts

LEMMA ReadTurnFacts == ASSUME Facts, ReadTurn PROVE Facts'
<1>1. TrackerTyped' /\ ServiceTyped' /\ HistoryTyped' /\ RecvPlaced'
  BY DEF ReadTurn, tracker, service, bounds, history, Facts, TrackerTyped, ServiceTyped, HistoryTyped,
    RecvPlaced
<1>2. TickPlaced'
  BY DoneWith DEF ReadTurn, ActOn, Facts, TickPlaced, TickType, TickPhases
<1>3. AskedInv'
  BY DoneWith DEF ReadTurn, ActOn, tracker, service, history, Facts, AskedInv, TickPlaced
<1>4. ShippedInv'
  BY DoneWith DEF ReadTurn, ActOn, tracker, Facts, ShippedInv, TickPlaced
<1> QED BY <1>1, <1>2, <1>3, <1>4 DEF Facts

LEMMA TurnUnknownFacts == ASSUME Facts, TurnUnknown PROVE Facts'
<1>1. TrackerTyped' /\ ServiceTyped' /\ RecvPlaced'
  BY DEF TurnUnknown, tracker, service, Facts, TrackerTyped, ServiceTyped, RecvPlaced
<1>2. HistoryTyped'
  BY DEF TurnUnknown, history, Facts, HistoryTyped
<1>3. TickPlaced'
  BY DoneWith DEF TurnUnknown, ActOn, Facts, TickPlaced, TickType, TickPhases
<1>4. AskedInv'
  BY DoneWith DEF TurnUnknown, ActOn, tracker, service, history, Facts, AskedInv, TickPlaced
<1>5. ShippedInv'
  BY DoneWith DEF TurnUnknown, ActOn, tracker, Facts, ShippedInv, TickPlaced
<1> QED BY <1>1, <1>2, <1>3, <1>4, <1>5 DEF Facts

LEMMA UnlockFacts == ASSUME Facts, Unlock PROVE Facts'
<1>1. ServiceTyped' /\ HistoryTyped' /\ RecvPlaced'
  BY DEF Unlock, service, bounds, history, Facts, ServiceTyped, HistoryTyped, RecvPlaced
<1>2. TrackerTyped'
  BY DEF Unlock, Remove, Facts, TrackerTyped
<1>3. TickPlaced'
  BY DoneWith DEF Unlock, Facts, TickPlaced, TickType, TickPhases
<1>4. AskedInv'
  BY DoneWith DEF Unlock, Remove, service, history, Facts, AskedInv, TickPlaced
<1>5. ShippedInv'
  BY DoneWith DEF Unlock, Facts, ShippedInv, TickPlaced
<1> QED BY <1>1, <1>2, <1>3, <1>4, <1>5 DEF Facts

LEMMA HandOverFacts == ASSUME Facts, HandOver PROVE Facts'
<1>1. ServiceTyped' /\ RecvPlaced'
  BY DEF HandOver, service, Facts, ServiceTyped, RecvPlaced
<1>2. TrackerTyped'
  BY DEF HandOver, Add, Facts, TrackerTyped, Labels
<1>3. HistoryTyped'
  BY DEF HandOver, bounds, Facts, HistoryTyped
<1>4. TickPlaced'
  BY DoneWith DEF HandOver, Facts, TickPlaced
<1>5. AskedInv'
  <2>1. tick'.pc \in {"idle", "sweep", "next"} /\ tick'.rec = NoRecord
    BY DoneWith DEF HandOver, Facts, TickPlaced
  <2>2. \A i \in Issues : "approved" \in labels'[i] => "approved" \in labels[i]
    BY DEF HandOver, Add, Facts, TrackerTyped, HumanLabel
  <2>3. UNCHANGED <<owner, footer, approver, hooks, recv, asked>>
    BY DEF HandOver, service
  <2> QED BY <2>1, <2>2, <2>3 DEF Facts, AskedInv
<1>6. ShippedInv'
  BY DoneWith DEF HandOver, Facts, ShippedInv, TickPlaced
<1> QED BY <1>1, <1>2, <1>3, <1>4, <1>5, <1>6 DEF Facts

LEMMA ResubmitFacts == ASSUME Facts, Resubmit PROVE Facts'
<1>1. TrackerTyped' /\ RecvPlaced'
  BY DEF Resubmit, tracker, Facts, TrackerTyped, RecvPlaced
<1>2. PICK j \in Unused : Start(tick.issue, j) /\ tick' = [tick EXCEPT !.pc = "persist", !.job = j]
  BY DEF Resubmit
<1>3. j \in Jobs /\ j # None
  BY DEF Unused, Jobs, None
<1>4. tick.issue \in Issues /\ tick.rec # NoRecord /\ tick.issue \in asked
  BY DEF Resubmit, Facts, TickPlaced, AskedInv
<1>5. /\ tick' \in TickType /\ tick'.pc = "persist" /\ tick'.issue = tick.issue /\ tick'.job = j
      /\ tick'.rec = tick.rec
  BY <1>2, <1>3 DEF Facts, TickPlaced, TickType, TickPhases
<1>6. ServiceTyped' /\ HistoryTyped'
  <2>1. fresh' \subseteq Issues /\ reply' \subseteq Issues /\ asked' = asked /\ faults' = faults
    BY <1>2, <1>4, StartsFor DEF Resubmit, bounds, Facts
  <2> QED BY <1>2, <1>4, <2>1, StartsFor DEF Facts, ServiceTyped, HistoryTyped
<1>7. TickPlaced' /\ ShippedInv'
  BY <1>3, <1>4, <1>5 DEF TickPlaced, ShippedInv
<1>8. AskedInv'
  <2>1. asked' = asked /\ \A k \in Jobs : owner'[k] = owner[k] \/ owner'[k] = tick.issue
    BY <1>2, <1>4, StartsFor DEF Facts
  <2>2. UNCHANGED <<labels, approver, footer, hooks, recv>>
    BY DEF Resubmit, tracker
  <2> QED BY <1>4, <1>5, <2>1, <2>2 DEF Facts, AskedInv
<1> QED BY <1>1, <1>6, <1>7, <1>8 DEF Facts

LEMMA PersistFacts == ASSUME Facts, Persist PROVE Facts'
<1>1. ServiceTyped' /\ HistoryTyped' /\ RecvPlaced'
  BY DEF Persist, service, bounds, history, Facts, ServiceTyped, HistoryTyped, RecvPlaced
<1>2. TrackerTyped'
  <2>1. tick.issue \in Issues /\ tick.job \in Jobs /\ tick.rec \in Records /\ tick.rec # NoRecord
    BY DEF Persist, Facts, TickPlaced, TickType
  <2>2. tick.rec \in [job : Jobs, start : Jobs, redispatches : Nat]
    BY <2>1 DEF Records
  <2>3. [tick.rec EXCEPT !.job = tick.job, !.redispatches = @ + 1]
          \in [job : Jobs, start : Jobs, redispatches : Nat]
    <3>1. tick.rec.redispatches \in Nat /\ tick.rec.redispatches + 1 \in Nat
      BY <2>2
    <3> DEFINE n == tick.rec.redispatches + 1
    <3>2. n \in Nat
      BY <3>1
    <3> HIDE DEF n
    <3>3. [tick.rec EXCEPT !.job = tick.job, !.redispatches = n]
            \in [job : Jobs, start : Jobs, redispatches : Nat]
      BY <2>1, <2>2, <3>2
    <3> QED BY <3>3 DEF n
  <2> DEFINE rec == [tick.rec EXCEPT !.job = tick.job, !.redispatches = @ + 1]
  <2>5. rec \in Records
    BY <2>3 DEF Records
  <2> HIDE DEF rec
  <2>4. footer' \in [Issues -> Records]
    BY <2>5 DEF Persist, Facts, TrackerTyped, rec
  <2> QED BY <2>4 DEF Persist, Facts, TrackerTyped
<1>3. TickPlaced'
  BY DoneWith DEF Persist, Facts, TickPlaced
<1>4. AskedInv'
  <2>1. tick'.pc \in {"idle", "sweep", "next"} /\ tick'.rec = NoRecord
    BY DoneWith DEF Persist, Facts, TickPlaced
  <2>2. tick.issue \in asked
    BY DEF Persist, Facts, TickPlaced, AskedInv
  <2>3. \A i \in Issues : footer'[i] # NoRecord => footer[i] # NoRecord \/ i = tick.issue
    BY DEF Persist, Facts, TrackerTyped
  <2>4. UNCHANGED <<owner, approver, labels, hooks, recv, asked>>
    BY DEF Persist, service, history
  <2> QED BY <2>1, <2>2, <2>3, <2>4 DEF Facts, AskedInv
<1>5. ShippedInv'
  BY DoneWith DEF Persist, Facts, ShippedInv, TickPlaced
<1> QED BY <1>1, <1>2, <1>3, <1>4, <1>5 DEF Facts

LEMMA TickFailsFacts == ASSUME Facts, TickFails PROVE Facts'
<1>1. TrackerTyped' /\ ServiceTyped' /\ RecvPlaced'
  BY DEF TickFails, tracker, service, Facts, TrackerTyped, ServiceTyped, RecvPlaced
<1>2. HistoryTyped'
  BY DEF TickFails, history, Facts, HistoryTyped
<1>3. TickPlaced'
  BY AtRest, RestsAt DEF TickFails, Facts, TickPlaced
<1>4. AskedInv'
  BY AtRest, RestsAt DEF TickFails, tracker, service, history, Facts, AskedInv
<1>5. ShippedInv'
  BY AtRest, RestsAt DEF TickFails, Facts, ShippedInv
<1> QED BY <1>1, <1>2, <1>3, <1>4, <1>5 DEF Facts

LEMMA RestartFacts == ASSUME Facts, Restart PROVE Facts'
<1>1. TrackerTyped' /\ HistoryTyped' /\ TickPlaced' /\ RecvPlaced' /\ AskedInv' /\ ShippedInv'
  BY DEF Restart, tracker, history, Facts, TrackerTyped, HistoryTyped, TickPlaced, RecvPlaced, AskedInv,
    ShippedInv
<1>2. ServiceTyped'
  BY DEF Restart, Facts, ServiceTyped
<1> QED BY <1>1, <1>2 DEF Facts

LEMMA ReceiveFacts ==
  ASSUME Facts, NEW d \in hooks \cup BotDeliveries, Receive(d) PROVE Facts'
<1>1. recv.pc = "idle" /\ recv.job = None
  BY DEF Receive, Facts, RecvPlaced
<1>2. /\ UNCHANGED <<open, labels, approver, footer, shipped, service, tick, bounds, asked>>
      /\ hooks' \subseteq hooks
      /\ fresh' \subseteq fresh \cup {d.issue} /\ reply' \subseteq reply \cup {d.issue}
  BY DEF Receive
<1>3. d.issue \in Issues
  BY DEF Facts, TrackerTyped, BotDeliveries
<1>4. RecvPlaced' /\ (recv'.pc # "idle" => recv'.issue \in asked)
  <2>1. CASE Admitted(d)
    <3>1. d.issue \in asked
      BY <2>1, AdmittedIsAsked
    <3> DEFINE continuing == Decide(d) = "continue"
               human == HumanLabel \in d.labels
    <3>2. \E pc \in {"clear", "lock"} :
            recv' = [recv EXCEPT !.pc = pc, !.issue = d.issue, !.continuing = continuing, !.human = human]
      BY <2>1 DEF Receive
    <3>3. continuing \in BOOLEAN /\ human \in BOOLEAN
      OBVIOUS
    <3> HIDE DEF continuing, human
    <3>4. recv' \in RecvType /\ recv'.pc \in {"clear", "lock"} /\ recv'.issue = d.issue /\ recv'.job = recv.job
      BY <1>3, <3>2, <3>3 DEF Facts, RecvPlaced, RecvType
    <3> QED BY <1>1, <1>3, <3>1, <3>4 DEF RecvPlaced
  <2>2. CASE ~Admitted(d)
    <3>1. recv' = recv
      BY <2>2 DEF Receive
    <3> QED BY <1>1, <3>1 DEF Facts, RecvPlaced
  <2> QED BY <2>1, <2>2
<1>5. TrackerTyped' /\ ServiceTyped' /\ HistoryTyped'
  BY <1>2, <1>3 DEF Facts, TrackerTyped, ServiceTyped, HistoryTyped, service, bounds
<1>6. TickPlaced' /\ ShippedInv'
  BY <1>2 DEF Facts, TickPlaced, ShippedInv
<1>7. AskedInv'
  BY <1>2, <1>4 DEF Facts, AskedInv, service
<1> QED BY <1>4, <1>5, <1>6, <1>7 DEF Facts

(* An agent that works is an issue's. *)
LEMMA WorksFor == ASSUME ServiceTyped, NEW j \in Jobs, status[j] = "live" PROVE owner[j] \in Issues
BY DEF ServiceTyped

LEMMA AgentAsksFacts == ASSUME Facts, NEW j \in Jobs, AgentAsks(j) PROVE Facts'
<1>1. owner[j] \in Issues /\ reply' \subseteq reply
  BY WorksFor DEF AgentAsks, Facts
<1>2. UNCHANGED <<open, approver, footer, shipped, hooks, service, tick, recv, bounds, asked, fresh>>
  BY DEF AgentAsks
<1>3. /\ labels' \in [Issues -> SUBSET Labels]
      /\ \A i \in Issues : "approved" \in labels'[i] => "approved" \in labels[i]
  BY <1>1 DEF AgentAsks, Add, Facts, TrackerTyped, HumanLabel, Labels
<1>4. TrackerTyped' /\ ServiceTyped' /\ HistoryTyped'
  BY <1>1, <1>2, <1>3 DEF Facts, TrackerTyped, ServiceTyped, HistoryTyped, service, bounds
<1>5. TickPlaced' /\ RecvPlaced' /\ ShippedInv'
  BY <1>2 DEF Facts, TickPlaced, RecvPlaced, ShippedInv
<1>6. AskedInv'
  BY <1>2, <1>3 DEF Facts, AskedInv, service
<1> QED BY <1>4, <1>5, <1>6 DEF Facts

LEMMA AgentShipsFacts == ASSUME Facts, NEW j \in Jobs, AgentShips(j) PROVE Facts'
<1>1. owner[j] \in Issues
  BY WorksFor DEF AgentShips, Facts
<1>2. UNCHANGED <<open, labels, approver, footer, hooks, service, recv, bounds, history>>
  BY DEF AgentShips
<1>3. shipped' \in [Issues -> Jobs \cup {None}] /\ \A i \in Issues \ {owner[j]} : shipped'[i] = shipped[i]
  <2> DEFINE now == Cardinality(Jobs \ Unused)
  <2>1. now \in Jobs \cup {None} /\ shipped' = [shipped EXCEPT ![owner[j]] = now]
    BY NewestJob DEF AgentShips
  <2> HIDE DEF now
  <2> QED BY <1>1, <2>1 DEF Facts, TrackerTyped
<1>4. PICK late \in BOOLEAN :
        /\ tick' = [tick EXCEPT !.late = late]
        /\ late <=> tick.late \/ (tick.issue = owner[j] /\ tick.pc \in {"turn", "unlock", "hand"})
  <2> DEFINE late == tick.late \/ (tick.issue = owner[j] /\ tick.pc \in {"turn", "unlock", "hand"})
  <2>1. tick' = [tick EXCEPT !.late = late]
    BY DEF AgentShips
  <2> QED BY <2>1
<1>5. TrackerTyped' /\ ServiceTyped' /\ HistoryTyped'
  BY <1>2, <1>3 DEF Facts, TrackerTyped, ServiceTyped, HistoryTyped, service, bounds, history
<1>6. /\ tick' \in TickType /\ tick'.late = late /\ tick'.pc = tick.pc /\ tick'.issue = tick.issue
      /\ tick'.ready = tick.ready /\ tick'.rec = tick.rec /\ tick'.orphan = tick.orphan
      /\ tick'.shipped = tick.shipped /\ tick'.job = tick.job
  BY <1>4 DEF Facts, TickPlaced, TickType
<1>7. TickPlaced' /\ RecvPlaced'
  BY <1>2, <1>6 DEF Facts, TickPlaced, RecvPlaced
<1>8. ShippedInv'
  BY <1>3, <1>4, <1>6 DEF Facts, TickPlaced, ShippedInv
<1>9. AskedInv'
  BY <1>2, <1>6 DEF Facts, AskedInv, service, history
<1> QED BY <1>5, <1>7, <1>8, <1>9 DEF Facts

LEMMA AgentClosesFacts == ASSUME Facts, NEW j \in Jobs, AgentCloses(j) PROVE Facts'
<1>1. UNCHANGED <<labels, approver, footer, shipped, hooks, service, tick, recv, bounds, asked, fresh>>
      /\ open' \subseteq open /\ reply' \subseteq reply
  BY DEF AgentCloses
<1>2. TrackerTyped' /\ ServiceTyped' /\ HistoryTyped'
  BY <1>1 DEF Facts, TrackerTyped, ServiceTyped, HistoryTyped, service, bounds
<1> QED BY <1>1, <1>2 DEF Facts, TickPlaced, RecvPlaced, ShippedInv, AskedInv, service

LEMMA JobEndsFacts == ASSUME Facts, NEW j \in Jobs, JobEnds(j) PROVE Facts'
<1>1. UNCHANGED <<tracker, owner, tick, recv, bounds, history>>
      /\ status[j] = "live" /\ status' = [status EXCEPT ![j] = "ended"]
  BY DEF JobEnds
<1>2. ServiceTyped'
  BY <1>1 DEF Facts, ServiceTyped
<1> QED BY <1>1, <1>2 DEF Facts, TrackerTyped, HistoryTyped, TickPlaced, RecvPlaced, ShippedInv, AskedInv,
                           tracker, bounds, history

(* What a person does to an issue keeps what was asked for. *)
LEMMA ActFacts ==
  ASSUME Facts, NEW i \in Issues, NEW actor, NEW event, NEW relay, Act(i, actor, event, relay),
         open' \subseteq Issues, labels' \in [Issues -> SUBSET Labels], approver' \in [Issues -> People],
         \A k \in Issues : approver'[k] = Owner /\ "approved" \in labels'[k] =>
           \/ approver[k] = Owner /\ "approved" \in labels[k]
           \/ k = i /\ actor = Owner
  PROVE  Facts'
<1>1. /\ UNCHANGED <<footer, shipped, service, tick, recv, faults>>
      /\ asked \subseteq asked' /\ asked' \subseteq asked \cup {i}
      /\ actor = Owner /\ "approved" \in labels'[i] => i \in asked'
      /\ fresh' \subseteq fresh \cup {i} /\ reply' \subseteq reply
      /\ hooks' = hooks \cup {Deliver(i, event, actor, relay)}
  BY DEF Act
<1>2. LET d == Deliver(i, event, actor, relay)
      IN d.repo = "tv" /\ d.issue = i /\ d.actor = actor /\ d.labels = labels'[i]
  BY DEF Deliver
<1>3. TrackerTyped' /\ ServiceTyped' /\ HistoryTyped'
  BY <1>1, <1>2 DEF Facts, TrackerTyped, ServiceTyped, HistoryTyped, service
<1>4. TickPlaced' /\ RecvPlaced' /\ ShippedInv'
  BY <1>1 DEF Facts, TickPlaced, RecvPlaced, ShippedInv
<1>5. AskedInv'
  <2>1. \A k \in Issues : approver'[k] = Owner /\ "approved" \in labels'[k] => k \in asked'
    BY <1>1 DEF Facts, AskedInv
  <2>2. \A d \in hooks' : d.actor = Owner /\ "approved" \in d.labels => d.issue \in asked'
    BY <1>1, <1>2 DEF Facts, AskedInv
  <2> QED BY <1>1, <2>1, <2>2 DEF Facts, AskedInv, service
<1> QED BY <1>3, <1>4, <1>5 DEF Facts

LEMMA ApprovesFacts ==
  ASSUME Facts, NEW i \in Issues, NEW actor \in {Owner, Guest}, Approves(i, actor) PROVE Facts'
<1>1. /\ open' = open /\ labels' = [labels EXCEPT ![i] = @ \cup {"approved"}]
      /\ approver' = [approver EXCEPT ![i] = actor] /\ Act(i, actor, "issues", FALSE)
  BY DEF Approves, Add
<1>2. open' \subseteq Issues /\ labels' \in [Issues -> SUBSET Labels] /\ approver' \in [Issues -> People]
  BY <1>1 DEF Facts, TrackerTyped, Labels, People
<1>3. \A k \in Issues : approver'[k] = Owner /\ "approved" \in labels'[k] =>
           \/ approver[k] = Owner /\ "approved" \in labels[k]
           \/ k = i /\ actor = Owner
  <2>1. TAKE k \in Issues
  <2>2. approver'[i] = actor
    BY <1>1 DEF Facts, TrackerTyped
  <2>3. k # i => approver'[k] = approver[k] /\ labels'[k] = labels[k]
    BY <1>1 DEF Facts, TrackerTyped
  <2> QED BY <2>2, <2>3
<1>4. Act(i, actor, "issues", FALSE)
  BY <1>1
<1> QED BY ONLY Facts, i \in Issues, <1>2, <1>3, <1>4, ActFacts, Zenon

LEMMA RelabelsFacts == ASSUME Facts, NEW i \in Issues, Relabels(i) PROVE Facts'
<1>1. open' = open /\ approver' = approver /\ Act(i, Owner, "issues", FALSE)
  BY DEF Relabels
<1>2. PICK s \in SUBSET Labels :
        \/ /\ "approved" \notin s
           /\ labels' \in {[labels EXCEPT ![i] = @ \ s], [labels EXCEPT ![i] = @ \cup s]}
        \/ labels' = [labels EXCEPT ![i] = @ \ {"approved"}]
  BY DEF Relabels, Add, Remove, Labels, HumanLabel, PausedLabel
<1>3. open' \subseteq Issues /\ labels' \in [Issues -> SUBSET Labels] /\ approver' \in [Issues -> People]
  BY <1>1, <1>2 DEF Facts, TrackerTyped
<1>4. \A k \in Issues : approver'[k] = Owner /\ "approved" \in labels'[k] =>
           approver[k] = Owner /\ "approved" \in labels[k]
  BY <1>1, <1>2 DEF Facts, TrackerTyped
<1> QED BY <1>1, <1>3, <1>4, ActFacts

LEMMA CommentsFacts ==
  ASSUME Facts, NEW i \in Issues, NEW actor, NEW relay, Comments(i, actor, relay) PROVE Facts'
<1>1. UNCHANGED <<open, labels, approver>> /\ Act(i, actor, "issue_comment", relay)
  BY DEF Comments
<1> QED BY <1>1, ActFacts DEF Facts, TrackerTyped

LEMMA ReopensFacts == ASSUME Facts, NEW i \in Issues, Reopens(i) PROVE Facts'
<1>1. /\ UNCHANGED <<labels, approver, footer, shipped, hooks, service, tick, recv, faults, asked>>
      /\ open' \subseteq open \cup {i} /\ fresh' = fresh \cup {i} /\ reply' \subseteq reply
  BY DEF Reopens
<1>2. TrackerTyped' /\ ServiceTyped' /\ HistoryTyped'
  BY <1>1 DEF Facts, TrackerTyped, ServiceTyped, HistoryTyped, service
<1> QED BY <1>1, <1>2 DEF Facts, TickPlaced, RecvPlaced, ShippedInv, AskedInv, service

LEMMA InitFacts == Init => Facts
<1> SUFFICES ASSUME Init PROVE Facts
  OBVIOUS
<1>1. TrackerTyped /\ HistoryTyped
  BY TvAssumption DEF Init, TrackerTyped, HistoryTyped, Labels, People, Records, ApprovalLabel
<1>2. ServiceTyped
  BY DEF Init, ServiceTyped
<1>3. TickPlaced /\ RecvPlaced /\ ShippedInv
  BY AtRest DEF Init, TickPlaced, RecvPlaced, ShippedInv
<1>4. AskedInv
  <2>1. \A i \in Issues : approver[i] = Owner => i \in asked
    BY ProfileAssumption DEF Init
  <2> QED BY <2>1, AtRest DEF Init, AskedInv
<1> QED BY <1>1, <1>2, <1>3, <1>4 DEF Facts

LEMMA StepFacts == ASSUME Facts, Receiver \/ Tick \/ Environment PROVE Facts'
<1>1. CASE Receiver
  BY <1>1, ReceiverClearsFacts, ReceiverReadsLockFacts, ReceiverSubmitsFacts, ReceiverStampsFacts,
    ReceiverReleasesFacts, ReceiverRecordsFacts DEF Receiver
<1>2. CASE Tick
  BY <1>2, ListReadyFacts, ReadLockFacts, DrainSubmitsFacts, DrainClearsFacts, DrainStampsFacts,
    DrainRecordsFacts, ListHeldFacts, ListClosedFacts, ReadCommentsFacts, ReadTurnFacts, UnlockFacts,
    HandOverFacts, ResubmitFacts, PersistFacts DEF Tick
<1>3. CASE Environment
  <2>1. CASE \E d \in hooks \cup BotDeliveries : Receive(d)
    BY <2>1, ReceiveFacts
  <2>2. CASE ReceiverFails \/ TickFails \/ TurnUnknown \/ Restart
    BY <2>2, ReceiverFailsFacts, TickFailsFacts, TurnUnknownFacts, RestartFacts
  <2>3. CASE \E j \in Jobs : AgentAsks(j) \/ AgentShips(j) \/ AgentCloses(j) \/ JobEnds(j)
    BY <2>3, AgentAsksFacts, AgentShipsFacts, AgentClosesFacts, JobEndsFacts
  <2>4. CASE \E i \in Issues : Relabels(i) \/ Reopens(i)
    BY <2>4, RelabelsFacts, ReopensFacts
  <2>5. CASE \E i \in Issues, actor \in {Owner, Guest} :
               Approves(i, actor) \/ \E relay \in BOOLEAN : Comments(i, actor, relay)
    BY <2>5, ApprovesFacts, CommentsFacts
  <2> QED BY <1>3, <2>1, <2>2, <2>3, <2>4, <2>5 DEF Environment
<1> QED BY <1>1, <1>2, <1>3

(* The facts hold in every state there ever is. *)
LEMMA FactsAlways == Spec => [](Facts /\ race \in BOOLEAN)
<1>1. Init => Facts /\ race \in BOOLEAN
  BY InitFacts DEF Init
<1>2. Facts /\ race \in BOOLEAN /\ [Next]_vars => (Facts /\ race \in BOOLEAN)'
  <2> SUFFICES ASSUME Facts, race \in BOOLEAN, [Next]_vars PROVE (Facts /\ race \in BOOLEAN)'
    OBVIOUS
  <2>1. CASE Next
    <3>1. race' \in BOOLEAN
      BY <2>1 DEF Next, Noted
    <3> QED BY <2>1, <3>1, StepFacts DEF Next
  <2>2. CASE UNCHANGED vars
    BY <2>2 DEF vars, tracker, service, bounds, history, Facts, TrackerTyped, ServiceTyped, HistoryTyped,
                TickPlaced, RecvPlaced, AskedInv, ShippedInv
  <2> QED BY <2>1, <2>2
<1> QED BY <1>1, <1>2, PTL DEF Spec

(* Every variable keeps to its values.                                      *)
THEOREM TvTypes == Spec => []TypeOK
<1>1. Facts /\ race \in BOOLEAN => TypeOK
  BY DEF Facts, TrackerTyped, ServiceTyped, HistoryTyped, TickPlaced, RecvPlaced, TickType, RecvType,
    TypeOK, People
<1> QED BY <1>1, FactsAlways, PTL

(* Every run goes back to an act of the owner, whoever else labels and      *)
(* comments, however late a delivery is, whatever fails.                    *)
THEOREM RunsGoBackToOwner == Spec => []RunsAreAsked
<1>1. Facts => RunsAreAsked
  BY DEF Facts, AskedInv, RunsAreAsked
<1> QED BY <1>1, FactsAlways, PTL

(* The owner is not told that nothing was shipped when something was.       *)
THEOREM OwnerIsToldTruly == Spec => []HandoverTruthful
<1>1. ASSUME Facts, tick.pc \in {"unlock", "hand"}, ~tick.orphan, ~tick.shipped, ~tick.late
      PROVE  shipped[tick.issue] < tick.rec.start
  <2>1. tick.issue \in Issues /\ tick.rec \in Records /\ tick.rec # NoRecord
    BY <1>1 DEF Facts, TickPlaced, TickType, ShippedInv
  <2>2. ~(shipped[tick.issue] >= tick.rec.start)
    BY <1>1 DEF Facts, ShippedInv
  <2>3. shipped[tick.issue] \in Int /\ tick.rec.start \in Int
    <3>1. tick.rec \in [job : Jobs, start : Jobs, redispatches : Nat]
      BY <2>1 DEF Records
    <3>2. tick.rec.start \in Jobs
      BY <3>1
    <3>3. shipped[tick.issue] \in Jobs \cup {None}
      BY <1>1, <2>1 DEF Facts, TrackerTyped
    <3> QED BY <3>2, <3>3 DEF Jobs, None
  <2> QED BY <2>2, <2>3
<1>2. Facts => HandoverTruthful
  BY <1>1 DEF HandoverTruthful
<1> QED BY <1>2, FactsAlways, PTL

-----------------------------------------------------------------------------
(* While no call fails and the actors keep out of each other's way.         *)

Watching == tick.pc \in {"next", "turn", "unlock", "hand", "resubmit", "persist"}
Pending == IF tick.pc = "hand" THEN tick.todo \ {tick.issue} ELSE tick.todo
Locked(i) == InProgressLabel \in labels[i]
ByPerson(i) == HumanLabel \in labels[i]

(* The handler has started a run of i and not yet locked it. *)
Stamping(i) == recv.pc = "stamp" /\ recv.issue = i

(* Nobody but the tick's queue would start i again: its owner has been heard. *)
Settled(i) == i \in fresh \/ i \notin open \/ \A j \in Jobs : owner[j] # i

(* An issue that is not settled is locked, a person's, or in the hand of an *)
(* actor that is about to see to that.                                      *)
GuardInv ==
  \A i \in Issues :
    \/ Settled(i) \/ Locked(i) \/ ByPerson(i) \/ Stamping(i)
    \/ tick.issue = i /\ tick.pc \in {"clear", "stamp", "hand"}

(* What the tick has listed for watching is locked; what it will unlock     *)
(* without a word is settled or a person's.                                 *)
WatchInv ==
  /\ Watching /\ tick.pc # "next" => tick.issue \in tick.todo
  /\ Watching => \A i \in Pending :
       /\ Locked(i)
       /\ tick.sweep \/ (i \in tick.held /\ ~(tick.pc = "persist" /\ i = tick.issue)) =>
            Settled(i) \/ (ByPerson(i) /\ ~tick.sweep) \/ Stamping(i)
  /\ tick.pc \in {"resubmit", "persist", "hand"} => ~tick.sweep

(* What the tick has listed for starting was locked when it was listed. *)
QueueInv ==
  /\ tick.pc = "listed" => \A x \in tick.ready :
       HumanLabel \notin x.labels => Settled(x.number) \/ Locked(x.number)
  /\ tick.pc = "submit" => Settled(tick.issue)

(* The handler gives an issue back to the queue for a reply only. *)
RecvInv ==
  /\ recv.pc \in {"clear", "lock", "submit", "release"} /\ recv.continuing /\ recv.job = None =>
       recv.issue \in fresh
  /\ recv.pc = "release" => recv.continuing
  /\ recv.pc \in {"release", "record"} /\ recv.job # None => Locked(recv.issue)

Order == GuardInv /\ WatchInv /\ QueueInv /\ RecvInv

-----------------------------------------------------------------------------
(* Order: one lemma for each action of the two actors.                      *)

LEMMA ReceiverClearsOrder == ASSUME Facts, Facts', Order, ~Racing, ~Racing', ReceiverClears PROVE Order'
<1>1. GuardInv'
  BY DEF ReceiverClears, Remove, service, history, Facts, ApprovalLabel, InProgressLabel, HumanLabel,
    Order, GuardInv, Settled, Locked, ByPerson, Stamping
<1>2. WatchInv'
  BY DEF ReceiverClears, Remove, service, history, Facts, ApprovalLabel, InProgressLabel, HumanLabel,
    Order, WatchInv, Watching, Pending, Settled, Locked, ByPerson, Stamping
<1>3. QueueInv'
  BY DEF ReceiverClears, Remove, service, history, Facts, ApprovalLabel, InProgressLabel, Order, QueueInv,
    Settled, Locked
<1>4. RecvInv'
  BY DEF ReceiverClears, history, Order, RecvInv
<1> QED BY <1>1, <1>2, <1>3, <1>4 DEF Order

LEMMA ReceiverReadsLockOrder ==
  ASSUME Facts, Facts', Order, ~Racing, ~Racing', ReceiverReadsLock
  PROVE  Order'
<1>1. GuardInv'
  BY DEF ReceiverReadsLock, tracker, service, history, Order, GuardInv, Settled, Locked, ByPerson,
    Stamping
<1>2. WatchInv'
  BY DEF ReceiverReadsLock, tracker, service, history, Order, WatchInv, Watching, Pending, Settled,
    Locked,
    ByPerson, Stamping
<1>3. QueueInv'
  BY DEF ReceiverReadsLock, tracker, service, history, Order, QueueInv, Settled, Locked
<1>4. RecvInv'
  BY AtRest DEF ReceiverReadsLock, history, Facts, RecvPlaced, Order, RecvInv
<1> QED BY <1>1, <1>2, <1>3, <1>4 DEF Order

LEMMA ReceiverSubmitsOrder == ASSUME Facts, Facts', Order, ~Racing, ~Racing', ReceiverSubmits PROVE Order'
<1>1. GuardInv'
  BY StartsFor DEF ReceiverSubmits, tracker, Facts, RecvPlaced, Order, GuardInv, Settled, Locked,
    ByPerson,
    Stamping
<1>2. WatchInv'
  BY StartsFor DEF ReceiverSubmits, tracker, Facts, RecvPlaced, Order, WatchInv, Watching, Pending,
    Settled, Locked, ByPerson, Stamping
<1>3. QueueInv'
  BY DEF ReceiverSubmits, Facts, Racing, Order, QueueInv
<1>4. RecvInv'
  BY DEF ReceiverSubmits, Order, RecvInv
<1> QED BY <1>1, <1>2, <1>3, <1>4 DEF Order

LEMMA ReceiverStampsOrder == ASSUME Facts, Facts', Order, ~Racing, ~Racing', ReceiverStamps PROVE Order'
<1>1. GuardInv'
  BY DEF ReceiverStamps, Add, service, history, Facts, TrackerTyped, Order, GuardInv, Settled, Locked,
    ByPerson, Stamping
<1>2. WatchInv'
  BY DEF ReceiverStamps, Facts, Racing, Order, WatchInv, Watching
<1>3. QueueInv'
  BY DEF ReceiverStamps, Add, service, history, Order, QueueInv, Settled, Locked
<1>4. RecvInv'
  BY DEF ReceiverStamps, Add, Facts, TrackerTyped, RecvPlaced, Order, RecvInv, Locked
<1> QED BY <1>1, <1>2, <1>3, <1>4 DEF Order

LEMMA ReceiverReleasesOrder ==
  ASSUME Facts, Facts', Order, ~Racing, ~Racing', ReceiverReleases
  PROVE  Order'
<1>1. GuardInv'
  BY DEF ReceiverReleases, Remove, service, history, Facts, InProgressLabel, HumanLabel, RecvInv, Order,
    GuardInv, Settled, Locked, ByPerson, Stamping
<1>2. WatchInv'
  BY DEF ReceiverReleases, Facts, Racing, Order, WatchInv, Watching
<1>3. QueueInv'
  BY DEF ReceiverReleases, Remove, service, history, Facts, InProgressLabel, HumanLabel, Order, QueueInv,
    Settled, Locked
<1>4. RecvInv'
  BY AtRest DEF ReceiverReleases, Remove, Facts, InProgressLabel, HumanLabel, Order, RecvInv, Locked
<1> QED BY <1>1, <1>2, <1>3, <1>4 DEF Order

LEMMA ReceiverRecordsOrder == ASSUME Facts, Facts', Order, ~Racing, ~Racing', ReceiverRecords PROVE Order'
<1>1. GuardInv'
  BY DEF ReceiverRecords, service, history, Order, GuardInv, Settled, Locked, ByPerson, Stamping
<1>2. WatchInv'
  BY DEF ReceiverRecords, service, history, Order, WatchInv, Watching, Pending, Settled, Locked, ByPerson,
    Stamping
<1>3. QueueInv'
  BY DEF ReceiverRecords, service, history, Order, QueueInv, Settled, Locked
<1>4. RecvInv'
  BY AtRest DEF ReceiverRecords, Order, RecvInv
<1> QED BY <1>1, <1>2, <1>3, <1>4 DEF Order

LEMMA ListReadyOrder == ASSUME Facts, Facts', Order, ~Racing, ~Racing', ListReady PROVE Order'
<1> DEFINE ready == {Raw(i) : i \in open \cap Carrying("approved")}
<1>1. UNCHANGED <<open, labels, owner, fresh, recv>> /\ tick.pc = "idle"
  BY DEF ListReady, tracker, service, history
<1>2. tick' = [Resting EXCEPT !.pc = "listed", !.ready = ready]
  BY DEF ListReady
<1>3. \A x \in ready : \E i \in Issues : x.number = i /\ x.labels = labels[i] \cap {HumanLabel}
  BY DEF Raw, Carrying
<1> HIDE DEF ready
<1>4. tick'.pc = "listed" /\ tick'.ready = ready
  BY <1>2 DEF TickType
<1>5. \A i \in Issues : Settled(i) \/ Locked(i) \/ ByPerson(i)
  BY <1>1, <1>4 DEF Order, GuardInv, Stamping, Racing
<1>6. GuardInv'
  BY <1>1, <1>5 DEF GuardInv, Settled, Locked, ByPerson
<1>7. QueueInv'
  <2>1. \A x \in ready : HumanLabel \notin x.labels => Settled(x.number) \/ Locked(x.number)
    BY <1>3, <1>5 DEF ByPerson
  <2> QED BY <1>1, <1>4, <2>1 DEF QueueInv, Settled, Locked
<1>8. WatchInv' /\ RecvInv'
  BY <1>1, <1>4 DEF Order, WatchInv, Watching, RecvInv, Locked
<1> QED BY <1>6, <1>7, <1>8 DEF Order

LEMMA ReadLockOrder == ASSUME Facts, Facts', Order, ~Racing, ~Racing', ReadLock PROVE Order'
<1>1. UNCHANGED <<open, labels, owner, fresh, recv>> /\ tick.pc = "listed"
  BY DEF ReadLock, tracker, service, history
<1>2. GuardInv'
  BY <1>1 DEF Order, GuardInv, Settled, Locked, ByPerson, Stamping
<1>3. WatchInv' /\ RecvInv'
  BY <1>1, LockRead DEF Order, WatchInv, Watching, RecvInv, Locked
<1>4. QueueInv'
  <2>1. SUFFICES ASSUME tick'.pc = "submit" PROVE Settled(tick'.issue)
    BY <1>1, LockRead DEF QueueInv, Settled
  <2>2. PICK x \in tick.ready : tick'.issue = x.number /\ x.number \in Issues /\ HumanLabel \notin x.labels
    BY <2>1, LockRead
  <2>3. Settled(x.number) \/ Locked(x.number)
    BY <1>1, <2>2 DEF Order, QueueInv
  <2>4. Locked(x.number) => x.number \notin open
    BY <2>1, <2>2, LockRead DEF Locked, Held, Carrying
  <2> QED BY <2>2, <2>3, <2>4 DEF Settled
<1> QED BY <1>2, <1>3, <1>4 DEF Order

LEMMA DrainSubmitsOrder == ASSUME Facts, Facts', Order, ~Racing, ~Racing', DrainSubmits PROVE Order'
<1>1. /\ tick.pc = "submit" /\ tick.issue \in Issues /\ tick'.issue = tick.issue /\ tick'.pc \in {"clear", "stamp"}
      /\ UNCHANGED <<open, labels, recv>> /\ recv.pc = "idle"
  BY DEF DrainSubmits, tracker, ServiceAnswers, Facts, TickPlaced
<1>2. \A i \in Issues \ {tick.issue} : Settled(i) => Settled(i)'
  <2>1. PICK j \in Unused : Start(tick.issue, j)
    BY DEF DrainSubmits
  <2>2. /\ fresh' = fresh \ {tick.issue}
        /\ \A i \in Issues \ {tick.issue} : \A k \in Jobs : owner'[k] = i => owner[k] = i
    BY <1>1, <2>1, StartsFor DEF Facts
  <2> QED BY <1>1, <2>2 DEF Settled
<1>3. GuardInv'
  <2>1. \A i \in Issues \ {tick.issue} : Settled(i) \/ Locked(i) \/ ByPerson(i) \/ Stamping(i)
    BY DEF Order, GuardInv
  <2> QED BY <1>1, <1>2, <2>1 DEF GuardInv, Locked, ByPerson, Stamping
<1>4. WatchInv' /\ QueueInv' /\ RecvInv'
  BY <1>1 DEF WatchInv, Watching, QueueInv, RecvInv
<1> QED BY <1>3, <1>4 DEF Order

LEMMA DrainClearsOrder == ASSUME Facts, Facts', Order, ~Racing, ~Racing', DrainClears PROVE Order'
<1>1. GuardInv'
  BY DEF DrainClears, Remove, service, history, Order, GuardInv, Settled, Locked, ByPerson, Stamping
<1>2. WatchInv'
  BY DEF DrainClears, Order, WatchInv, Watching
<1>3. QueueInv'
  BY DEF DrainClears, Order, QueueInv
<1>4. RecvInv'
  BY DEF DrainClears, Remove, history, Facts, ApprovalLabel, InProgressLabel, Order, RecvInv, Locked
<1> QED BY <1>1, <1>2, <1>3, <1>4 DEF Order

LEMMA DrainStampsOrder == ASSUME Facts, Facts', Order, ~Racing, ~Racing', DrainStamps PROVE Order'
<1>1. GuardInv'
  BY DEF DrainStamps, Add, service, history, Facts, TrackerTyped, Order, GuardInv, Settled, Locked,
    ByPerson, Stamping
<1>2. WatchInv'
  BY DEF DrainStamps, Order, WatchInv, Watching
<1>3. QueueInv'
  BY DEF DrainStamps, Order, QueueInv
<1>4. RecvInv'
  BY DEF DrainStamps, Add, history, Order, RecvInv, Locked
<1> QED BY <1>1, <1>2, <1>3, <1>4 DEF Order

LEMMA DrainRecordsOrder == ASSUME Facts, Facts', Order, ~Racing, ~Racing', DrainRecords PROVE Order'
<1>1. GuardInv'
  BY DEF DrainRecords, service, history, Order, GuardInv, Settled, Locked, ByPerson, Stamping
<1>2. WatchInv'
  BY DEF DrainRecords, Order, WatchInv, Watching
<1>3. QueueInv'
  BY DEF DrainRecords, Order, QueueInv
<1>4. RecvInv'
  BY DEF DrainRecords, history, Order, RecvInv, Locked
<1> QED BY <1>1, <1>2, <1>3, <1>4 DEF Order

LEMMA ListHeldOrder == ASSUME Facts, Facts', Order, ~Racing, ~Racing', ListHeld PROVE Order'
<1>1. GuardInv'
  BY DEF ListHeld, List, tracker, service, history, Order, GuardInv, Settled, Locked, ByPerson, Stamping
<1>2. WatchInv'
  BY DEF ListHeld, Held, Carrying, List, tracker, Order, WatchInv, Watching, Pending, Locked, ByPerson
<1>3. QueueInv'
  BY DEF ListHeld, List, Order, QueueInv
<1>4. RecvInv'
  BY DEF ListHeld, List, tracker, history, Order, RecvInv, Locked
<1> QED BY <1>1, <1>2, <1>3, <1>4 DEF Order

LEMMA ListClosedOrder == ASSUME Facts, Facts', Order, ~Racing, ~Racing', ListClosed PROVE Order'
<1>1. GuardInv'
  BY DEF ListClosed, List, tracker, service, history, Order, GuardInv, Settled, Locked, ByPerson, Stamping
<1>2. WatchInv'
  BY ClosedListed DEF ListClosed, Carrying, List, tracker, Facts, Order, WatchInv, Watching, Pending,
    Settled, Locked
<1>3. QueueInv'
  BY ClosedListed DEF ListClosed, Facts, Order, QueueInv
<1>4. RecvInv'
  BY DEF ListClosed, List, tracker, history, Order, RecvInv, Locked
<1> QED BY <1>1, <1>2, <1>3, <1>4 DEF Order

LEMMA ReadCommentsOrder == ASSUME Facts, Facts', Order, ~Racing, ~Racing', ReadComments PROVE Order'
<1>1. GuardInv'
  BY DEF ReadComments, tracker, service, history, Order, GuardInv, Settled, Locked, ByPerson, Stamping
<1>2. WatchInv'
  BY DEF ReadComments, tracker, service, history, Order, WatchInv, Watching, Pending, Settled, Locked,
    ByPerson, Stamping
<1>3. QueueInv'
  BY DEF ReadComments, Order, QueueInv
<1>4. RecvInv'
  BY DEF ReadComments, tracker, history, Order, RecvInv, Locked
<1> QED BY <1>1, <1>2, <1>3, <1>4 DEF Order

LEMMA ReadTurnOrder == ASSUME Facts, Facts', Order, ~Racing, ~Racing', ReadTurn PROVE Order'
<1>1. GuardInv'
  BY DEF ReadTurn, tracker, service, history, Order, GuardInv, Settled, Locked, ByPerson, Stamping
<1>2. WatchInv'
  BY DoneWith DEF ReadTurn, ActOn, tracker, service, history, Facts, TickPlaced, Order, WatchInv,
    Watching,
    Pending, Settled, Locked, ByPerson, Stamping
<1>3. QueueInv'
  BY DoneWith DEF ReadTurn, ActOn, Facts, TickPlaced, Order, QueueInv
<1>4. RecvInv'
  BY DEF ReadTurn, tracker, history, Order, RecvInv, Locked
<1> QED BY <1>1, <1>2, <1>3, <1>4 DEF Order

(* The unlock: what goes without a word is settled, a person's, or the      *)
(* handler's; what does not is in the tick's hand until the person has it.  *)
LEMMA UnlockOrder == ASSUME Facts, Facts', Order, ~Racing, ~Racing', Unlock PROVE Order'
<1>1. /\ UNCHANGED <<open, owner, fresh, recv>> /\ tick.pc = "unlock"
      /\ tick.issue \in tick.todo /\ tick.todo \subseteq Issues
  BY DEF Unlock, service, history, Facts, TickPlaced, TickType, Order, WatchInv, Watching
<1>2. \A i \in Issues :
        /\ Settled(i) => Settled(i)'
        /\ ByPerson(i) => ByPerson(i)'
        /\ Stamping(i) => Stamping(i)'
        /\ i # tick.issue /\ Locked(i) => Locked(i)'
  BY <1>1 DEF Unlock, Remove, Facts, Settled, Locked, ByPerson, Stamping, InProgressLabel, HumanLabel
<1>3. \/ /\ tick'.pc \in {"idle", "sweep", "next"} /\ (tick.sweep \/ tick.issue \in tick.held)
         /\ tick'.pc = "next" => /\ tick'.todo = tick.todo \ {tick.issue} /\ tick'.held = tick.held
                                 /\ tick'.sweep = tick.sweep
      \/ /\ tick'.pc = "hand" /\ ~tick.sweep /\ tick'.issue = tick.issue /\ tick'.todo = tick.todo
         /\ tick'.held = tick.held /\ tick'.sweep = tick.sweep
  BY DoneWith DEF Unlock, Facts, TickPlaced
<1>4. tick.sweep \/ tick.issue \in tick.held =>
        Settled(tick.issue) \/ ByPerson(tick.issue) \/ Stamping(tick.issue)
  BY <1>1 DEF Order, WatchInv, Watching, Pending
<1>5. GuardInv'
  <2>1. \A i \in Issues \ {tick.issue} : Settled(i) \/ Locked(i) \/ ByPerson(i) \/ Stamping(i)
    BY DEF Order, GuardInv
  <2> QED BY <1>1, <1>2, <1>3, <1>4, <2>1 DEF GuardInv
<1>6. WatchInv'
  <2>1. \A i \in tick.todo \ {tick.issue} :
          /\ Locked(i)
          /\ tick.sweep \/ i \in tick.held => Settled(i) \/ (ByPerson(i) /\ ~tick.sweep) \/ Stamping(i)
    BY <1>1 DEF Order, WatchInv, Watching, Pending
  <2>2. \A i \in tick.todo \ {tick.issue} :
          /\ Locked(i)'
          /\ tick.sweep \/ i \in tick.held => Settled(i)' \/ (ByPerson(i)' /\ ~tick.sweep) \/ Stamping(i)'
    BY <1>1, <1>2, <2>1
  <2> QED BY <1>1, <1>3, <2>2 DEF WatchInv, Watching, Pending
<1>7. QueueInv'
  BY <1>3 DEF QueueInv
<1>8. RecvInv'
  BY <1>1 DEF Order, RecvInv, Racing
<1> QED BY <1>5, <1>6, <1>7, <1>8 DEF Order

LEMMA HandOverOrder == ASSUME Facts, Facts', Order, ~Racing, ~Racing', HandOver PROVE Order'
<1>1. GuardInv'
  BY DEF HandOver, Add, service, Facts, TrackerTyped, Order, GuardInv, Settled, Locked, ByPerson, Stamping
<1>2. WatchInv'
  BY DoneWith DEF HandOver, Add, service, Facts, TickPlaced, Order, WatchInv, Watching, Pending, Settled,
    Locked, ByPerson, Stamping
<1>3. QueueInv'
  BY DoneWith DEF HandOver, Facts, TickPlaced, Order, QueueInv
<1>4. RecvInv'
  BY DEF HandOver, Add, Order, RecvInv, Locked
<1> QED BY <1>1, <1>2, <1>3, <1>4 DEF Order

LEMMA ResubmitOrder == ASSUME Facts, Facts', Order, ~Racing, ~Racing', Resubmit PROVE Order'
<1>1. GuardInv'
  BY StartsFor DEF Resubmit, tracker, Facts, TickPlaced, WatchInv, Watching, Pending, Order, GuardInv,
    Settled, Locked, ByPerson, Stamping
<1>2. WatchInv'
  BY StartsFor DEF Resubmit, tracker, Facts, TickPlaced, Order, WatchInv, Watching, Pending, Settled,
    Locked, ByPerson, Stamping
<1>3. QueueInv'
  BY DEF Resubmit, Order, QueueInv
<1>4. RecvInv'
  BY DEF Resubmit, Facts, ServiceAnswers, Order, RecvInv
<1> QED BY <1>1, <1>2, <1>3, <1>4 DEF Order

LEMMA PersistOrder == ASSUME Facts, Facts', Order, ~Racing, ~Racing', Persist PROVE Order'
<1>1. GuardInv'
  BY DEF Persist, service, history, Order, GuardInv, Settled, Locked, ByPerson, Stamping
<1>2. WatchInv'
  BY DoneWith DEF Persist, service, history, Facts, TickPlaced, Order, WatchInv, Watching, Pending,
    Settled, Locked, ByPerson, Stamping
<1>3. QueueInv'
  BY DoneWith DEF Persist, Facts, TickPlaced, Order, QueueInv
<1>4. RecvInv'
  BY DEF Persist, history, Order, RecvInv, Locked
<1> QED BY <1>1, <1>2, <1>3, <1>4 DEF Order

LEMMA RestartOrder == ASSUME Facts, Facts', Order, ~Racing, ~Racing', Restart PROVE Order'
<1>1. GuardInv'
  BY DEF Restart, tracker, history, Order, GuardInv, Settled, Locked, ByPerson, Stamping
<1>2. WatchInv'
  BY DEF Restart, tracker, history, Order, WatchInv, Watching, Pending, Settled, Locked, ByPerson,
    Stamping
<1>3. QueueInv'
  BY DEF Restart, tracker, history, Order, QueueInv, Settled, Locked
<1>4. RecvInv'
  BY DEF Restart, tracker, history, Order, RecvInv, Locked
<1> QED BY <1>1, <1>2, <1>3, <1>4 DEF Order

(* Whoever goes on heard stays settled, when nothing is started. *)
LEMMA StaysSettled ==
  ASSUME NEW i, Settled(i), owner' = owner, fresh \subseteq fresh', open' \subseteq open \cup fresh'
  PROVE  Settled(i)'
BY DEF Settled

LEMMA ReceiveOrder ==
  ASSUME Facts, Facts', Order, ~Racing, ~Racing', NEW d \in hooks \cup BotDeliveries,
         Receive(d)
  PROVE  Order'
<1>1. recv.pc = "idle" /\ UNCHANGED <<open, labels, owner, tick>> /\ fresh \subseteq fresh'
  BY DEF Receive, service
<1>2. \/ recv' = recv
      \/ /\ recv'.pc \in {"clear", "lock"} /\ recv'.issue = d.issue
         /\ recv'.continuing => d.issue \in fresh'
  BY DEF Receive, Facts, RecvPlaced, RecvType
<1>3. GuardInv' /\ WatchInv' /\ QueueInv'
  BY <1>1, <1>2, StaysSettled
    DEF Order, GuardInv, WatchInv, QueueInv, Settled, Locked, ByPerson, Stamping, Watching, Pending
<1>4. RecvInv'
  BY <1>1, <1>2 DEF RecvInv
<1> QED BY <1>3, <1>4 DEF Order

(* Labels that are added, closed issues, ended jobs and acts of the owner   *)
(* leave every issue as well looked after as it was.                        *)
LEMMA OthersKeepOrder ==
  ASSUME Facts, Order, ~Racing', UNCHANGED <<owner, recv>>, fresh \subseteq fresh', open' \subseteq open \cup fresh',
         \A i \in Issues : (Locked(i) => Locked(i)') /\ (ByPerson(i) => ByPerson(i)' \/ i \in fresh'),
         tick'.pc = tick.pc, tick'.issue = tick.issue, tick'.todo = tick.todo, tick'.held = tick.held,
         tick'.sweep = tick.sweep, tick'.ready = tick.ready
  PROVE  Order'
<1>1. \A i \in Issues : Settled(i) => Settled(i)'
  BY DEF Settled
<1>2. \A i \in Issues : i \in fresh' => Settled(i)'
  BY DEF Settled
<1>3. tick.todo \subseteq Issues /\ \A x \in tick.ready : x.number \in Issues
  BY DEF Facts, TickPlaced, TickType, Reads
<1>4. \A i \in Issues : Stamping(i) => Stamping(i)'
  BY DEF Stamping
<1>5. GuardInv'
  BY <1>1, <1>2, <1>4 DEF Order, GuardInv
<1>6. WatchInv'
  <2>1. Pending' = Pending /\ Watching' = Watching /\ Pending \subseteq Issues
    BY <1>3 DEF Pending, Watching
  <2> QED BY <1>1, <1>2, <1>3, <1>4, <2>1 DEF Order, WatchInv
<1>7. QueueInv'
  <2>1. tick.pc = "submit" => tick.issue \in Issues
    BY DEF Facts, TickPlaced
  <2> QED BY <1>1, <1>3, <2>1 DEF Order, QueueInv
<1>8. RecvInv'
  <2>1. recv.pc # "idle" => recv.issue \in Issues
    BY DEF Facts, RecvPlaced
  <2> QED BY <2>1 DEF Order, RecvInv
<1> QED BY <1>5, <1>6, <1>7, <1>8 DEF Order

LEMMA AgentsOrder ==
  ASSUME Facts, Facts', Order, ~Racing, ~Racing', NEW j \in Jobs,
         AgentAsks(j) \/ AgentShips(j) \/ AgentCloses(j) \/ JobEnds(j)
  PROVE  Order'
<1>1. CASE AgentAsks(j)
  <2>1. owner[j] \in Issues /\ UNCHANGED <<open, owner, fresh, recv, tick>>
    BY <1>1, WorksFor DEF AgentAsks, Facts, service
  <2>2. \A i \in Issues : labels[i] \subseteq labels'[i]
    BY <1>1, <2>1 DEF AgentAsks, Add, Facts, TrackerTyped
  <2> QED BY <2>1, <2>2, OthersKeepOrder DEF Locked, ByPerson
<1>2. CASE AgentShips(j)
  <2>1. UNCHANGED <<open, labels, owner, fresh, recv>>
    BY <1>2 DEF AgentShips, service, history
  <2>2. /\ tick'.pc = tick.pc /\ tick'.issue = tick.issue /\ tick'.todo = tick.todo /\ tick'.held = tick.held
        /\ tick'.sweep = tick.sweep /\ tick'.ready = tick.ready
    BY <1>2 DEF AgentShips, Facts, TickPlaced, TickType
  <2> QED BY <2>1, <2>2, OthersKeepOrder DEF Locked, ByPerson
<1>3. CASE AgentCloses(j)
  <2>1. UNCHANGED <<labels, owner, fresh, recv, tick>> /\ open' \subseteq open
    BY <1>3 DEF AgentCloses, service
  <2> QED BY <2>1, OthersKeepOrder DEF Locked, ByPerson
<1>4. CASE JobEnds(j)
  <2>1. UNCHANGED <<open, labels, owner, fresh, recv, tick>>
    BY <1>4 DEF JobEnds, tracker, history
  <2> QED BY <2>1, OthersKeepOrder DEF Locked, ByPerson
<1> QED BY <1>1, <1>2, <1>3, <1>4

LEMMA PeopleOrder ==
  ASSUME Facts, Facts', Order, ~Racing, ~Racing', NEW i \in Issues,
         \/ Relabels(i) \/ Reopens(i)
         \/ \E actor \in {Owner, Guest} : Approves(i, actor) \/ \E relay \in BOOLEAN : Comments(i, actor, relay)
  PROVE  Order'
<1>1. CASE Relabels(i)
  <2>1. UNCHANGED <<open, owner, recv, tick>> /\ fresh' = fresh \cup {i}
    BY <1>1 DEF Relabels, Act, service
  <2>2. \A k \in Issues : (k # i => labels'[k] = labels[k]) /\ (Locked(k) => Locked(k)')
    BY <1>1 DEF Relabels, Add, Remove, Locked, Facts, TrackerTyped, InProgressLabel, HumanLabel,
      PausedLabel
  <2> QED BY <2>1, <2>2, OthersKeepOrder DEF ByPerson
<1>2. CASE Reopens(i)
  <2>1. UNCHANGED <<labels, owner, recv, tick>> /\ fresh' = fresh \cup {i} /\ open' \subseteq open \cup {i}
    BY <1>2 DEF Reopens, service
  <2> QED BY <2>1, OthersKeepOrder DEF Locked, ByPerson
<1>3. CASE \E actor \in {Owner, Guest} : Approves(i, actor)
  <2>1. UNCHANGED <<open, owner, recv, tick>> /\ fresh \subseteq fresh'
    BY <1>3 DEF Approves, Act, service
  <2>2. \A k \in Issues : labels[k] \subseteq labels'[k]
    BY <1>3 DEF Approves, Add, Facts, TrackerTyped
  <2> QED BY <2>1, <2>2, OthersKeepOrder DEF Locked, ByPerson
<1>4. CASE \E actor \in {Owner, Guest}, relay \in BOOLEAN : Comments(i, actor, relay)
  <2>1. UNCHANGED <<open, labels, owner, recv, tick>> /\ fresh \subseteq fresh'
    BY <1>4 DEF Comments, Act, service
  <2> QED BY <2>1, OthersKeepOrder DEF Locked, ByPerson
<1> QED BY <1>1, <1>2, <1>3, <1>4

(* Only a failed call counts as one. *)
LEMMA NoneFailed ==
  ASSUME faults \in Nat, faults' = 0, Receiver \/ Tick \/ Environment
  PROVE  faults = 0 /\ ~ReceiverFails /\ ~TickFails /\ ~TurnUnknown
<1>1. ~ReceiverFails /\ ~TickFails /\ ~TurnUnknown
  BY DEF ReceiverFails, TickFails, TurnUnknown
<1>2. CASE Receiver
  BY <1>1, <1>2 DEF Receiver, ReceiverClears, ReceiverReadsLock, ReceiverSubmits, ReceiverStamps,
                    ReceiverReleases, ReceiverRecords, bounds
<1>3. CASE Tick
  BY <1>1, <1>3 DEF Tick, ListReady, ReadLock, DrainSubmits, DrainClears, DrainStamps, DrainRecords,
    ListHeld,
                    ListClosed, List, ReadComments, ReadTurn, Unlock, HandOver, Resubmit, Persist, bounds
<1>4. CASE Environment
  BY <1>1, <1>4 DEF Environment, Receive, Restart, AgentAsks, AgentShips, AgentCloses, JobEnds, Relabels,
                    Reopens, Approves, Comments, Act, bounds
<1> QED BY <1>1, <1>2, <1>3, <1>4

LEMMA StepOrder ==
  ASSUME Facts, Facts', Order, ~Racing, ~Racing', Receiver \/ Tick \/ Environment,
         ~ReceiverFails, ~TickFails, ~TurnUnknown
  PROVE  Order'
<1>1. CASE Receiver
  BY <1>1, ReceiverClearsOrder, ReceiverReadsLockOrder, ReceiverSubmitsOrder, ReceiverStampsOrder,
     ReceiverReleasesOrder, ReceiverRecordsOrder DEF Receiver
<1>2. CASE Tick
  BY <1>2, ListReadyOrder, ReadLockOrder, DrainSubmitsOrder, DrainClearsOrder, DrainStampsOrder,
     DrainRecordsOrder, ListHeldOrder, ListClosedOrder, ReadCommentsOrder, ReadTurnOrder, UnlockOrder,
     HandOverOrder, ResubmitOrder, PersistOrder DEF Tick
<1>3. CASE Environment
  BY <1>3, ReceiveOrder, RestartOrder, AgentsOrder, PeopleOrder DEF Environment
<1> QED BY <1>1, <1>2, <1>3

IInv ==
  /\ Facts /\ race \in BOOLEAN
  /\ race \/ ~Racing
  /\ Orderly => Order

(* In an orderly step everything was in order before it, too. *)
LEMMA OrderlyBefore ==
  ASSUME IInv, Next, Orderly'
  PROVE  /\ Orderly /\ Order /\ ~Racing /\ ~Racing'
         /\ ~ReceiverFails /\ ~TickFails /\ ~TurnUnknown
<1>1. ~race /\ ~Racing' /\ faults' = 0
  BY DEF Next, Noted, Orderly
<1>2. faults \in Nat
  BY DEF IInv, Facts, HistoryTyped
<1>3. faults = 0 /\ ~ReceiverFails /\ ~TickFails /\ ~TurnUnknown
  BY <1>1, <1>2, NoneFailed DEF Next
<1> QED BY <1>1, <1>3 DEF Orderly, IInv

LEMMA Inductive == Spec => []IInv
<1>1. Init => IInv
  <2> SUFFICES ASSUME Init PROVE IInv
    OBVIOUS
  <2>1. Facts
    BY InitFacts
  <2>2. recv.pc = "idle" /\ tick.pc = "idle"
    BY AtRest DEF Init
  <2>3. Order
    BY <2>2, TvAssumption DEF Init, Order, GuardInv, WatchInv, QueueInv, RecvInv, Watching, Settled, None
  <2> QED BY <2>1, <2>2, <2>3 DEF IInv, Racing, Init
<1>2. IInv /\ [Next]_vars => IInv'
  <2> SUFFICES ASSUME IInv, [Next]_vars PROVE IInv'
    OBVIOUS
  <2>1. CASE Next
    <3>1. Facts'
      BY <2>1, StepFacts DEF IInv, Next
    <3>2. race' \in BOOLEAN /\ (race' \/ ~Racing')
      BY <2>1 DEF Next, Noted
    <3>3. ASSUME Orderly' PROVE Order'
      BY <2>1, <3>1, <3>3, OrderlyBefore, StepOrder DEF IInv, Next
    <3> QED BY <3>1, <3>2, <3>3 DEF IInv
  <2>2. CASE UNCHANGED vars
    <3>1. UNCHANGED <<open, labels, approver, footer, shipped, hooks, status, owner, tick, recv, faults, race,
                      asked, fresh, reply>>
      BY <2>2 DEF vars, tracker, service, bounds, history
    <3>2. Facts'
      BY <3>1 DEF IInv, Facts, TrackerTyped, ServiceTyped, HistoryTyped, TickPlaced, RecvPlaced,
        AskedInv, ShippedInv
    <3>3. Order' <=> Order
      BY <3>1 DEF Order, GuardInv, WatchInv, QueueInv, RecvInv, Watching, Pending, Settled,
        Locked, ByPerson, Stamping
    <3> QED BY <3>1, <3>2, <3>3 DEF IInv, Racing, Orderly
  <2> QED BY <2>1, <2>2
<1> QED BY <1>1, <1>2, PTL DEF Spec

(* While no call fails and the handler and the tick keep out of each        *)
(* other's way, the drain never starts an issue again that its owner has    *)
(* not touched or answered since its last start, unless it is closed.       *)
THEOREM DrainStartsNoneAgain == Spec => NoSelfRestart
<1>1. ASSUME IInv, Next, tick.pc = "submit", Orderly'
      PROVE  tick.issue \in fresh \/ tick.issue \notin open \/ \A j \in Jobs : owner[j] # tick.issue
  BY <1>1, OrderlyBefore DEF Order, QueueInv, Settled
<1>2. IInv /\ [Next]_vars =>
        [\A i \in Issues :
           tick.pc = "submit" /\ tick.issue = i /\ tick'.job # None /\ Orderly' =>
             i \in fresh \/ i \notin open \/ \A j \in Jobs : owner[j] # i]_vars
  BY <1>1
<1> QED BY <1>2, Inductive, PTL DEF Spec, NoSelfRestart

-----------------------------------------------------------------------------
(* The contract with the service. *)

LEMMA StatusMoves ==
  ASSUME Facts, [Next]_vars
  PROVE  \/ status' = status
         \/ \E i \in Issues, j \in Unused : Start(i, j)
         \/ \E j \in Jobs : JobEnds(j)
         \/ Restart
<1>1. CASE Receiver
  BY <1>1 DEF Receiver, ReceiverClears, ReceiverReadsLock, ReceiverSubmits, ReceiverStamps, ReceiverReleases,
     ReceiverRecords, service, Facts, RecvPlaced
<1>2. CASE Tick
  <2>1. CASE DrainSubmits \/ Resubmit
    BY <2>1 DEF DrainSubmits, Resubmit, Facts, TickPlaced
  <2>2. CASE ~(DrainSubmits \/ Resubmit)
    BY <1>2, <2>2 DEF Tick, ListReady, ReadLock, DrainClears, DrainStamps, DrainRecords, ListHeld, ListClosed,
       List, ReadComments, ReadTurn, Unlock, HandOver, Persist, service
  <2> QED BY <2>1, <2>2
<1>3. CASE Environment
  <2>1. CASE \E d \in hooks \cup BotDeliveries : Receive(d)
    BY <2>1 DEF Receive, service
  <2>2. CASE ReceiverFails \/ TickFails \/ TurnUnknown
    BY <2>2 DEF ReceiverFails, TickFails, TurnUnknown, service
  <2>3. CASE \E j \in Jobs : AgentAsks(j) \/ AgentShips(j) \/ AgentCloses(j)
    BY <2>3 DEF AgentAsks, AgentShips, AgentCloses, service
  <2>4. CASE \E i \in Issues :
       \/ Relabels(i) \/ Reopens(i)
       \/ \E actor \in {Owner, Guest} : Approves(i, actor) \/ \E relay \in BOOLEAN : Comments(i, actor, relay)
    BY <2>4 DEF Relabels, Reopens, Approves, Comments, Act, service
  <2> QED BY <1>3, <2>1, <2>2, <2>3, <2>4 DEF Environment
<1>4. CASE UNCHANGED vars
  BY <1>4 DEF vars, service
<1> QED BY <1>1, <1>2, <1>3, <1>4 DEF Next

(* The loop asks no more of the service than its contract: whatever the     *)
(* handler, the tick, the agents, people and mishaps do, what happens to    *)
(* the jobs is a behaviour of it.                                           *)
THEOREM TvMeetsService == Spec => ServiceSpec
<1>1. Init => Service!Init
  BY DEF Init, Service!Init, Live
<1>2. Facts /\ [Next]_vars => [Service!Next]_(Service!vars)
  <2> SUFFICES ASSUME Facts, [Next]_vars PROVE Service!Next \/ UNCHANGED Service!vars
    OBVIOUS
  <2>0. status \in [Jobs -> {"unused", "live", "ended", "gone"}]
    BY DEF Facts, ServiceTyped
  <2>1. CASE status' = status
    BY <2>1 DEF Service!vars, Live
  <2>2. CASE \E i \in Issues, j \in Unused : Start(i, j)
    <3>1. PICK j \in Unused : status' = [status EXCEPT ![j] = "live"]
      BY <2>2 DEF Start
    <3>2. Live' = Live \cup {j} /\ j \in Jobs /\ status[j] = "unused"
      BY <2>0, <3>1 DEF Live, Unused
    <3> QED BY <3>1, <3>2 DEF Service!Accept, Service!Next
  <2>3. CASE \E j \in Jobs : JobEnds(j)
    <3>1. PICK j \in Jobs : status[j] = "live" /\ status' = [status EXCEPT ![j] = "ended"]
      BY <2>3 DEF JobEnds
    <3>2. Live' = Live \ {j} /\ Service!Without({}, [status EXCEPT ![j] = "ended"]) = status'
      BY <2>0, <3>1 DEF Live, Service!Without
    <3>3. Service!End(j, "ended", {})
      BY <3>1, <3>2 DEF Service!End
    <3>4. {} \in SUBSET Service!Ended /\ "ended" \in {"ended"}
      OBVIOUS
    <3> QED BY <3>3, <3>4 DEF Service!Next
  <2>4. CASE Restart
    BY <2>4 DEF Restart, Service!Replace, Service!Next, Live
  <2> QED BY <2>1, <2>2, <2>3, <2>4, StatusMoves
<1> QED BY <1>1, <1>2, FactsAlways, PTL DEF Spec, ServiceSpec, Service!Spec
=============================================================================
