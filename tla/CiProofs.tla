----------------------------- MODULE CiProofs -----------------------------
(***************************************************************************)
(* The verdicts of CiVerdict are true to the pipelines and checks they are *)
(* read from, for any number of either, any page size and window, and any  *)
(* mishaps.  The argument has two halves: what the services do only adds   *)
(* to their lists or settles what was open (ListsGrow), which disturbs no  *)
(* fact the invariant states about places in them; and while a step of the *)
(* question is taken the lists stand still.                                *)
(***************************************************************************)
EXTENDS CiVerdict, WellFoundedInduction, TLAPS

(* Every set of numbers has a least one, every bounded one a greatest.      *)
LEMMA LeastNumber ==
  ASSUME NEW S, S \subseteq Nat, S # {}
  PROVE  \E x \in S : \A y \in S : x <= y
<1>1. \E x \in S : \A y \in S : ~ (<<y, x>> \in OpToRel(<, Nat))
  BY WFMin, NatLessThanWellFounded, Zenon
<1>2. PICK x \in S : \A y \in S : ~ (<<y, x>> \in OpToRel(<, Nat))  BY <1>1
<1>3. \A y \in S : ~ (y < x)  BY <1>2, Zenon DEF OpToRel
<1>4. \A y \in S : x <= y  BY <1>3
<1> QED  BY <1>4

LEMMA GreatestNumber ==
  ASSUME NEW S, NEW b \in Nat, S \subseteq 0..b, S # {}
  PROVE  \E x \in S : \A y \in S : y <= x
<1> DEFINE T == {b - y : y \in S}
<1>1. PICK t \in T : \A u \in T : t <= u
  <2>1. \A y \in S : b - y \in Nat  OBVIOUS
  <2>2. T \subseteq Nat /\ T # {}  BY <2>1
  <2> HIDE DEF T
  <2> QED  BY <2>2, LeastNumber
<1>2. PICK x \in S : t = b - x  BY <1>1
<1>3. \A y \in S : b - x <= b - y  BY <1>1, <1>2
<1> QED  BY <1>3

-----------------------------------------------------------------------------
(* The operators. *)

LEMMA StagesOfChecks ==
  ASSUME NEW c
  PROVE  StageOfCheck(c) \in {"pending", "success", "failure"}
BY DEF StageOfCheck

LEMMA RunningIsPending == StageOfCheck("running") = "pending"
BY DEF StageOfCheck

(* The build stage succeeds only if every check did, and fails only if one  *)
(* failed.                                                                  *)
LEMMA BuildStageSound ==
  ASSUME NEW S, NEW runs \in Seq(S)
  PROVE  /\ BuildStage(runs) \in Stages
         /\ BuildStage(runs) = "success" => \A k \in 1..Len(runs) : StageOfCheck(runs[k]) = "success"
         /\ BuildStage(runs) = "failure" => \E k \in 1..Len(runs) : StageOfCheck(runs[k]) = "failure"
<1> DEFINE ends == {n \in DOMAIN runs : runs[n] = "running" \/ StageOfCheck(runs[n]) = "failure"}
           first == CHOOSE n \in ends : \A m \in ends : n <= m
<1>1. CASE runs = <<>>  BY <1>1 DEF BuildStage, Stages
<1>2. CASE runs # <<>> /\ ends # {}
  <2>1. first \in ends
    <3>1. \E n \in ends : \A m \in ends : n <= m
      <4>1. ends \subseteq Nat  OBVIOUS
      <4> HIDE DEF ends
      <4> QED  BY <4>1, <1>2, LeastNumber
    <3> QED  BY <3>1
  <2>2. BuildStage(runs) = StageOfCheck(runs[first])  BY <1>2 DEF BuildStage
  <2>3. first \in 1..Len(runs)  BY <2>1
  <2>4. StageOfCheck(runs[first]) # "success"
    BY <2>1, RunningIsPending DEF ends
  <2> HIDE DEF first, ends
  <2> QED  BY <2>2, <2>3, <2>4, StagesOfChecks DEF Stages
<1>3. CASE runs # <<>> /\ ends = {}
  <2>1. \A k \in 1..Len(runs) : StageOfCheck(runs[k]) # "failure"  BY <1>3
  <2>2. BuildStage(runs) = IF \E n \in DOMAIN runs : StageOfCheck(runs[n]) = "pending"
                           THEN "pending" ELSE "success"
    BY <1>3 DEF BuildStage
  <2> QED  BY <2>1, <2>2, StagesOfChecks DEF Stages
<1> QED  BY <1>1, <1>2, <1>3

LEMMA VerdictsOfStages ==
  ASSUME NEW stage
  PROVE  /\ VerdictOf(stage) \in {"pending", "green", "red"}
         /\ VerdictOf(stage) = "green" => stage = "success"
         /\ VerdictOf(stage) = "red" => stage = "failure"
BY DEF VerdictOf

-----------------------------------------------------------------------------
(* The inductive invariant. *)

(* What the pages read so far have shown. *)
PagesClear ==
  probe.pc = "search" =>
    \A n \in DOMAIN pipelines :
      n <= probe.start /\ Len(pipelines) - n < probe.skip => pipelines[n].commit # Commit

(* The marks of the question lie within the lists. *)
MarksPast == probe.start <= Len(pipelines) /\ probe.seen <= Len(checks)

(* The build stage let the question through. *)
BuildPassed ==
  probe.pc \in {"deploy", "forced", "search"} /\ BuildObserved =>
    \A k \in 1..probe.seen : StageOfCheck(checks[k]) = "success"

(* The drill fires once: nothing was forced before the marker was written.  *)
MarkedFirst ==
  /\ ~marked => forced = 0
  /\ probe.pc = "forced" => marked /\ forced = 0
  /\ forced <= 1

(* What an answer is based on is noted with the answer. *)
NotYet == probe.pc # "answered" => ~probe.whole /\ ~probe.drill

(* No page is read before the search. *)
NoSkip == probe.pc \in {"build", "deploy"} => probe.skip = 0

(* Nothing is decided before the answer. *)
Undecided == probe.pc # "answered" => probe.verdict = "pending"

Earned == GreenEarned /\ RedEarned /\ NothingMissed
IInv == TypeOK /\ MarksPast /\ PagesClear /\ BuildPassed /\ MarkedFirst /\ NotYet /\ NoSkip /\ Undecided
        /\ Earned

LEMMA InitInv == Init => IInv
<1> SUFFICES ASSUME Init PROVE IInv  OBVIOUS
<1>1. TypeOK
  <2>1. pipelines \in Seq(Pipelines) /\ checks \in Seq(Conclusions \cup {"running"})
    BY DEF Init
  <2>2. probe \in [pc : Phases, skip : Nat, verdict : {"pending", "green", "red"},
                   start : Nat, seen : Nat, whole : BOOLEAN, drill : BOOLEAN]
    BY DEF Init, Asleep, Phases
  <2>3. marked \in BOOLEAN  BY DEF Init
  <2>4. forced \in 0..2 /\ mishaps \in Nat  BY DEF Init
  <2> QED  BY <2>1, <2>2, <2>3, <2>4 DEF TypeOK
<1>2. MarksPast /\ PagesClear /\ BuildPassed /\ MarkedFirst /\ NotYet /\ NoSkip /\ Undecided
  BY DEF Init, Asleep, MarksPast, PagesClear, BuildPassed, MarkedFirst, NotYet, NoSkip, Undecided
<1>3. Earned  BY DEF Init, Asleep, Earned, GreenEarned, RedEarned, NothingMissed
<1> QED  BY <1>1, <1>2, <1>3 DEF IInv

-----------------------------------------------------------------------------
(* What the services do. *)

PipelinesGrew ==
  /\ Len(pipelines) <= Len(pipelines')
  /\ \A n \in DOMAIN pipelines :
       /\ n \in DOMAIN pipelines' /\ pipelines'[n].commit = pipelines[n].commit
       /\ StageOf(pipelines[n].status) # "pending" => pipelines'[n].status = pipelines[n].status

ChecksGrew ==
  /\ Len(checks) <= Len(checks')
  /\ \A k \in DOMAIN checks : StageOfCheck(checks[k]) # "pending" => checks'[k] = checks[k]

Service == PipelineStarts \/ PipelineMoves \/ CheckStarts \/ CheckEnds

LEMMA ListsGrow ==
  ASSUME TypeOK, Service
  PROVE  /\ pipelines' \in Seq(Pipelines) /\ checks' \in Seq(Conclusions \cup {"running"})
         /\ PipelinesGrew /\ ChecksGrew /\ UNCHANGED <<marked, probe, forced, mishaps>>
<1> USE CiAssumption DEF TypeOK
<1>1. CASE PipelineStarts
  <2>1. PICK c \in Others \cup {Commit} :
          pipelines' = Append(pipelines, [commit |-> c, status |-> "pending"])
    BY <1>1 DEF PipelineStarts
  <2>2. [commit |-> c, status |-> "pending"] \in Pipelines  BY DEF Pipelines
  <2>3. pipelines' \in Seq(Pipelines) /\ Len(pipelines') = Len(pipelines) + 1
        /\ \A n \in 1..Len(pipelines) : pipelines'[n] = pipelines[n]
    BY <2>1, <2>2
  <2>4. UNCHANGED <<checks, marked, probe, forced, mishaps>>  BY <1>1 DEF PipelineStarts
  <2>5. PipelinesGrew  BY <2>3 DEF PipelinesGrew
  <2> QED  BY <2>3, <2>4, <2>5 DEF ChecksGrew
<1>2. CASE PipelineMoves
  <2>1. PICK n \in Own, status \in Statuses :
          /\ StageOf(pipelines[n].status) = "pending"
          /\ pipelines' = [pipelines EXCEPT ![n].status = status]
    BY <1>2 DEF PipelineMoves
  <2>2. n \in DOMAIN pipelines  BY DEF Own
  <2>3. pipelines' \in Seq(Pipelines) /\ Len(pipelines') = Len(pipelines)
        /\ \A m \in DOMAIN pipelines : pipelines'[m].commit = pipelines[m].commit
                                       /\ (m # n => pipelines'[m] = pipelines[m])
    <3>1. pipelines[n] \in Pipelines  BY <2>2
    <3>2. [pipelines[n] EXCEPT !.status = status] \in Pipelines
          /\ [pipelines[n] EXCEPT !.status = status].commit = pipelines[n].commit
      BY <3>1 DEF Pipelines
    <3>3. pipelines' = [pipelines EXCEPT ![n] = [pipelines[n] EXCEPT !.status = status]]
      BY <2>1
    <3> QED  BY <2>2, <3>2, <3>3
  <2>4. UNCHANGED <<checks, marked, probe, forced, mishaps>>  BY <1>2 DEF PipelineMoves
  <2>5. PipelinesGrew  BY <2>1, <2>2, <2>3 DEF PipelinesGrew
  <2> QED  BY <2>3, <2>4, <2>5 DEF ChecksGrew
<1>3. CASE CheckStarts
  <2>1. checks' \in Seq(Conclusions \cup {"running"}) /\ Len(checks') = Len(checks) + 1
        /\ \A k \in 1..Len(checks) : checks'[k] = checks[k]
    BY <1>3 DEF CheckStarts
  <2>2. UNCHANGED <<pipelines, marked, probe, forced, mishaps>>  BY <1>3 DEF CheckStarts
  <2> QED  BY <2>1, <2>2 DEF ChecksGrew, PipelinesGrew
<1>4. CASE CheckEnds
  <2>1. PICK n \in DOMAIN checks, conclusion \in Conclusions :
          checks[n] = "running" /\ checks' = [checks EXCEPT ![n] = conclusion]
    BY <1>4 DEF CheckEnds
  <2>2. checks' \in Seq(Conclusions \cup {"running"}) /\ Len(checks') = Len(checks)
        /\ \A k \in DOMAIN checks : k # n => checks'[k] = checks[k]
    BY <2>1
  <2>3. ChecksGrew  BY <2>1, <2>2, RunningIsPending DEF ChecksGrew
  <2>4. UNCHANGED <<pipelines, marked, probe, forced, mishaps>>  BY <1>4 DEF CheckEnds
  <2> QED  BY <2>2, <2>3, <2>4 DEF PipelinesGrew
<1> QED  BY <1>1, <1>2, <1>3, <1>4 DEF Service

(* The newest of its commit at the start stays that. *)
LEMMA NewestStays ==
  ASSUME TypeOK, MarksPast, PipelinesGrew, pipelines' \in Seq(Pipelines), probe' = probe,
         NEW n, NewestAtStart(n), StageOf(pipelines[n].status) # "pending"
  PROVE  NewestAtStart(n)' /\ pipelines'[n].status = pipelines[n].status
<1>1. n \in DOMAIN pipelines' /\ pipelines'[n].commit = Commit
      /\ pipelines'[n].status = pipelines[n].status
  BY DEF NewestAtStart, PipelinesGrew
<1>2. ASSUME NEW m \in DOMAIN pipelines', m > n, m <= probe.start
      PROVE  pipelines'[m].commit # Commit
  <2>1. m \in DOMAIN pipelines  BY <1>2 DEF MarksPast, TypeOK
  <2> QED  BY <2>1, <1>2 DEF NewestAtStart, PipelinesGrew
<1> QED  BY <1>1, <1>2 DEF NewestAtStart

LEMMA ServiceKeeps == IInv /\ Service => IInv'
<1> SUFFICES ASSUME IInv, Service PROVE IInv'  OBVIOUS
<1> USE DEF IInv
<1>1. /\ pipelines' \in Seq(Pipelines) /\ checks' \in Seq(Conclusions \cup {"running"})
      /\ PipelinesGrew /\ ChecksGrew /\ UNCHANGED <<marked, probe, forced, mishaps>>
  BY ListsGrow
<1>2. TypeOK'  BY <1>1 DEF TypeOK
<1>3. MarksPast'  BY <1>1, <1>2 DEF MarksPast, TypeOK, PipelinesGrew, ChecksGrew
<1>4. PagesClear'
  <2> SUFFICES ASSUME probe.pc = "search", NEW n \in DOMAIN pipelines', n <= probe.start,
                      Len(pipelines') - n < probe.skip
               PROVE  pipelines'[n].commit # Commit
    BY <1>1 DEF PagesClear
  <2>1. n \in DOMAIN pipelines /\ Len(pipelines) - n < probe.skip
    BY <1>1 DEF MarksPast, TypeOK, PipelinesGrew
  <2> QED  BY <2>1, <1>1 DEF PagesClear, PipelinesGrew
<1>5. BuildPassed'
  <2> SUFFICES ASSUME BuildPassed, BuildObserved, NEW k \in 1..probe.seen,
                      StageOfCheck(checks[k]) = "success"
               PROVE  StageOfCheck(checks'[k]) = "success"
    BY <1>1 DEF BuildPassed
  <2>1. k \in DOMAIN checks  BY DEF MarksPast, TypeOK
  <2> QED  BY <2>1, <1>1 DEF ChecksGrew
<1>6. MarkedFirst' /\ NotYet' /\ NoSkip' /\ Undecided'  BY <1>1 DEF MarkedFirst, NotYet, NoSkip, Undecided
<1>7. GreenEarned'
  <2> SUFFICES ASSUME probe.pc = "answered", probe.verdict = "green"
               PROVE  /\ BuildObserved => \A k \in 1..probe.seen : StageOfCheck(checks'[k]) = "success"
                      /\ \E n \in DOMAIN pipelines' :
                           NewestAtStart(n)' /\ StageOf(pipelines'[n].status) = "success"
    BY <1>1 DEF GreenEarned
  <2>1. ASSUME BuildObserved, NEW k \in 1..probe.seen  PROVE StageOfCheck(checks'[k]) = "success"
    <3>1. k \in DOMAIN checks /\ StageOfCheck(checks[k]) = "success"
      BY <2>1 DEF MarksPast, TypeOK, Earned, GreenEarned
    <3> QED  BY <3>1, <1>1 DEF ChecksGrew
  <2>2. PICK n \in DOMAIN pipelines : NewestAtStart(n) /\ StageOf(pipelines[n].status) = "success"
    BY DEF Earned, GreenEarned
  <2>3. NewestAtStart(n)' /\ pipelines'[n].status = pipelines[n].status  BY <2>2, <1>1, NewestStays
  <2>4. n \in DOMAIN pipelines'  BY <1>1 DEF PipelinesGrew
  <2> QED  BY <2>1, <2>2, <2>3, <2>4
<1>8. RedEarned'
  <2> SUFFICES ASSUME probe.pc = "answered", probe.verdict = "red", ~probe.drill
               PROVE  \/ BuildObserved /\ \E k \in 1..probe.seen : StageOfCheck(checks'[k]) = "failure"
                      \/ \E n \in DOMAIN pipelines' :
                           NewestAtStart(n)' /\ StageOf(pipelines'[n].status) = "failure"
    BY <1>1 DEF RedEarned
  <2>1. CASE BuildObserved /\ \E k \in 1..probe.seen : StageOfCheck(checks[k]) = "failure"
    <3>1. PICK k \in 1..probe.seen : StageOfCheck(checks[k]) = "failure"  BY <2>1
    <3>2. k \in DOMAIN checks  BY DEF MarksPast, TypeOK
    <3> QED  BY <2>1, <3>1, <3>2, <1>1 DEF ChecksGrew
  <2>2. CASE \E n \in DOMAIN pipelines : NewestAtStart(n) /\ StageOf(pipelines[n].status) = "failure"
    <3>1. PICK n \in DOMAIN pipelines : NewestAtStart(n) /\ StageOf(pipelines[n].status) = "failure"
      BY <2>2
    <3>2. NewestAtStart(n)' /\ pipelines'[n].status = pipelines[n].status  BY <3>1, <1>1, NewestStays
    <3>3. n \in DOMAIN pipelines'  BY <1>1 DEF PipelinesGrew
    <3> QED  BY <3>1, <3>2, <3>3
  <2> QED  BY <2>1, <2>2 DEF Earned, RedEarned
<1>9. NothingMissed'
  <2> SUFFICES ASSUME probe.pc = "answered", probe.whole, NEW n \in DOMAIN pipelines',
                      n <= probe.start, Len(pipelines') - n < Window
               PROVE  pipelines'[n].commit # Commit
    BY <1>1 DEF NothingMissed
  <2>1. n \in DOMAIN pipelines /\ Len(pipelines) - n < Window
    BY <1>1, CiAssumption DEF MarksPast, TypeOK, PipelinesGrew
  <2> QED  BY <2>1, <1>1 DEF Earned, NothingMissed, PipelinesGrew
<1> QED  BY <1>2, <1>3, <1>4, <1>5, <1>6, <1>7, <1>8, <1>9 DEF Earned

-----------------------------------------------------------------------------
(* The steps of the question. *)

LEMMA QuietEarned == probe'.pc # "answered" => Earned'
BY DEF Earned, GreenEarned, RedEarned, NothingMissed

LEMMA AskKeeps == IInv /\ Ask => IInv'
<1> SUFFICES ASSUME IInv, Ask PROVE IInv'  OBVIOUS
<1> USE DEF IInv
<1>1. probe' = [Asleep EXCEPT !.pc = "build"] /\ UNCHANGED <<pipelines, checks, marked, forced, mishaps>>
  BY DEF Ask
<1>2. probe'.pc = "build" /\ probe'.start = 0 /\ probe'.seen = 0  BY <1>1 DEF Asleep
<1>3. TypeOK'  BY <1>1 DEF TypeOK, Asleep, Phases
<1>4. MarksPast'  BY <1>1, <1>2 DEF MarksPast, TypeOK
<1>5. PagesClear' /\ BuildPassed' /\ MarkedFirst' /\ NotYet' /\ NoSkip' /\ Undecided'
  BY <1>1, <1>2 DEF PagesClear, BuildPassed, MarkedFirst, NotYet, NoSkip, Undecided, Asleep
<1> QED  BY <1>2, <1>3, <1>4, <1>5, QuietEarned

(* The question is put away: after its answer, or when its tick dies.       *)
LEMMA SleepKeeps ==
  ASSUME IInv, probe' = Asleep, UNCHANGED <<pipelines, checks, marked, forced>>, mishaps' \in Nat
  PROVE  IInv'
<1> USE DEF IInv
<1>1. probe'.pc = "idle" /\ probe'.start = 0 /\ probe'.seen = 0  BY DEF Asleep
<1>2. TypeOK'  BY DEF TypeOK, Asleep, Phases
<1>3. MarksPast'  BY <1>1 DEF MarksPast, TypeOK
<1>4. PagesClear' /\ BuildPassed' /\ MarkedFirst' /\ NotYet' /\ NoSkip' /\ Undecided'
  BY <1>1 DEF PagesClear, BuildPassed, MarkedFirst, NotYet, NoSkip, Undecided, Asleep
<1> QED  BY <1>1, <1>2, <1>3, <1>4, QuietEarned

LEMMA ReadBuildKeeps == IInv /\ ReadBuild => IInv'
<1> SUFFICES ASSUME IInv, ReadBuild PROVE IInv'  OBVIOUS
<1> USE DEF IInv
<1> DEFINE stage == IF BuildObserved THEN BuildStage(checks) ELSE "success"
<1>1. probe.pc = "build" /\ UNCHANGED <<pipelines, checks, marked, forced, mishaps>>
  BY DEF ReadBuild
<1>2. probe' = IF stage = "success"
               THEN [probe EXCEPT !.pc = "deploy", !.seen = Len(checks)]
               ELSE [probe EXCEPT !.pc = "answered", !.verdict = VerdictOf(stage), !.seen = Len(checks)]
  BY DEF ReadBuild
<1>3. /\ BuildObserved /\ stage = "success" => \A k \in 1..Len(checks) : StageOfCheck(checks[k]) = "success"
      /\ stage = "failure" =>
           BuildObserved /\ \E k \in 1..Len(checks) : StageOfCheck(checks[k]) = "failure"
  BY BuildStageSound DEF TypeOK
<1> HIDE DEF stage
<1>4. probe'.seen = Len(checks) /\ probe'.start = probe.start /\ probe'.whole = probe.whole
      /\ probe'.skip = probe.skip
      /\ probe'.drill = probe.drill /\ probe'.pc \in {"deploy", "answered"}
      /\ (probe'.pc = "deploy" => probe'.verdict = probe.verdict)
      /\ (probe'.pc = "deploy" <=> stage = "success")
      /\ (probe'.pc = "answered" => probe'.verdict = VerdictOf(stage))
  BY <1>2 DEF TypeOK
<1>5. TypeOK'
  <2>1. Len(checks) \in Nat /\ VerdictOf(stage) \in {"pending", "green", "red"}
    BY VerdictsOfStages DEF TypeOK
  <2>2. CASE stage = "success"  BY <2>1, <2>2, <1>1, <1>2 DEF TypeOK, Phases
  <2>3. CASE stage # "success"  BY <2>1, <2>3, <1>1, <1>2 DEF TypeOK, Phases
  <2> QED  BY <2>2, <2>3
<1>6. MarksPast' /\ PagesClear' /\ MarkedFirst' /\ NotYet' /\ NoSkip' /\ Undecided'
  BY <1>1, <1>4 DEF MarksPast, PagesClear, MarkedFirst, NotYet, NoSkip, Undecided, TypeOK
<1>7. BuildPassed'  BY <1>1, <1>3, <1>4 DEF BuildPassed
<1>8. GreenEarned'  BY <1>4, VerdictsOfStages DEF GreenEarned
<1>9. RedEarned'
  <2> SUFFICES ASSUME probe'.pc = "answered", probe'.verdict = "red"
               PROVE  BuildObserved /\ \E k \in 1..probe'.seen : StageOfCheck(checks'[k]) = "failure"
    BY DEF RedEarned
  <2> QED  BY <1>1, <1>3, <1>4, VerdictsOfStages
<1>10. NothingMissed'
  BY <1>1, <1>4 DEF NothingMissed, NotYet
<1> QED  BY <1>5, <1>6, <1>7, <1>8, <1>9, <1>10 DEF Earned

LEMMA ForceKeeps == IInv /\ (ForceRed \/ AnswerForced) => IInv'
<1> SUFFICES ASSUME IInv, ForceRed \/ AnswerForced PROVE IInv'  OBVIOUS
<1> USE DEF IInv
<1>1. CASE ForceRed
  <2>1. /\ probe.pc = "deploy" /\ ~marked /\ marked' = TRUE
        /\ probe' = [probe EXCEPT !.pc = "forced"]
        /\ UNCHANGED <<pipelines, checks, forced, mishaps>>
    BY <1>1 DEF ForceRed
  <2>2. probe'.pc = "forced" /\ probe'.start = probe.start /\ probe'.seen = probe.seen
        /\ probe'.whole = probe.whole /\ probe'.drill = probe.drill
    BY <2>1 DEF TypeOK
  <2>3. TypeOK'  BY <2>1 DEF TypeOK, Phases
  <2>4. MarksPast' /\ PagesClear' /\ BuildPassed' /\ NotYet' /\ NoSkip' /\ Undecided'
    BY <2>1, <2>2 DEF MarksPast, PagesClear, BuildPassed, NotYet, NoSkip, Undecided
  <2>5. MarkedFirst'  BY <2>1, <2>2 DEF MarkedFirst
  <2> QED  BY <2>2, <2>3, <2>4, <2>5, QuietEarned
<1>2. CASE AnswerForced
  <2>1. /\ probe.pc = "forced" /\ forced' = (IF forced = 2 THEN 2 ELSE forced + 1)
        /\ probe' = [probe EXCEPT !.pc = "answered", !.verdict = "red", !.drill = TRUE]
        /\ UNCHANGED <<pipelines, checks, marked, mishaps>>
    BY <1>2 DEF AnswerForced
  <2>2. probe'.pc = "answered" /\ probe'.start = probe.start /\ probe'.seen = probe.seen
        /\ probe'.whole = probe.whole /\ probe'.drill = TRUE /\ probe'.verdict = "red"
    BY <2>1 DEF TypeOK
  <2>3. forced' = 1 /\ marked  BY <2>1 DEF MarkedFirst
  <2>4. TypeOK'
    <3>1. probe' \in [pc : Phases, skip : Nat, verdict : {"pending", "green", "red"},
                      start : Nat, seen : Nat, whole : BOOLEAN, drill : BOOLEAN]
      BY <2>1 DEF TypeOK, Phases
    <3> QED  BY <2>1, <2>3, <3>1 DEF TypeOK
  <2>5. MarksPast' /\ PagesClear' /\ BuildPassed' /\ NotYet' /\ MarkedFirst' /\ NoSkip' /\ Undecided'
    BY <2>1, <2>2, <2>3 DEF MarksPast, PagesClear, BuildPassed, NotYet, NoSkip, Undecided, MarkedFirst
  <2>6. GreenEarned' /\ RedEarned'  BY <2>2 DEF GreenEarned, RedEarned
  <2>7. NothingMissed'  BY <2>1, <2>2 DEF NothingMissed, NotYet
  <2> QED  BY <2>4, <2>5, <2>6, <2>7 DEF Earned
<1> QED  BY <1>1, <1>2

LEMMA SearchingKeeps ==
  ASSUME IInv, probe.pc = "deploy", Searching, UNCHANGED <<pipelines, checks, marked, forced>>,
         mishaps' \in Nat
  PROVE  IInv'
<1> USE DEF IInv
<1>1. probe' = [probe EXCEPT !.pc = "search", !.start = Len(pipelines)]  BY DEF Searching
<1>2. probe'.pc = "search" /\ probe'.start = Len(pipelines) /\ probe'.seen = probe.seen
      /\ probe'.skip = probe.skip /\ probe'.whole = probe.whole /\ probe'.drill = probe.drill
      /\ probe'.verdict = probe.verdict
  BY <1>1 DEF TypeOK
<1>3. Len(pipelines) \in Nat  BY DEF TypeOK
<1>4. TypeOK'  BY <1>1, <1>3 DEF TypeOK, Phases
<1>5. MarksPast' /\ BuildPassed' /\ NotYet' /\ MarkedFirst' /\ NoSkip' /\ Undecided'
  BY <1>2, <1>3 DEF MarksPast, BuildPassed, NotYet, NoSkip, Undecided, MarkedFirst
<1>6. PagesClear'
  <2> SUFFICES ASSUME NEW n \in DOMAIN pipelines, Len(pipelines) - n < probe.skip PROVE FALSE
    BY <1>2 DEF PagesClear
  <2>1. probe.skip = 0  BY DEF NoSkip
  <2> QED  BY <2>1 DEF TypeOK
<1> QED  BY <1>2, <1>4, <1>5, <1>6, QuietEarned

(* The first match of a page is the newest on it, and, the pages before     *)
(* being clear, the newest there was when the search began.                 *)
LEMMA FirstMatchIsNewest ==
  ASSUME TypeOK, MarksPast, PagesClear, probe.pc = "search", Matches # {}
  PROVE  NewestAtStart(Newest)
<1>1. Matches \subseteq 0..Len(pipelines)  BY DEF Matches, Page, TypeOK
<1>2. \E n \in Matches : \A m \in Matches : m <= n
  <2>1. Len(pipelines) \in Nat  BY DEF TypeOK
  <2> QED  BY <1>1, <2>1, GreatestNumber
<1>3. Newest \in Matches /\ \A m \in Matches : m <= Newest  BY <1>2 DEF Newest
<1>4. PICK n \in Matches : n = Newest /\ \A m \in Matches : m <= n  BY <1>3
<1>5. n \in DOMAIN pipelines /\ pipelines[n].commit = Commit
      /\ Len(pipelines) - n \in probe.skip .. (probe.skip + PerPage - 1)
  BY <1>4 DEF Matches, Page
<1>6. ASSUME NEW m \in DOMAIN pipelines, m > n, m <= probe.start
      PROVE  pipelines[m].commit # Commit
  <2>0. m \in Nat /\ n \in Nat /\ Len(pipelines) \in Nat /\ probe.skip \in Nat /\ PerPage \in Nat
    BY <1>5, CiAssumption DEF TypeOK
  <2>1. CASE Len(pipelines) - m < probe.skip  BY <2>1, <1>6 DEF PagesClear
  <2>2. CASE ~(Len(pipelines) - m < probe.skip)
    <3>1. m \in Page  BY <2>0, <2>2, <1>5, <1>6 DEF Page
    <3> QED  BY <3>1, <1>4, <1>6, <2>0 DEF Matches
  <2> QED  BY <2>1, <2>2
<1> QED  BY <1>4, <1>5, <1>6 DEF NewestAtStart

LEMMA ReadPageKeeps == IInv /\ ReadPage => IInv'
<1> SUFFICES ASSUME IInv, ReadPage PROVE IInv'  OBVIOUS
<1> USE DEF IInv
<1>1. probe.pc = "search" /\ UNCHANGED <<pipelines, checks, marked, forced, mishaps>>
  BY DEF ReadPage
<1>2. CASE Matches # {}
  <2> DEFINE stage == StageOf(pipelines[Newest].status)
  <2>1. probe' = [probe EXCEPT !.pc = "answered", !.verdict = VerdictOf(stage)]
    BY <1>2 DEF ReadPage, Answer
  <2>2. NewestAtStart(Newest)  BY <1>1, <1>2, FirstMatchIsNewest
  <2>3. Newest \in DOMAIN pipelines  BY <2>2 DEF NewestAtStart
  <2>4. PICK n \in DOMAIN pipelines : n = Newest /\ NewestAtStart(n) /\ stage = StageOf(pipelines[n].status)
    BY <2>2, <2>3
  <2> HIDE DEF stage
  <2>5. probe'.pc = "answered" /\ probe'.start = probe.start /\ probe'.seen = probe.seen
        /\ probe'.whole = probe.whole /\ probe'.drill = probe.drill /\ probe'.verdict = VerdictOf(stage)
    BY <2>1 DEF TypeOK
  <2>6. TypeOK'  BY <1>1, <2>1, VerdictsOfStages DEF TypeOK, Phases
  <2>7. MarksPast' /\ PagesClear' /\ BuildPassed' /\ MarkedFirst' /\ NotYet' /\ NoSkip' /\ Undecided'
    BY <1>1, <2>5 DEF MarksPast, PagesClear, BuildPassed, MarkedFirst, NotYet, NoSkip, Undecided
  <2>8. NewestAtStart(n)'  BY <1>1, <2>4, <2>5 DEF NewestAtStart
  <2>9. GreenEarned'
    <3>1. BuildObserved => \A k \in 1..probe'.seen : StageOfCheck(checks'[k]) = "success"
      BY <1>1, <2>5 DEF BuildPassed
    <3>2. probe'.verdict = "green" => StageOf(pipelines'[n].status) = "success"
      BY <1>1, <2>4, <2>5, VerdictsOfStages
    <3>3. n \in DOMAIN pipelines'  BY <1>1
    <3> QED  BY <3>1, <3>2, <3>3, <2>8 DEF GreenEarned
  <2>10. RedEarned'
    <3>1. probe'.verdict = "red" => StageOf(pipelines'[n].status) = "failure"
      BY <1>1, <2>4, <2>5, VerdictsOfStages
    <3>2. n \in DOMAIN pipelines'  BY <1>1
    <3> QED  BY <3>1, <3>2, <2>8 DEF RedEarned
  <2>11. NothingMissed'  BY <1>1, <2>5 DEF NothingMissed, NotYet
  <2> QED  BY <2>6, <2>7, <2>9, <2>10, <2>11 DEF Earned
<1>3. ASSUME Matches = {}, NEW n \in DOMAIN pipelines, n <= probe.start,
             Len(pipelines) - n < probe.skip + PerPage
      PROVE  pipelines[n].commit # Commit
  <2>0. n \in Nat /\ Len(pipelines) \in Nat /\ probe.skip \in Nat /\ PerPage \in Nat /\ n <= Len(pipelines)
    BY CiAssumption DEF TypeOK
  <2>1. CASE Len(pipelines) - n < probe.skip  BY <2>1, <1>1, <1>3 DEF PagesClear
  <2>2. CASE ~(Len(pipelines) - n < probe.skip)
    <3>1. n \in Page  BY <2>0, <2>2, <1>3 DEF Page
    <3> QED  BY <3>1, <1>3 DEF Matches
  <2> QED  BY <2>1, <2>2
<1>4. CASE Matches = {} /\ (Len(pipelines) < probe.skip + PerPage \/ probe.skip + PerPage >= Window)
  <2>1. probe' = [probe EXCEPT !.pc = "answered", !.whole = TRUE]  BY <1>4 DEF ReadPage
  <2>2. probe'.pc = "answered" /\ probe'.start = probe.start /\ probe'.seen = probe.seen
        /\ probe'.whole = TRUE /\ probe'.drill = probe.drill /\ probe'.verdict = probe.verdict
    BY <2>1 DEF TypeOK
  <2>3. TypeOK'  BY <1>1, <2>1 DEF TypeOK, Phases
  <2>4. MarksPast' /\ PagesClear' /\ BuildPassed' /\ MarkedFirst' /\ NotYet' /\ NoSkip' /\ Undecided'
    BY <1>1, <2>2 DEF MarksPast, PagesClear, BuildPassed, MarkedFirst, NotYet, NoSkip, Undecided
  <2>5. probe.verdict = "pending"  BY <1>1 DEF Undecided
  <2>6. GreenEarned' /\ RedEarned'  BY <2>2, <2>5 DEF GreenEarned, RedEarned
  <2>7. NothingMissed'
    <3> SUFFICES ASSUME NEW n \in DOMAIN pipelines, n <= probe.start, Len(pipelines) - n < Window
                 PROVE  pipelines[n].commit # Commit
      BY <1>1, <2>2 DEF NothingMissed
    <3>1. Len(pipelines) - n < probe.skip + PerPage
      BY <1>4, CiAssumption DEF TypeOK
    <3> QED  BY <3>1, <1>3, <1>4
  <2> QED  BY <2>3, <2>4, <2>6, <2>7 DEF Earned
<1>5. CASE Matches = {} /\ ~(Len(pipelines) < probe.skip + PerPage \/ probe.skip + PerPage >= Window)
  <2>1. probe' = [probe EXCEPT !.skip = @ + PerPage]  BY <1>5 DEF ReadPage
  <2>2. probe'.pc = "search" /\ probe'.start = probe.start /\ probe'.seen = probe.seen
        /\ probe'.whole = probe.whole /\ probe'.drill = probe.drill
        /\ probe'.verdict = probe.verdict /\ probe'.skip = probe.skip + PerPage
    BY <1>1, <2>1 DEF TypeOK
  <2>3. TypeOK'
    <3>1. probe.skip + PerPage \in Nat  BY CiAssumption DEF TypeOK
    <3>2. probe' \in [pc : Phases, skip : Nat, verdict : {"pending", "green", "red"},
                    start : Nat, seen : Nat, whole : BOOLEAN, drill : BOOLEAN]
      BY <2>1, <3>1 DEF TypeOK
    <3> QED  BY <1>1, <3>2 DEF TypeOK
  <2>4. MarksPast' /\ BuildPassed' /\ MarkedFirst' /\ NotYet' /\ NoSkip' /\ Undecided'
    BY <1>1, <2>2 DEF MarksPast, BuildPassed, MarkedFirst, NotYet, NoSkip, Undecided
  <2>5. PagesClear'  BY <1>1, <1>3, <1>5, <2>2 DEF PagesClear
  <2> QED  BY <2>2, <2>3, <2>4, <2>5, QuietEarned
<1> QED  BY <1>2, <1>4, <1>5

LEMMA CallFailsKeeps == IInv /\ CallFails => IInv'
<1> SUFFICES ASSUME IInv, CallFails PROVE IInv'  OBVIOUS
<1> USE DEF IInv
<1>1. /\ probe.pc \in {"search", "build"} /\ mishaps' = mishaps + 1
      /\ probe' = [probe EXCEPT !.pc = "answered", !.verdict = "pending"]
      /\ UNCHANGED <<pipelines, checks, marked, forced>>
  BY DEF CallFails, May, Answer
<1>2. probe'.pc = "answered" /\ probe'.start = probe.start /\ probe'.seen = probe.seen
      /\ probe'.whole = probe.whole /\ probe'.drill = probe.drill /\ probe'.verdict = "pending"
  BY <1>1 DEF TypeOK
<1>3. TypeOK'
  <2>1. probe' \in [pc : Phases, skip : Nat, verdict : {"pending", "green", "red"},
                    start : Nat, seen : Nat, whole : BOOLEAN, drill : BOOLEAN]
    BY <1>1 DEF TypeOK, Phases
  <2>2. mishaps' \in Nat  BY <1>1 DEF TypeOK
  <2> QED  BY <1>1, <2>1, <2>2 DEF TypeOK
<1>4. MarksPast' /\ PagesClear' /\ BuildPassed' /\ MarkedFirst' /\ NotYet' /\ NoSkip' /\ Undecided'
  BY <1>1, <1>2 DEF MarksPast, PagesClear, BuildPassed, MarkedFirst, NotYet, NoSkip, Undecided
<1>5. Earned'  BY <1>1, <1>2 DEF Earned, GreenEarned, RedEarned, NothingMissed, NotYet
<1> QED  BY <1>3, <1>4, <1>5

-----------------------------------------------------------------------------
LEMMA NextKeeps == IInv /\ [Next]_vars => IInv'
<1> SUFFICES ASSUME IInv, [Next]_vars PROVE IInv'  OBVIOUS
<1>1. CASE UNCHANGED vars
  BY <1>1 DEF vars, IInv, TypeOK, MarksPast, PagesClear, BuildPassed, MarkedFirst, NotYet, NoSkip,
              Undecided, Earned, GreenEarned, RedEarned, NothingMissed, NewestAtStart
<1>2. CASE Ask  BY <1>2, AskKeeps
<1>3. CASE ReadBuild  BY <1>3, ReadBuildKeeps
<1>4. CASE ForceRed \/ AnswerForced  BY <1>4, ForceKeeps
<1>5. CASE BeginSearch
  <2>1. probe.pc = "deploy" /\ Searching /\ UNCHANGED <<pipelines, checks, marked, forced, mishaps>>
    BY <1>5 DEF BeginSearch
  <2> QED  BY <2>1, SearchingKeeps DEF IInv, TypeOK
<1>6. CASE MarkerUnwritable
  <2>1. /\ probe.pc = "deploy" /\ Searching /\ UNCHANGED <<pipelines, checks, marked, forced>>
        /\ mishaps' = mishaps + 1
    BY <1>6 DEF MarkerUnwritable, May
  <2>2. mishaps' \in Nat  BY <2>1 DEF IInv, TypeOK
  <2> QED  BY <2>1, <2>2, SearchingKeeps
<1>7. CASE ReadPage  BY <1>7, ReadPageKeeps
<1>8. CASE CallFails  BY <1>8, CallFailsKeeps
<1>9. CASE TickActs
  <2>1. probe' = Asleep /\ UNCHANGED <<pipelines, checks, marked, forced, mishaps>>
    BY <1>9 DEF TickActs
  <2> QED  BY <2>1, SleepKeeps DEF IInv, TypeOK
<1>10. CASE TickDies
  <2>1. probe' = Asleep /\ UNCHANGED <<pipelines, checks, marked, forced>> /\ mishaps' = mishaps + 1
    BY <1>10 DEF TickDies, May
  <2>2. mishaps' \in Nat  BY <2>1 DEF IInv, TypeOK
  <2> QED  BY <2>1, <2>2, SleepKeeps
<1>11. CASE Service  BY <1>11, ServiceKeeps
<1> QED
  BY <1>1, <1>2, <1>3, <1>4, <1>5, <1>6, <1>7, <1>8, <1>9, <1>10, <1>11
     DEF Next, Probe, Environment, Service

(* The inductive invariant holds in every reachable state. *)
THEOREM CiInvariant == Spec => []IInv
<1> QED  BY InitInv, NextKeeps, PTL DEF Spec

(* Every variable keeps its type. *)
THEOREM CiTyped == Spec => []TypeOK
<1>1. IInv => TypeOK  BY DEF IInv
<1> QED  BY <1>1, CiInvariant, PTL

(***************************************************************************)
(* A green verdict is earned: the checks that were listed have passed, and *)
(* so has the newest pipeline the commit had when the search began.        *)
(***************************************************************************)
THEOREM GreenIsEarned == Spec => []GreenEarned
<1>1. IInv => GreenEarned  BY DEF IInv, Earned
<1> QED  BY <1>1, CiInvariant, PTL

(***************************************************************************)
(* A red verdict is earned, or the drill's: no run is sent after a failure *)
(* that was superseded when the search began.                              *)
(***************************************************************************)
THEOREM RedIsEarned == Spec => []RedEarned
<1>1. IInv => RedEarned  BY DEF IInv, Earned
<1> QED  BY <1>1, CiInvariant, PTL

(***************************************************************************)
(* A search that read all its pages and found nothing missed no pipeline   *)
(* of the commit in the window, whatever started meanwhile.                *)
(***************************************************************************)
THEOREM SearchMissesNothing == Spec => []NothingMissed
<1>1. IInv => NothingMissed  BY DEF IInv, Earned
<1> QED  BY <1>1, CiInvariant, PTL

(***************************************************************************)
(* The drill turns a commit red once, whenever ticks die.                  *)
(***************************************************************************)
THEOREM DrillFiresOnce == Spec => []ForcedOnce
<1>1. IInv => ForcedOnce  BY DEF IInv, MarkedFirst, ForcedOnce
<1> QED  BY <1>1, CiInvariant, PTL
=============================================================================
