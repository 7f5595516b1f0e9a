-------------------------- MODULE AdmissionProofs ---------------------------
(***************************************************************************)
(* JobRunner implements AdmissionControl, for every set of calls and every *)
(* capacity.  The mapping counts a waiter as running once the pool has a   *)
(* permit for it, although its wake-up is still to come: that is what the  *)
(* calls are promised, and why a late wake-up is a stutter.  Each section  *)
(* shows, for one way of using the semaphore, which abstract action it is. *)
(***************************************************************************)
EXTENDS JobRunnerProofs

(* What AdmissionControl calls pending, line and running. *)
Pending == {c \in Calls : pc[c] \in {"reserved", "abandoned"}}
Line == SubSeq(waiters, Entitled + 1, Len(waiters))
Served == {waiters[i] : i \in 1..Entitled}
Running == Holding \cup Granted \cup Served

Min2(m, n) == IF m <= n THEN m ELSE n

(* The line without its first k calls. *)
LEMMA Suffix ==
  ASSUME NEW w \in Seq(Calls), NEW k \in 0..Len(w)
  PROVE  /\ SubSeq(w, k + 1, Len(w)) \in Seq(Calls)
         /\ Len(SubSeq(w, k + 1, Len(w))) = Len(w) - k
         /\ \A i \in 1..(Len(w) - k) : SubSeq(w, k + 1, Len(w))[i] = w[k + i]
<1>1. Len(w) \in Nat /\ \A i \in (k + 1)..Len(w) : w[i] \in Calls
  BY LenProperties, ElementOfSeq
<1>2. /\ SubSeq(w, k + 1, Len(w)) \in Seq(Calls)
      /\ Len(SubSeq(w, k + 1, Len(w))) = IF k + 1 <= Len(w) THEN Len(w) - (k + 1) + 1 ELSE 0
      /\ \A i \in 1..Len(w) - (k + 1) + 1 : SubSeq(w, k + 1, Len(w))[i] = w[(k + 1) + i - 1]
  BY <1>1, SubSeqProperties
<1> QED
  BY <1>1, <1>2

(* Cutting a suffix again is cutting a shorter suffix of the whole line. *)
LEMMA SuffixOfSuffix ==
  ASSUME NEW w \in Seq(Calls), NEW k \in 0..Len(w), NEW m \in k..Len(w),
         NEW s, s = SubSeq(w, k + 1, Len(w))
  PROVE  SubSeq(s, (m - k) + 1, Len(s)) = SubSeq(w, m + 1, Len(w))
<1>0. Len(w) \in Nat
  BY LenProperties
<1>1. s \in Seq(Calls) /\ Len(s) = Len(w) - k /\ \A i \in 1..(Len(w) - k) : s[i] = w[k + i]
  BY Suffix
<1> DEFINE t == SubSeq(s, (m - k) + 1, Len(s))
           u == SubSeq(w, m + 1, Len(w))
<1>2. m - k \in 0..Len(s)
  BY <1>0, <1>1
<1>3. t \in Seq(Calls) /\ Len(t) = Len(s) - (m - k) /\ \A i \in 1..(Len(s) - (m - k)) : t[i] = s[(m - k) + i]
  BY <1>1, <1>2, Suffix
<1>4. m \in 0..Len(w)
  BY <1>0
<1>5. u \in Seq(Calls) /\ Len(u) = Len(w) - m /\ \A i \in 1..(Len(w) - m) : u[i] = w[m + i]
  BY <1>4, Suffix
<1>6. Len(t) = Len(u)
  BY <1>0, <1>1, <1>3, <1>5
<1>7. ASSUME NEW i \in 1..Len(t) PROVE t[i] = u[i]
  <2>1. i \in 1..(Len(w) - m) /\ (m - k) + i \in 1..(Len(w) - k) /\ k + ((m - k) + i) = m + i
    BY <1>0, <1>5, <1>6
  <2>2. t[i] = s[(m - k) + i]
    BY <1>3
  <2> QED
    BY <1>1, <1>5, <2>1, <2>2
<1> HIDE DEF t, u
<1>8. t = u
  BY <1>3, <1>5, <1>6, <1>7, SeqEqual
<1> QED
  BY <1>8 DEF t, u

(* After a wake-up the pool has served the first of its line, as many as    *)
(* there are permits, however many of them were told so.                    *)
LEMMA WakeServes ==
  ASSUME NEW c, NEW p, NEW v, NEW w, NEW k, WakeReady(c, p, v, w, k), Wake(c, p, v, w, k)
  PROVE  /\ Line' = SubSeq(w, Min2(v, Len(w)) + 1, Len(w))
         /\ Running' = ((Holding \cup Granted) \ {c}) \cup (IF p \in SlotPhases THEN {c} ELSE {})
                          \cup {w[i] : i \in 1..Min2(v, Len(w))}
         /\ Pending' = (Pending \ {c}) \cup (IF p \in {"reserved", "abandoned"} THEN {c} ELSE {})
<1> DEFINE m == Min2(v, Len(w))
<1>0. /\ w \in Seq(Calls) /\ Len(w) \in Nat /\ v \in Nat /\ k \in 0..Len(w) /\ k <= v
      /\ c \in Calls /\ p # "granted"
      /\ \A i \in 1..Len(w) : w[i] \in Calls /\ pc[w[i]] = "waiting" /\ w[i] # c
  BY LenProperties, ElementOfSeq DEF WakeReady
<1>1. permits' = v - k /\ waiters' = SubSeq(w, k + 1, Len(w))
      /\ pc' = [d \in Calls |->
              IF d = c THEN p ELSE IF d \in {w[i] : i \in 1..k} THEN "granted" ELSE pc[d]]
  BY DEF Wake
<1>moves. pc'[c] = p /\ OnlyMoves(c)
  BY WakeEffect DEF WakeLeaves
<1>2. m \in k..Len(w)
  BY <1>0 DEF Min2
<1>3. Len(waiters') = Len(w) - k /\ \A i \in 1..(Len(w) - k) : waiters'[i] = w[k + i]
  BY <1>0, <1>1, Suffix
<1>4. Entitled' = m - k
  BY <1>0, <1>1, <1>3 DEF Entitled, Min2
<1>5. Line' = SubSeq(w, m + 1, Len(w))
  <2>1. Line' = SubSeq(waiters', (m - k) + 1, Len(waiters'))
    BY <1>4 DEF Line
  <2> HIDE DEF m
  <2> QED
    BY <1>0, <1>1, <1>2, <2>1, SuffixOfSuffix
<1>6. Served' = {w[k + i] : i \in 1..(m - k)}
  <2>1. Served' = {waiters'[i] : i \in 1..(m - k)}
    BY <1>4 DEF Served
  <2> HIDE DEF m
  <2>2. \A i \in 1..(m - k) : waiters'[i] = w[k + i]
    <3>1. \A i \in 1..(m - k) : i \in 1..(Len(w) - k)
      BY <1>0, <1>2
    <3> QED
      BY <1>3, <3>1
  <2> QED
    BY <2>1, <2>2
<1>7. Granted' = (Granted \ {c}) \cup {w[i] : i \in 1..k}
  BY <1>0, <1>1 DEF Granted
<1>8. Holding' = (Holding \ {c}) \cup (IF p \in SlotPhases THEN {c} ELSE {})
  <2>1. "waiting" \notin SlotPhases /\ "granted" \notin SlotPhases
    BY DEF SlotPhases, SetupPhases
  <2>2. \A d \in Calls \ {c} : pc'[d] \in SlotPhases <=> pc[d] \in SlotPhases
    BY <1>moves, <2>1 DEF OnlyMoves
  <2> QED
    BY <1>0, <1>moves, <2>2 DEF Holding
<1>9. {w[i] : i \in 1..m} = {w[i] : i \in 1..k} \cup {w[k + i] : i \in 1..(m - k)}
  <2>1. k \in Nat /\ m \in Nat /\ k <= m
    BY <1>0, <1>2
  <2>2. \A i \in 1..m : i \in 1..k \/ (i - k \in 1..(m - k) /\ k + (i - k) = i)
    BY <2>1
  <2>3. \A i \in 1..k : i \in 1..m
    BY <2>1
  <2>4. \A i \in 1..(m - k) : k + i \in 1..m
    BY <2>1
  <2> HIDE DEF m
  <2> QED
    BY <2>2, <2>3, <2>4
<1>10. Pending' = (Pending \ {c}) \cup (IF p \in {"reserved", "abandoned"} THEN {c} ELSE {})
  <2>1. \A d \in Calls \ {c} : pc'[d] \in {"reserved", "abandoned"} <=> pc[d] \in {"reserved", "abandoned"}
    BY <1>moves DEF OnlyMoves
  <2> QED
    BY <1>0, <1>moves, <2>1 DEF Pending
<1> HIDE DEF m
<1>11. Running' = ((Holding \cup Granted) \ {c}) \cup (IF p \in SlotPhases THEN {c} ELSE {})
                          \cup {w[i] : i \in 1..m}
  BY <1>6, <1>7, <1>8, <1>9 DEF Running
<1> QED
  BY <1>5, <1>10, <1>11 DEF m

(* The abstract actions, in the terms of the mapping. *)
MayRun == Line = <<>> /\ Cardinality(Running) < MaxConcurrency
Serving(c) ==
  \/ MayRun /\ Running' = Running \cup {c} /\ Line' = Line
  \/ ~MayRun /\ Line' = Append(Line, c) /\ Running' = Running
Ending(c) ==
  /\ c \in Running /\ Pending' = Pending
  /\ \/ Line = <<>> /\ Running' = Running \ {c} /\ Line' = Line
     \/ Line # <<>> /\ Running' = (Running \ {c}) \cup {Head(Line)} /\ Line' = Tail(Line)
Leaving(c) ==
  /\ Pending' = Pending /\ Running' = Running
  /\ \E i \in DOMAIN Line : Line[i] = c /\ Line' = SubSeq(Line, 1, i - 1) \o SubSeq(Line, i + 1, Len(Line))
Still == Pending' = Pending /\ Line' = Line /\ Running' = Running
(* A call is let in, or leaves the calls that were let in for its turn.     *)
Admitting(c) ==
  \/ Pending' = Pending \cup {c} /\ Line' = Line /\ Running' = Running
  \/ Pending' = Pending /\ Serving(c)
Joining(c) == Pending' = Pending \ {c} /\ Serving(c)
Present == Pending \cup {Line[i] : i \in DOMAIN Line} \cup Running

(* AdmissionControl counts with an instance of FiniteSets of its own. *)
LEMMA SameCardinality ==
  ASSUME NEW S
  PROVE  Admission!Cardinality(S) = Cardinality(S)
BY DEF Admission!Cardinality, Cardinality

(* Those terms mean the abstract actions. *)
LEMMA Mapped ==
  ASSUME NEW c \in Calls
  PROVE  /\ Ending(c) => Admission!Next
         /\ Leaving(c) => Admission!Next
         /\ Still => UNCHANGED Admission!vars
         /\ c \notin Present /\ Cardinality(Present) < MaxQueueDepth /\ Admitting(c)
              => Admission!Next
         /\ c \in Pending /\ Joining(c) => Admission!Next
<1>1. Ending(c) => Admission!Finish(c)
  BY DEF Ending, Admission!Finish, Pending, Line, Running, Served
<1>2. Leaving(c) => Admission!Withdraw(c)
  BY DEF Leaving, Admission!Withdraw, Pending, Line, Running, Served
<1>3. Still => UNCHANGED Admission!vars
  BY DEF Still, Admission!vars, Pending, Line, Running, Served
<1>4. MayRun <=> Admission!MayRun
  BY SameCardinality DEF MayRun, Admission!MayRun, Line, Running, Served
<1>5. Serving(c) => Admission!Run(c) \/ Admission!Wait(c)
  <2>1. MayRun /\ Running' = Running \cup {c} /\ Line' = Line => Admission!Run(c)
    BY <1>4 DEF Admission!Run, Line, Running, Served
  <2>2. ~MayRun /\ Line' = Append(Line, c) /\ Running' = Running => Admission!Wait(c)
    BY <1>4 DEF Admission!Wait, Line, Running, Served
  <2> QED
    BY <2>1, <2>2 DEF Serving
<1>6. Present = Admission!Present
  BY DEF Present, Admission!Present, Pending, Line, Running, Served
<1>7. ASSUME c \notin Present, Cardinality(Present) < MaxQueueDepth, Admitting(c)
      PROVE  Admission!Admit(c)
  <2>1. c \notin Admission!Present /\ Admission!HasRoom
    BY <1>6, <1>7, SameCardinality DEF Admission!HasRoom
  <2>2. CASE Pending' = Pending \cup {c} /\ Line' = Line /\ Running' = Running
    BY <2>1, <2>2 DEF Admission!Admit, Pending, Line, Running, Served
  <2>3. CASE Pending' = Pending /\ Serving(c)
    BY <1>5, <2>1, <2>3 DEF Admission!Admit, Pending
  <2> QED
    BY <1>7, <2>2, <2>3 DEF Admitting
<1>8. c \in Pending /\ Joining(c) => Admission!Join(c)
  BY <1>5 DEF Joining, Admission!Join, Pending
<1> QED
  BY <1>1, <1>2, <1>3, <1>7, <1>8 DEF Admission!Next

-----------------------------------------------------------------------------
(* Where the line is cut: the calls the pool has permits for, and the rest.  *)
LEMMA EntitledFacts ==
  ASSUME IInv
  PROVE  /\ Entitled = Min2(permits, Len(waiters))
         /\ Entitled \in 0..Len(waiters) /\ Entitled \in Nat /\ permits \in Nat
         /\ Served \in SUBSET Calls /\ \A d \in Served : pc[d] = "waiting"
         /\ Line \in Seq(Calls) /\ Len(Line) = Len(waiters) - Entitled
         /\ \A j \in 1..(Len(waiters) - Entitled) : Line[j] = waiters[Entitled + j]
         /\ Line = <<>> <=> Len(waiters) <= permits
<1>1. permits \in Nat /\ Len(waiters) \in Nat /\ waiters \in Seq(Calls)
  BY LineFacts DEF IInv, TypeOK
<1>2. Entitled = Min2(permits, Len(waiters)) /\ Entitled \in 0..Len(waiters) /\ Entitled \in Nat
  BY <1>1 DEF Entitled, Min2
<1>3. Served \in SUBSET Calls /\ \A d \in Served : pc[d] = "waiting"
  <2>1. \A i \in 1..Entitled : i \in 1..Len(waiters)
    BY <1>1, <1>2
  <2> QED
    BY <2>1, LineFacts DEF Served
<1>4. /\ Line \in Seq(Calls) /\ Len(Line) = Len(waiters) - Entitled
      /\ \A j \in 1..(Len(waiters) - Entitled) : Line[j] = waiters[Entitled + j]
  BY <1>1, <1>2, Suffix DEF Line
<1>5. Line = <<>> <=> Len(Line) = 0
  BY <1>4, EmptySeq
<1>6. Len(Line) = 0 <=> Len(waiters) <= permits
  BY <1>1, <1>2, <1>4 DEF Min2
<1> QED
  BY <1>1, <1>2, <1>3, <1>4, <1>5, <1>6

(* A call may run at once when the pool has a permit for it after everybody  *)
(* who stands in line.                                                       *)
LEMMA MayRunIff ==
  ASSUME IInv
  PROVE  MayRun <=> Len(waiters) < permits
<1>1. /\ permits \in Nat /\ Len(waiters) \in Nat /\ active \in Nat
      /\ permits + active + Cardinality(Granted) = MaxConcurrency
      /\ active = Cardinality(Holding)
  BY LineFacts DEF IInv, TypeOK, CountersAgree
<1>2. Holding \in SUBSET Calls /\ Granted \in SUBSET Calls /\ Served \in SUBSET Calls
  BY EntitledFacts DEF Holding, Granted
<1>3. Holding \cap Granted = {} /\ (Holding \cup Granted) \cap Served = {}
  <2>1. "waiting" \notin SlotPhases /\ "granted" \notin SlotPhases
    BY DEF SlotPhases, SetupPhases
  <2> QED
    BY <2>1, EntitledFacts DEF Holding, Granted
<1>4. Cardinality(Served) = Entitled
  <2>1. Entitled \in 0..Len(waiters)
    BY EntitledFacts
  <2> QED
    BY <2>1, LineFacts, PrefixCardinality DEF Served
<1>5. Cardinality(Running) = Cardinality(Holding) + Cardinality(Granted) + Cardinality(Served)
  <2>1. Cardinality(Holding \cup Granted) = Cardinality(Holding) + Cardinality(Granted)
    BY <1>2, <1>3, AddCalls
  <2>2. Cardinality((Holding \cup Granted) \cup Served)
          = Cardinality(Holding \cup Granted) + Cardinality(Served)
    BY <1>2, <1>3, AddCalls
  <2> QED
    BY <2>1, <2>2 DEF Running
<1>6. Cardinality(Granted) \in Nat /\ Entitled \in Nat /\ Entitled = Min2(permits, Len(waiters))
  BY <1>2, CallSetsFinite, EntitledFacts
<1>7. Cardinality(Running) < MaxConcurrency <=> Entitled < permits
  BY <1>1, <1>4, <1>5, <1>6, RunnerAssumption
<1>8. Line = <<>> <=> Len(waiters) <= permits
  BY EntitledFacts
<1> QED
  BY <1>1, <1>6, <1>7, <1>8 DEF MayRun, Min2

(* The permit of a call that leaves belongs to the head of the line.         *)
LEMMA PassOn ==
  ASSUME IInv, NEW c \in Holding \cup Granted, NEW p, NEW k,
         p \notin SlotPhases, p \notin {"reserved", "abandoned"},
         WakeReady(c, p, permits + 1, waiters, k), Wake(c, p, permits + 1, waiters, k)
  PROVE  Ending(c)
<1> DEFINE n == Len(waiters)
           others == (Holding \cup Granted) \ {c}
<1>1. /\ permits \in Nat /\ n \in Nat /\ waiters \in Seq(Calls)
      /\ \A i \in 1..n : waiters[i] \in Calls
      /\ Entitled = Min2(permits, n)
  BY LineFacts, EntitledFacts
<1>2. /\ c \in Calls /\ c \notin Pending /\ c \notin Served
  <2>1. pc[c] \in SlotPhases \cup {"granted"} /\ c \in Calls
    BY DEF Holding, Granted
  <2>2. pc[c] \notin {"reserved", "abandoned", "waiting"}
    BY <2>1 DEF SlotPhases, SetupPhases
  <2> QED
    BY <2>1, <2>2, EntitledFacts DEF Pending
<1>3. /\ Line' = SubSeq(waiters, Min2(permits + 1, n) + 1, n)
      /\ Running' = others \cup {waiters[i] : i \in 1..Min2(permits + 1, n)}
      /\ Pending' = Pending
  <2>1. /\ Line' = SubSeq(waiters, Min2(permits + 1, n) + 1, n)
        /\ Running' = others \cup (IF p \in SlotPhases THEN {c} ELSE {})
                         \cup {waiters[i] : i \in 1..Min2(permits + 1, n)}
        /\ Pending' = (Pending \ {c}) \cup (IF p \in {"reserved", "abandoned"} THEN {c} ELSE {})
    BY WakeServes
  <2> HIDE DEF n, others
  <2> QED
    BY <1>2, <2>1
<1>4. c \in Running /\ Running \ {c} = others \cup Served
  BY <1>2 DEF Running
<1>5. CASE n <= permits
  <2>1. Entitled = n /\ Min2(permits + 1, n) = n /\ Line = <<>>
    BY <1>1, <1>5, EntitledFacts DEF Min2
  <2>2. Line' = Line /\ Running' = others \cup Served
    BY <1>3, <2>1 DEF Line, Served
  <2> QED
    BY <1>3, <1>4, <2>1, <2>2 DEF Ending
<1>6. CASE ~(n <= permits)
  <2>1. /\ Entitled = permits /\ Min2(permits + 1, n) = permits + 1 /\ Line # <<>>
        /\ permits \in 0..n /\ permits + 1 \in permits..n
    BY <1>1, <1>6, EntitledFacts DEF Min2
  <2>2. Line \in Seq(Calls) /\ Line[1] = waiters[permits + 1]
    <3>1. 1 \in 1..(n - permits)
      BY <1>1, <1>6
    <3> QED
      BY <2>1, <3>1, EntitledFacts
  <2>3. Head(Line) = waiters[permits + 1]
    BY <2>1, <2>2
  <2>4. Line' = Tail(Line)
    <3>1. Line = SubSeq(waiters, permits + 1, n)
      BY <2>1 DEF Line
    <3>2. SubSeq(Line, ((permits + 1) - permits) + 1, Len(Line))
            = SubSeq(waiters, (permits + 1) + 1, n)
      BY <1>1, <2>1, <3>1, SuffixOfSuffix
    <3>3. ((permits + 1) - permits) + 1 = 2
      BY <1>1
    <3>4. Tail(Line) = SubSeq(Line, 2, Len(Line))
      BY <2>1, <2>2, TailIsSubSeq
    <3> QED
      BY <1>3, <2>1, <3>2, <3>3, <3>4
  <2>5. {waiters[i] : i \in 1..(permits + 1)} = Served \cup {Head(Line)}
    <3>1. \A i \in 1..(permits + 1) : i \in 1..permits \/ i = permits + 1
      BY <1>1
    <3>2. permits + 1 \in 1..(permits + 1) /\ \A i \in 1..permits : i \in 1..(permits + 1)
      BY <1>1
    <3> QED
      BY <2>1, <2>3, <3>1, <3>2 DEF Served
  <2>6. Running' = (others \cup Served) \cup {Head(Line)}
    BY <1>3, <2>1, <2>5
  <2> QED
    BY <1>3, <1>4, <2>1, <2>4, <2>6 DEF Ending
<1> QED
  BY <1>5, <1>6

(* A woken call that takes its permit was running all along. *)
LEMMA Resumes ==
  ASSUME IInv, NEW c \in Calls, NEW p \in {"locking", "starting"}, pc[c] = "granted",
         WakeAll(c, p, permits, waiters)
  PROVE  Still
<1> DEFINE n == Len(waiters)
<1>1. /\ permits \in Nat /\ n \in Nat /\ Entitled = Min2(permits, n) /\ Entitled \in 0..n
      /\ Entitled <= permits
  BY LineFacts, EntitledFacts DEF Min2
<1>2. p \in SlotPhases /\ p \in Phases \ {"granted"} /\ c \in Granted /\ c \notin Pending
  BY DEF Phases, SlotPhases, SetupPhases, Granted, Pending
<1>3. WakeReady(c, p, permits, waiters, Entitled)
  BY <1>1, <1>2, LineFacts DEF WakeReady, IInv
<1>4. Wake(c, p, permits, waiters, Entitled)
  BY DEF WakeAll, Entitled
<1>5. /\ Line' = SubSeq(waiters, Min2(permits, n) + 1, n)
      /\ Running' = ((Holding \cup Granted) \ {c}) \cup {c} \cup {waiters[i] : i \in 1..Min2(permits, n)}
      /\ Pending' = Pending \ {c}
  BY <1>2, <1>3, <1>4, WakeServes
<1>6. Line' = Line /\ Running' = Running /\ Pending' = Pending
  BY <1>1, <1>2, <1>5 DEF Line, Running, Served
<1> QED
  BY <1>6 DEF Still

(* A call that enters the slot runs if it may, and stands in line if not.    *)
LEMMA Enters ==
  ASSUME IInv, NEW c \in Calls, NEW k, NEW n, pc[c] \in {"idle", "reserved"},
         EnterSlot(c, k, n)
  PROVE  Pending' = Pending \ {c} /\ Serving(c)
<1> DEFINE m == Len(waiters)
<1>1. /\ permits \in Nat /\ m \in Nat /\ waiters \in Seq(Calls) /\ pc \in [Calls -> Phases]
      /\ Entitled = Min2(permits, m) /\ Entitled \in 0..m
  BY LineFacts, EntitledFacts DEF IInv, TypeOK
<1>2. /\ FirstPhase(k) \in SlotPhases
      /\ FirstPhase(k) \notin {"reserved", "abandoned", "granted"}
      /\ "waiting" \notin SlotPhases /\ "reserved" \notin SlotPhases /\ "idle" \notin SlotPhases
  BY DEF FirstPhase, SlotPhases, SetupPhases
<1>3. CASE SlotFree /\ permits' = permits - 1 /\ pc' = [pc EXCEPT ![c] = FirstPhase(k)]
           /\ UNCHANGED waiters
  <2>1. m = 0 /\ permits > 0 /\ waiters = <<>>
    BY <1>3, EmptySeq DEF SlotFree
  <2>2. Entitled = 0 /\ Entitled' = 0 /\ MayRun
    BY <1>1, <1>3, <2>1, MayRunIff DEF Entitled, Min2
  <2>3. Line' = Line
    BY <1>3, <2>2 DEF Line
  <2>4. Served = {} /\ Served' = {}
    BY <2>2 DEF Served
  <2>5. Holding' = Holding \cup {c} /\ Granted' = Granted /\ Pending' = Pending \ {c}
    BY <1>1, <1>2, <1>3 DEF Holding, Granted, Pending
  <2> QED
    BY <2>2, <2>3, <2>4, <2>5 DEF Serving, Running
<1>4. CASE ~SlotFree /\ waiters' = Append(waiters, c) /\ pc' = [pc EXCEPT ![c] = "waiting"]
           /\ UNCHANGED permits
  <2>1. /\ waiters' \in Seq(Calls) /\ Len(waiters') = m + 1
        /\ \A i \in 1..m : waiters'[i] = waiters[i]
        /\ waiters'[m + 1] = c
    BY <1>1, <1>4, AppendProperties
  <2>2. Holding' = Holding /\ Granted' = Granted /\ Pending' = Pending \ {c}
    BY <1>1, <1>2, <1>4 DEF Holding, Granted, Pending
  <2>3. Entitled' = Min2(permits, m + 1)
    BY <1>1, <1>4, <2>1 DEF Entitled, Min2
  <2>4. CASE m < permits
    <3>1. Entitled = m /\ Entitled' = m + 1 /\ MayRun /\ Line = <<>>
      BY <1>1, <2>3, <2>4, MayRunIff, EntitledFacts DEF Min2
    <3>2. Line' = <<>>
      <4>1. Line' = SubSeq(waiters', (m + 1) + 1, Len(waiters'))
        BY <3>1 DEF Line
      <4>2. m + 1 \in 0..Len(waiters') /\ Len(waiters') - (m + 1) = 0
        BY <1>1, <2>1
      <4> HIDE DEF m
      <4>3. Line' \in Seq(Calls) /\ Len(Line') = 0
        BY <2>1, <4>1, <4>2, Suffix
      <4> QED
        BY <4>3, EmptySeq
    <3>3. Served' = Served \cup {c}
      <4>1. Served' = {waiters'[i] : i \in 1..(m + 1)} /\ Served = {waiters[i] : i \in 1..m}
        BY <3>1 DEF Served
      <4>2. \A i \in 1..(m + 1) : i \in 1..m \/ i = m + 1
        BY <1>1
      <4>3. m + 1 \in 1..(m + 1) /\ \A i \in 1..m : i \in 1..(m + 1)
        BY <1>1
      <4> HIDE DEF m
      <4> QED
        BY <2>1, <4>1, <4>2, <4>3
    <3> QED
      BY <2>2, <3>1, <3>2, <3>3 DEF Serving, Running
  <2>5. CASE ~(m < permits)
    <3>1. Entitled = permits /\ Entitled' = permits /\ ~MayRun /\ permits \in 0..m
      BY <1>1, <2>3, <2>5, MayRunIff DEF Min2
    <3>2. Served' = Served
      <4>1. Served' = {waiters'[i] : i \in 1..permits} /\ Served = {waiters[i] : i \in 1..permits}
        BY <3>1 DEF Served
      <4>2. \A i \in 1..permits : i \in 1..m
        BY <1>1, <3>1
      <4> QED
        BY <2>1, <4>1, <4>2
    <3>3. Line' = Append(Line, c)
      <4>1. Line' = SubSeq(waiters', permits + 1, Len(waiters')) /\ permits \in 0..Len(waiters')
        BY <1>1, <2>1, <3>1 DEF Line
      <4>2. /\ Line' \in Seq(Calls) /\ Len(Line') = (m + 1) - permits
            /\ \A i \in 1..((m + 1) - permits) : Line'[i] = waiters'[permits + i]
        BY <2>1, <4>1, Suffix
      <4>3. /\ Line \in Seq(Calls) /\ Len(Line) = m - permits
            /\ \A i \in 1..(m - permits) : Line[i] = waiters[permits + i]
        BY <3>1, EntitledFacts
      <4> DEFINE t == Append(Line, c)
      <4>4. /\ t \in Seq(Calls) /\ Len(t) = (m - permits) + 1
            /\ \A i \in 1..(m - permits) : t[i] = Line[i]
            /\ t[(m - permits) + 1] = c
        BY <4>3, AppendProperties
      <4> HIDE DEF t, m
      <4>5. Len(t) = Len(Line')
        BY <1>1, <4>2, <4>4
      <4>6. ASSUME NEW i \in 1..Len(t) PROVE t[i] = Line'[i]
        <5>1. Line'[i] = waiters'[permits + i]
          BY <4>2, <4>5
        <5>2. CASE i \in 1..(m - permits)
          <6>1. permits + i \in 1..m
            BY <1>1, <3>1, <5>2
          <6> QED
            BY <2>1, <4>3, <4>4, <5>1, <5>2, <6>1
        <5>3. CASE i = (m - permits) + 1
          <6>1. permits + i = m + 1
            BY <1>1, <5>3
          <6> QED
            BY <2>1, <4>4, <5>1, <5>3, <6>1
        <5> QED
          BY <1>1, <3>1, <4>4, <5>2, <5>3
      <4>7. t = Line'
        BY <4>2, <4>4, <4>5, <4>6, SeqEqual
      <4> QED
        BY <4>7 DEF t
    <3> QED
      BY <2>2, <3>1, <3>2, <3>3 DEF Serving, Running
  <2> QED
    BY <2>4, <2>5
<1> QED
  BY <1>3, <1>4 DEF EnterSlot

(* The first m of a line, and who they are after one of them has left. *)
Firsts(v, m) == {v[j] : j \in 1..m}

LEMMA LineWithout ==
  ASSUME NEW v \in Seq(Calls), NEW m \in 0..(Len(v) - 1), NEW i \in 1..(m + 1),
         \A j, l \in 1..Len(v) : v[j] = v[l] => j = l
  PROVE  Firsts(v, m + 1) \ {v[i]} = Firsts(Without(v, i), m)
<1> DEFINE w == Without(v, i)
<1>0. Len(v) \in Nat /\ m \in Nat /\ i \in Nat /\ i \in 1..Len(v)
  BY LenProperties
<1>w. \A j \in 1..(Len(v) - 1) : w[j] = IF j < i THEN v[j] ELSE v[j + 1]
  BY <1>0, CutLine
<1> HIDE DEF w
<1>1. ASSUME NEW j \in 1..(m + 1), v[j] # v[i]
      PROVE  \E l \in 1..m : v[j] = w[l]
  <2>1. CASE j < i
    <3>1. j \in 1..m /\ j \in 1..(Len(v) - 1)
      BY <1>0, <2>1
    <3> QED
      BY <1>w, <2>1, <3>1
  <2>2. CASE ~(j < i)
    <3>1. j # i /\ j - 1 \in 1..m /\ j - 1 \in 1..(Len(v) - 1) /\ ~(j - 1 < i) /\ (j - 1) + 1 = j
      BY <1>0, <1>1, <2>2
    <3> QED
      BY <1>w, <3>1
  <2> QED
    BY <2>1, <2>2
<1>2. ASSUME NEW j \in 1..m
      PROVE  w[j] # v[i] /\ \E l \in 1..(m + 1) : w[j] = v[l]
  <2>1. /\ j \in 1..(Len(v) - 1) /\ j \in 1..Len(v) /\ j + 1 \in 1..Len(v) /\ i \in 1..Len(v)
        /\ j \in 1..(m + 1) /\ j + 1 \in 1..(m + 1)
    BY <1>0
  <2>2. CASE j < i
    BY <1>0, <1>w, <2>1, <2>2
  <2>3. CASE ~(j < i)
    <3>1. j + 1 # i
      BY <1>0, <2>3
    <3> QED
      BY <1>w, <2>1, <2>3, <3>1
  <2> QED
    BY <2>2, <2>3
<1>3. ASSUME NEW x \in {v[j] : j \in 1..(m + 1)} \ {v[i]}
      PROVE  x \in {w[j] : j \in 1..m}
  <2>1. PICK j \in 1..(m + 1) : x = v[j]
    OBVIOUS
  <2>2. PICK l \in 1..m : v[j] = w[l]
    BY <1>1, <2>1
  <2> QED
    BY <2>1, <2>2
<1>4. ASSUME NEW x \in {w[j] : j \in 1..m}
      PROVE  x \in {v[j] : j \in 1..(m + 1)} \ {v[i]}
  <2>1. PICK j \in 1..m : x = w[j]
    OBVIOUS
  <2>2. PICK l \in 1..(m + 1) : w[j] = v[l]
    BY <1>2
  <2> QED
    BY <1>2, <2>1, <2>2
<1>5. {v[j] : j \in 1..(m + 1)} \ {v[i]} = {w[j] : j \in 1..m}
  BY <1>3, <1>4
<1> QED
  BY <1>5 DEF w, Firsts

(* A cancelled waiter gives up its permit, if the pool has one for it, or    *)
(* its place in the line.                                                    *)
LEMMA Withdraws ==
  ASSUME IInv, NEW i \in DOMAIN waiters,
         WakeAll(waiters[i], "done", permits, Without(waiters, i))
  PROVE  Ending(waiters[i]) \/ Leaving(waiters[i])
<1> DEFINE n == Len(waiters)
           c == waiters[i]
           w == Without(waiters, i)
           k == IF permits <= Len(w) THEN permits ELSE Len(w)
           others == Holding \cup Granted
<1>1. /\ permits \in Nat /\ n \in Nat /\ waiters \in Seq(Calls) /\ i \in 1..n /\ c \in Calls
      /\ \A j, m \in 1..n : waiters[j] = waiters[m] => j = m
      /\ Entitled = Min2(permits, n)
  BY LineFacts, EntitledFacts
<1>2. /\ w \in Seq(Calls) /\ Len(w) = n - 1
      /\ \A j \in 1..(n - 1) : w[j] = IF j < i THEN waiters[j] ELSE waiters[j + 1]
  BY <1>1, CutLine
<1>3. c \notin others /\ c \notin Pending /\ pc[c] = "waiting"
  <2>1. pc[c] = "waiting"
    BY <1>1, LineFacts
  <2> QED
    BY <2>1 DEF Holding, Granted, Pending, SlotPhases, SetupPhases
<1>4. WakeReady(c, "done", permits, w, k)
  <2>1. WakeReady(c, "done", permits, w, 0)
    BY LeaveLine
  <2>2. Len(w) \in Nat /\ k \in 0..Len(w) /\ k <= permits
    BY <1>1, <1>2
  <2> HIDE DEF c, w, k
  <2> QED
    BY <2>1, <2>2 DEF WakeReady
<1>5. Wake(c, "done", permits, w, k)
  BY DEF WakeAll
<1> HIDE DEF c, w, k
<1>6. /\ Line' = SubSeq(w, Min2(permits, n - 1) + 1, n - 1)
      /\ Running' = others \cup {w[j] : j \in 1..Min2(permits, n - 1)}
      /\ Pending' = Pending
  <2>1. /\ Line' = SubSeq(w, Min2(permits, n - 1) + 1, n - 1)
        /\ Running' = (others \ {c}) \cup (IF "done" \in SlotPhases THEN {c} ELSE {})
                         \cup {w[j] : j \in 1..Min2(permits, n - 1)}
        /\ Pending' = (Pending \ {c}) \cup (IF "done" \in {"reserved", "abandoned"} THEN {c} ELSE {})
    BY <1>2, <1>4, <1>5, WakeServes
  <2>2. "done" \notin SlotPhases /\ "done" \notin {"reserved", "abandoned"}
    BY DEF SlotPhases, SetupPhases
  <2> HIDE DEF others, n
  <2> QED
    BY <1>3, <2>1, <2>2
<1>7. c = waiters[i]
  BY DEF c
<1>8. CASE n <= permits
  <2>1. Entitled = n /\ Min2(permits, n - 1) = n - 1 /\ Line = <<>>
    BY <1>1, <1>8, EntitledFacts DEF Min2
  <2>2. Line' = Line
    <3>1. n - 1 \in 0..Len(w) /\ Len(w) - (n - 1) = 0
      BY <1>1, <1>2
    <3>2. Line' \in Seq(Calls) /\ Len(Line') = 0
      BY <1>2, <1>6, <2>1, <3>1, Suffix
    <3> QED
      BY <2>1, <3>2, EmptySeq
  <2>3. Served \ {c} = {w[j] : j \in 1..(n - 1)} /\ c \in Served
    <3>1. n - 1 \in 0..(n - 1) /\ (n - 1) + 1 = n /\ i \in 1..((n - 1) + 1)
      BY <1>1
    <3>2. Firsts(waiters, (n - 1) + 1) \ {waiters[i]} = Firsts(Without(waiters, i), n - 1)
      BY <1>1, <3>1, LineWithout
    <3>3. Served = {waiters[j] : j \in 1..n}
      BY <2>1 DEF Served
    <3>4. w = Without(waiters, i)
      BY DEF w
    <3> HIDE DEF n
    <3> QED
      BY <1>1, <1>7, <3>1, <3>2, <3>3, <3>4 DEF Firsts
  <2>4. Running' = Running \ {c} /\ c \in Running
    BY <1>3, <1>6, <2>1, <2>3 DEF Running
  <2> QED
    BY <1>6, <2>1, <2>2, <2>4 DEF Ending, c
<1>9. CASE ~(n <= permits)
  <2>1. /\ Entitled = permits /\ Min2(permits, n - 1) = permits /\ Line # <<>>
        /\ permits \in 0..(n - 1) /\ permits \in 0..n
    BY <1>1, <1>9, EntitledFacts DEF Min2
  <2>2. /\ Line \in Seq(Calls) /\ Len(Line) = n - permits
        /\ \A j \in 1..(n - permits) : Line[j] = waiters[permits + j]
    BY <2>1, EntitledFacts
  <2>3. /\ Line' \in Seq(Calls) /\ Len(Line') = (n - 1) - permits
        /\ \A j \in 1..((n - 1) - permits) : Line'[j] = w[permits + j]
    <3>1. Line' = SubSeq(w, permits + 1, Len(w)) /\ permits \in 0..Len(w)
      BY <1>2, <1>6, <2>1
    <3> QED
      BY <1>2, <3>1, Suffix
  <2>4. Served = {waiters[j] : j \in 1..permits}
    BY <2>1 DEF Served
  <2>5. CASE i <= permits
    <3>1. Line' = Tail(Line)
      <4> DEFINE t == Tail(Line)
      <4>1. t \in Seq(Calls) /\ Len(t) = (n - permits) - 1 /\ \A j \in 1..Len(t) : t[j] = Line[j + 1]
        BY <2>1, <2>2, HeadTailProperties
      <4> HIDE DEF t, n
      <4>2. Len(t) = Len(Line')
        BY <1>1, <2>3, <4>1
      <4>3. ASSUME NEW j \in 1..Len(t) PROVE t[j] = Line'[j]
        <5>1. /\ j \in 1..((n - 1) - permits) /\ j + 1 \in 1..(n - permits)
              /\ permits + j \in 1..(n - 1) /\ ~(permits + j < i)
              /\ (permits + j) + 1 = permits + (j + 1)
          BY <1>1, <2>1, <2>5, <4>1
        <5>2. Line'[j] = w[permits + j] /\ w[permits + j] = waiters[(permits + j) + 1]
          BY <1>2, <2>3, <5>1
        <5> QED
          BY <2>2, <4>1, <5>1, <5>2
      <4>4. t = Line'
        BY <2>3, <4>1, <4>2, <4>3, SeqEqual
      <4> QED
        BY <4>4 DEF t
    <3>2. Head(Line) = waiters[permits + 1]
      <4>1. 1 \in 1..(n - permits) /\ Head(Line) = Line[1]
        BY <1>1, <1>9, <2>2
      <4> QED
        BY <2>2, <4>1
    <3>3. {w[j] : j \in 1..permits} = (Served \ {c}) \cup {Head(Line)} /\ c \in Served
      <4>1. permits + 1 \in 1..n /\ i \in 1..(permits + 1)
        BY <1>1, <1>9, <2>5
      <4>2. {waiters[j] : j \in 1..(permits + 1)} \ {c} = {w[j] : j \in 1..permits}
        <5>1. Firsts(waiters, permits + 1) \ {waiters[i]} = Firsts(Without(waiters, i), permits)
          BY <1>1, <2>1, <4>1, LineWithout
        <5>2. w = Without(waiters, i)
          BY DEF w
        <5> QED
          BY <1>7, <5>1, <5>2 DEF Firsts
      <4>3. {waiters[j] : j \in 1..(permits + 1)} = Served \cup {Head(Line)}
        <5>1. \A j \in 1..(permits + 1) : j \in 1..permits \/ j = permits + 1
          BY <1>1
        <5>2. permits + 1 \in 1..(permits + 1) /\ \A j \in 1..permits : j \in 1..(permits + 1)
          BY <1>1
        <5> QED
          BY <2>4, <3>2, <5>1, <5>2
      <4>4. c # Head(Line) /\ c \in Served
        <5>1. i # permits + 1 /\ i \in 1..permits
          BY <1>1, <2>5
        <5> QED
          BY <1>1, <1>7, <2>4, <3>2, <4>1, <5>1
      <4> HIDE DEF n
      <4> QED
        BY <4>2, <4>3, <4>4
    <3>4. Running' = (Running \ {c}) \cup {Head(Line)} /\ c \in Running
      BY <1>3, <1>6, <2>1, <3>3 DEF Running
    <3> QED
      BY <1>6, <2>1, <3>1, <3>4 DEF Ending, c
  <2>6. CASE ~(i <= permits)
    <3> DEFINE m == i - permits
    <3>1. m \in 1..(n - permits) /\ m \in 1..Len(Line) /\ permits + m = i
      BY <1>1, <2>1, <2>2, <2>6
    <3>2. Line[m] = c /\ m \in DOMAIN Line
      <4>1. Line[m] = waiters[permits + m]
        BY <2>2, <3>1
      <4>2. DOMAIN Line = 1..Len(Line)
        BY <2>2, LenProperties
      <4> HIDE DEF m
      <4> QED
        BY <1>7, <3>1, <4>1, <4>2
    <3>3. {w[j] : j \in 1..permits} = Served
      <4>1. \A j \in 1..permits : j \in 1..(n - 1) /\ j < i
        BY <1>1, <2>1, <2>6
      <4> HIDE DEF n
      <4> QED
        BY <1>2, <2>4, <4>1
    <3>4. Line' = Without(Line, m)
      <4> DEFINE t == Without(Line, m)
      <4>1. /\ t \in Seq(Calls) /\ Len(t) = Len(Line) - 1
            /\ \A j \in 1..(Len(Line) - 1) : t[j] = IF j < m THEN Line[j] ELSE Line[j + 1]
        BY <2>2, <3>1, CutLine
      <4> HIDE DEF t, m, n
      <4>2. Len(t) = Len(Line')
        BY <1>1, <2>2, <2>3, <4>1
      <4>3. ASSUME NEW j \in 1..Len(t) PROVE t[j] = Line'[j]
        <5>1. /\ j \in 1..(Len(Line) - 1) /\ j \in 1..(n - permits) /\ j + 1 \in 1..(n - permits)
              /\ j \in 1..((n - 1) - permits) /\ permits + j \in 1..(n - 1)
              /\ (permits + j) + 1 = permits + (j + 1)
              /\ (permits + j < i <=> j < m)
          BY <1>1, <2>1, <2>2, <3>1, <4>1
        <5>2. Line'[j] = IF j < m THEN waiters[permits + j] ELSE waiters[permits + (j + 1)]
          BY <1>2, <2>3, <5>1
        <5>3. t[j] = IF j < m THEN waiters[permits + j] ELSE waiters[permits + (j + 1)]
          BY <2>2, <4>1, <5>1
        <5> QED
          BY <5>2, <5>3
      <4>4. t = Line'
        BY <2>3, <4>1, <4>2, <4>3, SeqEqual
      <4> QED
        BY <4>4 DEF t
    <3>5. Running' = Running
      BY <1>6, <2>1, <3>3 DEF Running
    <3> HIDE DEF m
    <3> QED
      BY <1>6, <3>2, <3>4, <3>5 DEF Leaving, Without, c
  <2> QED
    BY <2>5, <2>6
<1> QED
  BY <1>8, <1>9

(* The line of an idle pool. *)
LEMMA EmptyLine == Len(<<>>) = 0 /\ SubSeq(<<>>, 0 + 1, Len(<<>>)) = <<>>
<1>1. <<>> \in Seq(Calls) /\ Len(<<>>) = 0
  BY EmptySeq
<1>2. 0 \in 0..Len(<<>>)
  BY <1>1
<1>3. SubSeq(<<>>, 0 + 1, Len(<<>>)) \in Seq(Calls) /\ Len(SubSeq(<<>>, 0 + 1, Len(<<>>))) = 0
  BY <1>1, <1>2, Suffix
<1> QED
  BY <1>1, <1>3, EmptySeq

(* Admission reads two counters; a call they let in finds room.              *)
LEMMA Room ==
  ASSUME IInv, NEW c \in Calls, pc[c] = "idle", ~QueueFull
  PROVE  c \notin Present /\ Cardinality(Present) < MaxQueueDepth
<1>1. Present \subseteq Holding \cup Reserved
  <2>1. \A i \in DOMAIN Line : Line[i] \in Reserved
    <3>1. Len(waiters) \in Nat /\ Entitled \in Nat /\ DOMAIN Line = 1..(Len(waiters) - Entitled)
      BY LineFacts, EntitledFacts, LenProperties
    <3>2. ASSUME NEW i \in 1..(Len(waiters) - Entitled) PROVE Line[i] \in Reserved
      <4>1. Entitled + i \in 1..Len(waiters) /\ Line[i] = waiters[Entitled + i]
        BY <3>1, EntitledFacts
      <4>2. pc[Line[i]] = "waiting" /\ Line[i] \in Calls
        BY <4>1, LineFacts
      <4> QED
        BY <4>2 DEF Reserved, QueuePhases
    <3> QED
      BY <3>1, <3>2
  <2>2. Served \subseteq Reserved
    BY EntitledFacts DEF Reserved, QueuePhases
  <2>3. Pending \cup Granted \subseteq Reserved
    BY DEF Pending, Granted, Reserved, QueuePhases
  <2> QED
    BY <2>1, <2>2, <2>3 DEF Present, Running
<1>2. c \notin Holding \cup Reserved
  BY DEF Holding, Reserved, SlotPhases, SetupPhases, QueuePhases
<1>3. Cardinality(Present) <= Cardinality(Holding \cup Reserved)
  <2>1. Holding \cup Reserved \in SUBSET Calls
    BY DEF Holding, Reserved
  <2> QED
    BY <1>1, <2>1, CallSetsFinite, FS_Subset
<1>4. Cardinality(Holding \cup Reserved) = active + queued
  <2>1. Holding \in SUBSET Calls /\ Reserved \in SUBSET Calls /\ Holding \cap Reserved = {}
    BY DEF Holding, Reserved, SlotPhases, SetupPhases, QueuePhases
  <2> QED
    BY <2>1, AddCalls DEF IInv, CountersAgree
<1>5. Cardinality(Present) \in Nat
  <2>1. Present \in SUBSET Calls
    BY <1>1 DEF Holding, Reserved
  <2> QED
    BY <2>1, CallSetsFinite
<1>6. active + queued < MaxQueueDepth /\ active \in Nat /\ queued \in Nat
  BY RunnerAssumption DEF QueueFull, IInv, TypeOK
<1> QED
  BY <1>1, <1>2, <1>3, <1>4, <1>5, <1>6, RunnerAssumption

(* A call that moves without touching the semaphore.                         *)
LEMMA Moves ==
  ASSUME IInv, NEW c \in Calls, NEW p \in Phases, pc' = [pc EXCEPT ![c] = p],
         UNCHANGED <<permits, waiters>>, pc[c] # "granted", p # "granted",
         pc[c] \in SlotPhases <=> p \in SlotPhases
  PROVE  /\ Line' = Line /\ Running' = Running
         /\ p \in {"reserved", "abandoned"} => Pending' = Pending \cup {c}
         /\ p \notin {"reserved", "abandoned"} => Pending' = Pending \ {c}
<1>1. pc \in [Calls -> Phases]
  BY DEF IInv, TypeOK
<1>2. Entitled' = Entitled
  BY DEF Entitled
<1>3. Line' = Line /\ Served' = Served
  BY <1>2 DEF Line, Served
<1>4. Holding' = Holding /\ Granted' = Granted
  BY <1>1 DEF Holding, Granted
<1> QED
  BY <1>1, <1>3, <1>4 DEF Running, Pending

(* A step that touches neither the semaphore nor a call's phase. *)
LEMMA NothingMoves ==
  ASSUME UNCHANGED <<pc, permits, waiters>>
  PROVE  Still
BY DEF Still, Pending, Line, Running, Entitled, Served, Holding, Granted

(* The steps of a call that neither take nor return a permit. *)
LEMMA QuietSteps ==
  ASSUME IInv, NEW c \in Calls, NEW k,
         \/ Refuse(c, k) \/ Refresh(c) \/ FetchEnds(c) \/ Clone(c) \/ StartAgent(c)
         \/ Cleanup(c) \/ DisconnectReserved(c)
  PROVE  Still
<1> USE DEF SlotPhases, SetupPhases
<1>1. ASSUME NEW p \in Phases, pc' = [pc EXCEPT ![c] = p], UNCHANGED <<permits, waiters>>,
             \/ pc[c] \in {"idle", "ending"} /\ p \in {"refused", "done"}
             \/ pc[c] \in SlotPhases /\ p \in SlotPhases
             \/ pc[c] = "reserved" /\ p = "abandoned"
      PROVE  Still
  <2>1. Line' = Line /\ Running' = Running
    BY <1>1, Moves
  <2>2. Pending' = Pending
    BY <1>1 DEF Pending, IInv, TypeOK
  <2> QED
    BY <2>1, <2>2 DEF Still
<1>2. {"refused", "done", "abandoned", "fetching", "cloning", "starting", "running"} \subseteq Phases
  BY DEF Phases
<1>3. CASE Refuse(c, k)
  BY <1>1, <1>2, <1>3 DEF Refuse, counters
<1>4. CASE Refresh(c)
  BY <1>1, <1>2, <1>4 DEF Refresh, counters
<1>5. CASE FetchEnds(c)
  BY <1>1, <1>2, <1>5 DEF FetchEnds, counters
<1>6. CASE Clone(c)
  BY <1>1, <1>2, <1>6 DEF Clone, counters
<1>7. CASE StartAgent(c)
  BY <1>1, <1>2, <1>7 DEF StartAgent, counters
<1>8. CASE Cleanup(c)
  BY <1>1, <1>2, <1>8 DEF Cleanup, counters
<1>9. CASE DisconnectReserved(c)
  BY <1>1, <1>2, <1>9 DEF DisconnectReserved, counters
<1> QED
  BY <1>3, <1>4, <1>5, <1>6, <1>7, <1>8, <1>9

(* A call that arrives is admitted, and one that was admitted joins.         *)
LEMMA EnteringSteps ==
  ASSUME IInv, NEW c \in Calls, NEW k,
         SubmitJob(c, k) \/ CallDirect(c, k) \/ OpenStream(c, k) \/ EnterLater(c)
  PROVE  Admission!Next
<1>1. ASSUME NEW p \in {"reserved", "abandoned"}, pc[c] = "idle", ~QueueFull,
             pc' = [pc EXCEPT ![c] = p], UNCHANGED <<permits, waiters>>
      PROVE  Admission!Next
  <2>1. /\ p \in Phases /\ p # "granted"
        /\ pc[c] \notin SlotPhases /\ p \notin SlotPhases
    BY <1>1 DEF Phases, QueuePhases, SlotPhases, SetupPhases
  <2>2. Pending' = Pending \cup {c} /\ Line' = Line /\ Running' = Running
    BY <1>1, <2>1, Moves
  <2> QED
    BY <1>1, <2>2, Room, Mapped DEF Admitting
<1>2. CASE SubmitJob(c, k)
  BY <1>1, <1>2 DEF SubmitJob
<1>3. CASE OpenStream(c, k)
  BY <1>1, <1>3 DEF OpenStream
<1>4. CASE CallDirect(c, k)
  <2>1. pc[c] = "idle" /\ ~QueueFull /\ EnterSlot(c, k, queued + 1)
    BY <1>4 DEF CallDirect
  <2>2. Pending' = Pending \ {c} /\ Serving(c) /\ c \notin Pending
    BY <2>1, Enters DEF Pending
  <2>3. Admitting(c)
    BY <2>2 DEF Admitting
  <2> QED
    BY <2>1, <2>3, Room, Mapped
<1>5. CASE EnterLater(c)
  <2>1. pc[c] = "reserved" /\ EnterSlot(c, kind[c], queued)
    BY <1>5 DEF EnterLater
  <2>2. Joining(c) /\ c \in Pending
    BY <2>1, Enters DEF Joining, Pending
  <2> QED
    BY <2>2, Mapped
<1> QED
  BY <1>2, <1>3, <1>4, <1>5

(* A call that leaves its slot, however its run went.                        *)
LEMMA LeavingSteps ==
  ASSUME IInv, NEW c \in Calls,
         \/ FetchTimesOut(c) \/ SetupFails(c) \/ StartFails(c) \/ AgentExits(c)
         \/ CutOff(c) \/ DisconnectActive(c)
  PROVE  Ending(c)
<1>1. pc[c] \in SlotPhases /\ \E p \in {"ending", "done"} : LeaveSlot(c, p)
  BY DEF FetchTimesOut, SetupFails, StartFails, AgentExits, CutOff, DisconnectActive,
     AbandonSetup, Conclude, SlotPhases, SetupPhases
<1>2. PICK p \in {"ending", "done"} : LeaveSlot(c, p)
  BY <1>1
<1> DEFINE k == IF waiters = <<>> THEN 0 ELSE 1
<1>3. /\ p \in Phases \ {"granted"} /\ p \notin SlotPhases /\ p \notin {"reserved", "abandoned"}
      /\ c \in Holding /\ pc[c] # "waiting"
  BY <1>1 DEF Phases, SlotPhases, SetupPhases, Holding
<1>4. permits \in Nat /\ permits + 1 \in Nat /\ k \in 0..Len(waiters) /\ k <= permits + 1
  BY LineFacts, EmptySeq DEF IInv, TypeOK
<1>5. Wake(c, p, permits + 1, waiters, k)
  BY <1>2 DEF LeaveSlot, HandOver
<1> HIDE DEF k
<1>6. WakeReady(c, p, permits + 1, waiters, k)
  BY <1>3, <1>4, LineFacts DEF WakeReady, IInv
<1> QED
  BY <1>3, <1>5, <1>6, PassOn

(* A cancelled acquire(). *)
LEMMA CancelSteps ==
  ASSUME IInv, NEW c \in Calls, DisconnectGranted(c) \/ DisconnectWaiting(c)
  PROVE  Ending(c) \/ Leaving(c)
<1>1. CASE DisconnectGranted(c)
  <2> DEFINE k == IF permits + 1 <= Len(waiters) THEN permits + 1 ELSE Len(waiters)
  <2>1. pc[c] = "granted" /\ WakeAll(c, "done", permits + 1, waiters)
    BY <1>1 DEF DisconnectGranted
  <2>2. /\ "done" \in Phases \ {"granted"} /\ "done" \notin SlotPhases
        /\ "done" \notin {"reserved", "abandoned"} /\ c \in Granted
    BY <2>1 DEF Phases, SlotPhases, SetupPhases, Granted
  <2>3. permits + 1 \in Nat /\ k \in 0..Len(waiters) /\ k <= permits + 1
    BY LineFacts DEF IInv, TypeOK
  <2>4. Wake(c, "done", permits + 1, waiters, k)
    BY <2>1 DEF WakeAll
  <2> HIDE DEF k
  <2>5. WakeReady(c, "done", permits + 1, waiters, k)
    BY <2>1, <2>2, <2>3, LineFacts DEF WakeReady, IInv
  <2> QED
    BY <2>2, <2>4, <2>5, PassOn
<1>2. CASE DisconnectWaiting(c)
  <2>1. PICK i \in DOMAIN waiters :
          waiters[i] = c /\ WakeAll(c, "done", permits, Without(waiters, i))
    BY <1>2 DEF DisconnectWaiting, Without
  <2> QED
    BY <2>1, Withdraws
<1> QED
  BY <1>1, <1>2

(* A pod that is replaced starts with nobody admitted. *)
LEMMA Resets == Restart => Admission!Next
<1> SUFFICES ASSUME Restart PROVE Admission!Next
  OBVIOUS
<1>1. \A c \in Calls : pc'[c] \notin QueuePhases \cup SlotPhases \cup {"abandoned"}
  BY DEF Restart, QueuePhases, SlotPhases, SetupPhases
<1>2. Holding' = {} /\ Granted' = {} /\ Pending' = {}
  BY <1>1 DEF Holding, Granted, Pending, QueuePhases
<1>3. Entitled' = 0 /\ Line' = <<>>
  BY EmptyLine, RunnerAssumption DEF Restart, Entitled, Line
<1>4. Served' = {}
  BY <1>3 DEF Served
<1>5. Admission!Reset
  BY <1>2, <1>3, <1>4 DEF Admission!Reset, Pending, Line, Running, Served
<1> QED
  BY <1>5 DEF Admission!Next

(* Before any call arrives nobody is admitted. *)
LEMMA InitMapped == Init => Admission!Init
<1> SUFFICES ASSUME Init PROVE Admission!Init
  OBVIOUS
<1>1. Holding = {} /\ Granted = {} /\ Pending = {}
  BY DEF Init, Holding, Granted, Pending, SlotPhases, SetupPhases
<1>2. Entitled = 0 /\ Line = <<>>
  BY EmptyLine, RunnerAssumption DEF Init, Entitled, Line
<1>3. Served = {}
  BY <1>2 DEF Served
<1> QED
  BY <1>1, <1>2, <1>3 DEF Admission!Init, Pending, Line, Running, Served

(* Every step of the runner is a step of admission control or a stutter. *)
LEMMA NextMapped == IInv /\ [Next]_vars => [Admission!Next]_(Admission!vars)
<1> SUFFICES ASSUME IInv, [Next]_vars PROVE Admission!Next \/ UNCHANGED Admission!vars
  OBVIOUS
<1>still. Still => UNCHANGED Admission!vars
  BY DEF Still, Admission!vars, Pending, Line, Running, Served
<1>1. ASSUME NEW c \in Calls, Advance(c) PROVE Admission!Next \/ UNCHANGED Admission!vars
  <2>1. CASE EnterLater(c)
    BY <2>1, EnteringSteps
  <2>2. CASE Resume(c)
    <3>1. FirstPhase(kind[c]) \in {"locking", "starting"}
      BY DEF FirstPhase
    <3>2. pc[c] = "granted" /\ WakeAll(c, FirstPhase(kind[c]), permits, waiters)
      BY <2>2 DEF Resume
    <3> QED
      BY <1>still, <3>1, <3>2, Resumes
  <2>3. CASE Refresh(c) \/ FetchEnds(c) \/ Clone(c) \/ StartAgent(c) \/ Cleanup(c)
    BY <1>still, <2>3, QuietSteps
  <2>4. CASE FetchTimesOut(c) \/ SetupFails(c) \/ StartFails(c) \/ AgentExits(c) \/ CutOff(c)
    BY <2>4, LeavingSteps, Mapped
  <2> QED
    BY <1>1, <2>1, <2>2, <2>3, <2>4 DEF Advance
<1>2. ASSUME NEW c \in Calls, NEW k \in Kinds,
             Refuse(c, k) \/ SubmitJob(c, k) \/ CallDirect(c, k) \/ OpenStream(c, k)
      PROVE  Admission!Next \/ UNCHANGED Admission!vars
  BY <1>still, <1>2, QuietSteps, EnteringSteps
<1>3. ASSUME NEW c \in Calls,
             \/ DisconnectReserved(c) \/ DisconnectWaiting(c)
             \/ DisconnectGranted(c) \/ DisconnectActive(c)
      PROVE  Admission!Next \/ UNCHANGED Admission!vars
  <2>1. CASE DisconnectReserved(c)
    BY <1>still, <2>1, QuietSteps
  <2>2. CASE DisconnectWaiting(c) \/ DisconnectGranted(c)
    BY <2>2, CancelSteps, Mapped
  <2>3. CASE DisconnectActive(c)
    BY <2>3, LeavingSteps, Mapped
  <2> QED
    BY <1>3, <2>1, <2>2, <2>3
<1>4. ASSUME \/ FetchAges \/ UNCHANGED vars
             \/ \E c \in Calls : OrphanExits(c) \/ RecordAges(c)
      PROVE  Admission!Next \/ UNCHANGED Admission!vars
  <2>1. UNCHANGED <<pc, permits, waiters>>
    BY <1>4 DEF FetchAges, vars, OrphanExits, RecordAges, counters
  <2> QED
    BY <1>still, <2>1, NothingMoves
<1> QED
  BY <1>1, <1>2, <1>3, <1>4, Resets DEF Next, Environment

(***************************************************************************)
(* The job runner implements the admission control callers are promised,   *)
(* for any calls and any capacities: the semaphore with its wake-ups, the  *)
(* two counters, the cancellations of acquire() and the restarts of the    *)
(* pod are together one queue in arrival order in front of MaxConcurrency  *)
(* places (main.py:171-205).                                                *)
(***************************************************************************)
THEOREM RunnerImplementsAdmission == Spec => AdmissionSpec
<1>1. Init => Admission!Init
  BY InitMapped
<1>2. IInv /\ [Next]_vars => [Admission!Next]_(Admission!vars)
  BY NextMapped
<1> QED
  BY <1>1, <1>2, RunnerInvariant, PTL DEF Spec, AdmissionSpec, Admission!Spec
=============================================================================
