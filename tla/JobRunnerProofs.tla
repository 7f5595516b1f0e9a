-------------------------- MODULE JobRunnerProofs --------------------------
(***************************************************************************)
(* Safety of the job runner for every set of calls and every capacity.     *)
(* The first part proves the inductive invariant IInv, and from it the     *)
(* accounting of permits and queue slots, the admission bound, the absence *)
(* of lost wake-ups, and that no claude process outlives its permit.  The  *)
(* second part proves CallsOK, what the registry, the disk and the history *)
(* hold of one call by where it stands, and from it the properties of      *)
(* checkouts and of /execute records.  The third part shows that the       *)
(* registry and the agents implement JobService.                           *)
(***************************************************************************)
EXTENDS JobRunner, FiniteSetTheorems, FunctionTheorems, SequenceTheorems, TLAPS

(* Any set of calls is finite, and so has a cardinality. *)
LEMMA CallSetsFinite ==
  ASSUME NEW S \in SUBSET Calls
  PROVE  IsFiniteSet(S) /\ Cardinality(S) \in Nat
<1>1. IsFiniteSet(Calls)
  BY RunnerAssumption
<1>2. IsFiniteSet(S)
  BY <1>1, FS_Subset
<1> QED
  BY <1>2, FS_CardinalityType

(* The first k entries of a line of distinct calls are k calls. *)
LEMMA PrefixCardinality ==
  ASSUME NEW w \in Seq(Calls), NEW k \in 0..Len(w),
         \A i, j \in 1..Len(w) : w[i] = w[j] => i = j
  PROVE  Cardinality({w[i] : i \in 1..k}) = k
<1> DEFINE W == {w[i] : i \in 1..k}
           f == [i \in 1..k |-> w[i]]
<1>0. Len(w) \in Nat /\ k \in Nat /\ \A i \in 1..k : i \in 1..Len(w)
  BY LenProperties
<1>1. f \in [1..k -> W]
  OBVIOUS
<1>2. \A i, j \in 1..k : f[i] = f[j] => i = j
  BY <1>0
<1>3. \A x \in W : \E i \in 1..k : f[i] = x
  OBVIOUS
<1>4. f \in Bijection(1..k, W)
  BY <1>1, <1>2, <1>3, Fun_IsBij
<1>5. ExistsBijection(1..k, W)
  BY <1>4 DEF ExistsBijection
<1> HIDE DEF W
<1>6. Cardinality(W) = k
  BY <1>0, <1>5, FS_CountingElements
<1> QED
  BY <1>6 DEF W

(* A set of calls changes its cardinality by the one call put in or taken.  *)
LEMMA AddCall ==
  ASSUME NEW S \in SUBSET Calls, NEW c \in Calls \ S
  PROVE  Cardinality(S \cup {c}) = Cardinality(S) + 1
BY CallSetsFinite, FS_AddElement

LEMMA RemoveCall ==
  ASSUME NEW S \in SUBSET Calls, NEW c \in S
  PROVE  /\ Cardinality(S \ {c}) = Cardinality(S) - 1
         /\ Cardinality(S) >= 1
<1>1. Cardinality(S \ {c}) = Cardinality(S) - 1
  BY CallSetsFinite, FS_RemoveElement
<1>2. S \ {c} \in SUBSET Calls
  OBVIOUS
<1>3. Cardinality(S \ {c}) \in Nat /\ Cardinality(S) \in Nat
  BY <1>2, CallSetsFinite
<1> QED
  BY <1>1, <1>3

(* Disjoint sets of calls add up. *)
LEMMA AddCalls ==
  ASSUME NEW S \in SUBSET Calls, NEW T \in SUBSET Calls, S \cap T = {}
  PROVE  Cardinality(S \cup T) = Cardinality(S) + Cardinality(T)
<1>1. IsFiniteSet(S) /\ IsFiniteSet(T) /\ Cardinality(S) \in Nat /\ Cardinality(T) \in Nat
  BY CallSetsFinite
<1>2. Cardinality(S \cup T) = Cardinality(S) + Cardinality(T) - Cardinality(S \cap T)
  BY <1>1, FS_Union
<1>3. Cardinality(S \cap T) = 0
  BY FS_EmptySet
<1> QED
  BY <1>1, <1>2, <1>3

-----------------------------------------------------------------------------
(* Only call c moves; others at most go from waiting to granted. *)
OnlyMoves(c) ==
  \A d \in Calls \ {c} : pc'[d] = pc[d] \/ (pc[d] = "waiting" /\ pc'[d] = "granted")

(* A line from which the first k may be woken when c goes on to phase p. *)
WakeReady(c, p, v, w, k) ==
  /\ TypeOK /\ c \in Calls /\ p \in Phases \ {"granted"}
  /\ v \in Nat /\ w \in Seq(Calls) /\ k \in 0..Len(w) /\ k <= v
  /\ \A i \in 1..Len(w) : pc[w[i]] = "waiting" /\ w[i] # c
  /\ \A i, j \in 1..Len(w) : w[i] = w[j] => i = j

(* What a wake-up leaves behind. *)
WakeLeaves(c, p, v, w, k) ==
  /\ permits' \in Nat /\ permits' = v - k
  /\ waiters' \in Seq(Calls) /\ Len(waiters') = Len(w) - k
  /\ pc' \in [Calls -> Phases] /\ pc'[c] = p /\ OnlyMoves(c)
  /\ LineInv'
  /\ Cardinality(Granted') = Cardinality(Granted \ {c}) + k

(* What Wake does: the caller moves to phase p, the first k of the line are *)
(* granted, the rest of the line still waits.                               *)
LEMMA WakeEffect ==
  ASSUME NEW c, NEW p, NEW v, NEW w, NEW k,
         WakeReady(c, p, v, w, k), Wake(c, p, v, w, k)
  PROVE  WakeLeaves(c, p, v, w, k)
<1> USE DEF WakeReady
<1> DEFINE W == {w[i] : i \in 1..k}
<1>0. Len(w) \in Nat /\ k \in Nat /\ \A i \in 1..k : i \in 1..Len(w)
  BY LenProperties
<1>distinct. \A i, j \in 1..Len(w) : w[i] = w[j] => i = j
  OBVIOUS
<1>1. permits' \in Nat /\ permits' = v - k
  BY <1>0 DEF Wake
<1>2. /\ waiters' \in Seq(Calls)
      /\ Len(waiters') = Len(w) - k
      /\ \A i \in 1..Len(waiters') : waiters'[i] = w[k + i]
  <2>1. \A i \in (k + 1)..Len(w) : w[i] \in Calls
    BY <1>0, ElementOfSeq
  <2>2. /\ SubSeq(w, k + 1, Len(w)) \in Seq(Calls)
        /\ Len(SubSeq(w, k + 1, Len(w)))
             = IF k + 1 <= Len(w) THEN Len(w) - (k + 1) + 1 ELSE 0
        /\ \A i \in 1..Len(w) - (k + 1) + 1 :
             SubSeq(w, k + 1, Len(w))[i] = w[(k + 1) + i - 1]
    BY <1>0, <2>1, SubSeqProperties 
  <2> QED
    BY <1>0, <2>2 DEF Wake
<1>3. pc' \in [Calls -> Phases] /\ pc'[c] = p
  BY DEF Wake, TypeOK, Phases, QueuePhases
<1>4. \A d \in Calls \ {c} : pc'[d] = IF d \in W THEN "granted" ELSE pc[d]
  BY DEF Wake
<1>5. \A d \in W : d \in Calls /\ pc[d] = "waiting" /\ d # c
  BY <1>0, ElementOfSeq
<1>6. OnlyMoves(c)
  BY <1>4, <1>5 DEF OnlyMoves
<1>7. LineInv'
  <2>1. \A i \in 1..Len(waiters') :
          k + i \in 1..Len(w) /\ waiters'[i] = w[k + i] /\ w[k + i] \in Calls
    BY <1>0, <1>2, ElementOfSeq
  <2>2. \A i \in 1..Len(waiters') : w[k + i] \notin W
    <3> TAKE i \in 1..Len(waiters')
    <3> SUFFICES ASSUME NEW j \in 1..k PROVE w[k + i] # w[j]
      OBVIOUS
    <3>1. k + i # j /\ k + i \in 1..Len(w) /\ j \in 1..Len(w)
      BY <1>0, <1>2, <2>1
    <3> QED
      BY <1>distinct, <3>1
  <2>3. \A i \in 1..Len(waiters') : pc'[waiters'[i]] = "waiting"
    <3> TAKE i \in 1..Len(waiters')
    <3>1. /\ waiters'[i] = w[k + i] /\ w[k + i] \in Calls \ {c}
          /\ w[k + i] \notin W /\ pc[w[k + i]] = "waiting"
      BY <2>1, <2>2
    <3> HIDE DEF W
    <3> QED
      BY <1>4, <3>1
  <2>4. \A i, j \in 1..Len(waiters') : waiters'[i] = waiters'[j] => i = j
    <3> TAKE i, j \in 1..Len(waiters')
    <3> HAVE waiters'[i] = waiters'[j]
    <3>1. k + i \in 1..Len(w) /\ k + j \in 1..Len(w) /\ w[k + i] = w[k + j]
      BY <2>1
    <3>2. k + i = k + j /\ k \in Int /\ i \in Int /\ j \in Int
      BY <1>0, <1>2, <3>1
    <3> QED
      BY <3>2
  <2>5. DOMAIN waiters' = 1..Len(waiters')
    BY <1>2, LenProperties
  <2> QED
    BY <2>3, <2>4, <2>5 DEF LineInv
<1>8. Cardinality(Granted') = Cardinality(Granted \ {c}) + k
  <2>1. Granted' = (Granted \ {c}) \cup W
    BY <1>3, <1>4, <1>5 DEF Granted
  <2>2. (Granted \ {c}) \cap W = {}
    BY <1>5 DEF Granted
  <2>3. Cardinality(W) = k
    BY PrefixCardinality
  <2>4. Granted \ {c} \in SUBSET Calls /\ W \in SUBSET Calls
    BY <1>5 DEF Granted
  <2> QED
    BY <2>1, <2>2, <2>3, <2>4, AddCalls
<1> QED
  BY <1>1, <1>2, <1>3, <1>6, <1>7, <1>8 DEF WakeLeaves

(* How the number of permit holders follows the phase of the moving call.   *)
LEMMA HoldingCount ==
  ASSUME NEW c \in Calls, OnlyMoves(c)
  PROVE  /\ pc[c] \in SlotPhases /\ pc'[c] \notin SlotPhases
              => /\ Cardinality(Holding') = Cardinality(Holding) - 1
                 /\ Cardinality(Holding) >= 1
         /\ pc[c] \notin SlotPhases /\ pc'[c] \in SlotPhases
              => Cardinality(Holding') = Cardinality(Holding) + 1
         /\ (pc[c] \in SlotPhases <=> pc'[c] \in SlotPhases)
              => Cardinality(Holding') = Cardinality(Holding)
<1>0. "waiting" \notin SlotPhases /\ "granted" \notin SlotPhases
  BY DEF SlotPhases, SetupPhases
<1>1. Holding' = IF pc'[c] \in SlotPhases THEN Holding \cup {c} ELSE Holding \ {c}
  BY <1>0 DEF OnlyMoves, Holding
<1>2. Holding \in SUBSET Calls /\ (c \in Holding <=> pc[c] \in SlotPhases)
  BY DEF Holding
<1>3. CASE pc[c] \in SlotPhases /\ pc'[c] \notin SlotPhases
  BY <1>1, <1>2, <1>3, RemoveCall
<1>4. CASE pc[c] \notin SlotPhases /\ pc'[c] \in SlotPhases
  BY <1>1, <1>2, <1>4, AddCall
<1>5. CASE pc[c] \in SlotPhases <=> pc'[c] \in SlotPhases
  <2>1. Holding' = Holding
    BY <1>1, <1>2, <1>5
  <2> QED
    BY <2>1, <1>5
<1> QED
  BY <1>3, <1>4, <1>5

(* The same for the calls counted as queued. *)
CountedPhases == QueuePhases \cup {"abandoned"}

LEMMA ReservedCount ==
  ASSUME NEW c \in Calls, OnlyMoves(c)
  PROVE  /\ pc[c] \in CountedPhases /\ pc'[c] \notin CountedPhases
              => /\ Cardinality(Reserved') = Cardinality(Reserved) - 1
                 /\ Cardinality(Reserved) >= 1
         /\ pc[c] \notin CountedPhases /\ pc'[c] \in CountedPhases
              => Cardinality(Reserved') = Cardinality(Reserved) + 1
         /\ (pc[c] \in CountedPhases <=> pc'[c] \in CountedPhases)
              => Cardinality(Reserved') = Cardinality(Reserved)
<1>0. "waiting" \in CountedPhases /\ "granted" \in CountedPhases
  BY DEF CountedPhases, QueuePhases
<1>1. Reserved' = IF pc'[c] \in CountedPhases THEN Reserved \cup {c} ELSE Reserved \ {c}
  BY <1>0 DEF OnlyMoves, Reserved, CountedPhases
<1>2. Reserved \in SUBSET Calls /\ (c \in Reserved <=> pc[c] \in CountedPhases)
  BY DEF Reserved, CountedPhases
<1>3. CASE pc[c] \in CountedPhases /\ pc'[c] \notin CountedPhases
  BY <1>1, <1>2, <1>3, RemoveCall
<1>4. CASE pc[c] \notin CountedPhases /\ pc'[c] \in CountedPhases
  BY <1>1, <1>2, <1>4, AddCall
<1>5. CASE pc[c] \in CountedPhases <=> pc'[c] \in CountedPhases
  <2>1. Reserved' = Reserved
    BY <1>1, <1>2, <1>5
  <2> QED
    BY <2>1, <1>5
<1> QED
  BY <1>3, <1>4, <1>5

(* The part of IInv that the semaphore and the counters own. *)
SlotInv ==
  /\ pc \in [Calls -> Phases] /\ waiters \in Seq(Calls)
  /\ permits \in Nat /\ active \in Nat /\ queued \in Nat
  /\ LineInv /\ CountersAgree /\ AdmissionBounded /\ NoLostWakeup

(* A call moves between two phases of the same standing: no counter moves. *)
LEMMA MoveKeepsSlots ==
  ASSUME IInv, NEW c \in Calls, NEW p \in Phases,
         pc' = [pc EXCEPT ![c] = p], UNCHANGED counters,
         pc[c] \notin {"waiting", "granted"}, p \notin {"waiting", "granted"},
         pc[c] \in SlotPhases <=> p \in SlotPhases,
         pc[c] \in CountedPhases <=> p \in CountedPhases
  PROVE  SlotInv' /\ pc'[c] = p /\ OnlyMoves(c)
<1>1. pc' \in [Calls -> Phases] /\ pc'[c] = p /\ OnlyMoves(c)
  BY DEF IInv, TypeOK, OnlyMoves
<1>2. Cardinality(Holding') = Cardinality(Holding) /\ Cardinality(Reserved') = Cardinality(Reserved)
  BY <1>1, HoldingCount, ReservedCount
<1>3. Granted' = Granted
  BY DEF Granted, IInv, TypeOK
<1>4. CountersAgree' /\ AdmissionBounded' /\ NoLostWakeup'
  BY <1>2, <1>3 DEF IInv, CountersAgree, AdmissionBounded, NoLostWakeup, counters
<1>5. LineInv'
  BY DEF IInv, LineInv, TypeOK, counters
<1> QED
  BY <1>1, <1>4, <1>5 DEF SlotInv, IInv, TypeOK, counters

(* A call is admitted and waits for its task or generator to start. *)
LEMMA ReserveKeepsSlots ==
  ASSUME IInv, NEW c \in Calls, NEW p \in {"reserved", "abandoned"},
         pc[c] = "idle", ~QueueFull, pc' = [pc EXCEPT ![c] = p],
         queued' = queued + 1, UNCHANGED <<permits, waiters, active>>
  PROVE  SlotInv' /\ pc'[c] = p /\ OnlyMoves(c)
<1>0. /\ p \in Phases /\ p \in CountedPhases /\ p \notin SlotPhases
      /\ "idle" \notin CountedPhases /\ "idle" \notin SlotPhases
  BY DEF Phases, CountedPhases, QueuePhases, SlotPhases, SetupPhases
<1>1. pc' \in [Calls -> Phases] /\ pc'[c] = p /\ OnlyMoves(c)
  BY <1>0 DEF IInv, TypeOK, OnlyMoves
<1>2. /\ Cardinality(Holding') = Cardinality(Holding)
      /\ Cardinality(Reserved') = Cardinality(Reserved) + 1
  BY <1>0, <1>1, HoldingCount, ReservedCount
<1>3. Granted' = Granted
  BY DEF Granted, IInv, TypeOK
<1>4. CountersAgree' /\ NoLostWakeup'
  BY <1>2, <1>3 DEF IInv, TypeOK, CountersAgree, NoLostWakeup
<1>5. AdmissionBounded'
  BY RunnerAssumption DEF IInv, TypeOK, AdmissionBounded, QueueFull
<1>6. LineInv'
  BY DEF IInv, LineInv, TypeOK
<1> QED
  BY <1>1, <1>4, <1>5, <1>6 DEF SlotInv, IInv, TypeOK

(* A call enters _execution_slot: with a permit, or at the end of the line. *)
LEMMA EnterKeepsSlots ==
  ASSUME IInv, NEW c \in Calls, NEW k, NEW n \in Nat,
         \/ pc[c] = "idle" /\ ~QueueFull /\ n = queued + 1
         \/ pc[c] = "reserved" /\ n = queued,
         EnterSlot(c, k, n)
  PROVE  SlotInv' /\ pc'[c] \in {"locking", "starting", "waiting"} /\ OnlyMoves(c)
<1>0. /\ {"locking", "starting", "waiting"} \subseteq Phases
      /\ FirstPhase(k) \in {"locking", "starting"}
      /\ {"locking", "starting"} \subseteq SlotPhases /\ "waiting" \notin SlotPhases
      /\ "waiting" \in CountedPhases /\ "reserved" \in CountedPhases
      /\ "locking" \notin CountedPhases /\ "starting" \notin CountedPhases
      /\ "idle" \notin CountedPhases /\ "idle" \notin SlotPhases /\ "reserved" \notin SlotPhases
  BY DEF Phases, CountedPhases, QueuePhases, SlotPhases, SetupPhases, FirstPhase
<1>1. /\ n = Cardinality(Reserved) + (IF pc[c] = "idle" THEN 1 ELSE 0)
      /\ active + n <= MaxQueueDepth /\ active <= MaxConcurrency
      /\ permits + active + Cardinality(Granted) = MaxConcurrency
      /\ active = Cardinality(Holding)
  BY RunnerAssumption DEF IInv, TypeOK, CountersAgree, AdmissionBounded, QueueFull
<1>2. Granted' = Granted /\ Cardinality(Granted) \in Nat
  <2>1. pc' = [pc EXCEPT ![c] = pc'[c]] /\ pc'[c] # "granted" /\ pc[c] # "granted"
    BY <1>0 DEF EnterSlot, IInv, TypeOK
  <2>2. Granted \in SUBSET Calls
    BY DEF Granted
  <2>3. Granted' = Granted
    BY <2>1 DEF Granted, IInv, TypeOK
  <2> QED
    BY <2>2, <2>3, CallSetsFinite
<1>3. CASE SlotFree /\ pc' = [pc EXCEPT ![c] = FirstPhase(k)]
           /\ permits' = permits - 1 /\ queued' = n - 1 /\ active' = active + 1
           /\ UNCHANGED waiters
  <2>1. pc' \in [Calls -> Phases] /\ pc'[c] = FirstPhase(k) /\ OnlyMoves(c)
    BY <1>0, <1>3 DEF IInv, TypeOK, OnlyMoves
  <2>2. /\ Cardinality(Holding') = Cardinality(Holding) + 1
        /\ Cardinality(Reserved') =
             IF pc[c] = "idle" THEN Cardinality(Reserved) ELSE Cardinality(Reserved) - 1
        /\ pc[c] # "idle" => Cardinality(Reserved) >= 1
    BY <1>0, <2>1, HoldingCount, ReservedCount
  <2>3. permits \in Nat /\ permits > 0 /\ active \in Nat /\ Cardinality(Reserved) \in Nat
    BY <1>3 DEF SlotFree, IInv, TypeOK, CountersAgree
  <2>4. /\ permits' \in Nat /\ active' \in Nat /\ queued' \in Nat
        /\ queued' = Cardinality(Reserved') /\ active' = Cardinality(Holding')
    BY <1>1, <1>3, <2>2, <2>3
  <2>5. CountersAgree' /\ AdmissionBounded'
    BY <1>1, <1>2, <1>3, <2>3, <2>4, RunnerAssumption DEF CountersAgree, AdmissionBounded
  <2>6. LineInv' /\ NoLostWakeup' /\ waiters' \in Seq(Calls)
    BY <1>3 DEF SlotFree, LineInv, NoLostWakeup, IInv, TypeOK
  <2> QED
    BY <1>0, <2>1, <2>4, <2>5, <2>6 DEF SlotInv
<1>4. CASE ~SlotFree /\ waiters' = Append(waiters, c) /\ pc' = [pc EXCEPT ![c] = "waiting"]
           /\ queued' = n /\ UNCHANGED <<permits, active>>
  <2>1. pc' \in [Calls -> Phases] /\ pc'[c] = "waiting" /\ OnlyMoves(c)
    BY <1>0, <1>4 DEF IInv, TypeOK, OnlyMoves
  <2>2. /\ Cardinality(Holding') = Cardinality(Holding)
        /\ Cardinality(Reserved') = n
    <3>1. Cardinality(Reserved) \in Nat
      BY DEF IInv, TypeOK, CountersAgree
    <3> QED
      BY <1>0, <1>1, <2>1, <3>1, HoldingCount, ReservedCount
  <2>3. CountersAgree' /\ AdmissionBounded'
    BY <1>1, <1>2, <1>4, <2>2 DEF CountersAgree, AdmissionBounded
  <2>4. /\ waiters' \in Seq(Calls) /\ Len(waiters) \in Nat
        /\ DOMAIN waiters = 1..Len(waiters) /\ DOMAIN waiters' = 1..(Len(waiters) + 1)
        /\ \A i \in 1..Len(waiters) : waiters'[i] = waiters[i] /\ waiters[i] \in Calls
        /\ waiters'[Len(waiters) + 1] = c
    BY <1>4, AppendProperties, LenProperties, ElementOfSeq DEF IInv, TypeOK
  <2>5. \A i \in 1..Len(waiters) : pc[waiters[i]] = "waiting" /\ waiters[i] # c
    BY <2>4 DEF IInv, LineInv
  <2>6. LineInv'
    BY <1>4, <2>4, <2>5 DEF IInv, TypeOK, LineInv
  <2>7. NoLostWakeup'
    BY <1>2, <1>4 DEF SlotFree, NoLostWakeup, IInv, TypeOK
  <2> QED
    BY <1>4, <2>1, <2>3, <2>4, <2>6, <2>7 DEF SlotInv, IInv, TypeOK
<1> QED
  BY <1>3, <1>4 DEF EnterSlot

(* The facts WakeEffect needs about the line itself. *)
LEMMA LineFacts ==
  ASSUME IInv
  PROVE  /\ waiters \in Seq(Calls) /\ Len(waiters) \in Nat
         /\ DOMAIN waiters = 1..Len(waiters)
         /\ \A i \in 1..Len(waiters) : waiters[i] \in Calls /\ pc[waiters[i]] = "waiting"
         /\ \A i, j \in 1..Len(waiters) : waiters[i] = waiters[j] => i = j
BY LenProperties, ElementOfSeq DEF IInv, TypeOK, LineInv

(* A permit holder leaves _execution_slot: release() wakes one waiter. *)
LEMMA LeaveKeepsSlots ==
  ASSUME IInv, NEW c \in Calls, NEW p \in {"ending", "done"},
         pc[c] \in SlotPhases, LeaveSlot(c, p)
  PROVE  SlotInv' /\ pc'[c] = p /\ OnlyMoves(c)
<1> DEFINE k == IF waiters = <<>> THEN 0 ELSE 1
<1>0. /\ p \in Phases /\ p \notin SlotPhases /\ p \notin CountedPhases /\ p # "granted"
      /\ pc[c] \notin CountedPhases /\ pc[c] # "waiting" /\ c \notin Granted
  BY DEF Phases, CountedPhases, QueuePhases, SlotPhases, SetupPhases, Granted
<1>1. permits \in Nat /\ active \in Nat /\ queued \in Nat
  BY DEF IInv, TypeOK
<1>2. k \in 0..Len(waiters) /\ k \in {0, 1} /\ k <= permits + 1
  BY <1>1, LineFacts, EmptySeq
<1>3. Wake(c, p, permits + 1, waiters, k)
  BY DEF LeaveSlot, HandOver
<1>4. \A i \in 1..Len(waiters) : pc[waiters[i]] = "waiting" /\ waiters[i] # c
  BY <1>0, LineFacts
<1> HIDE DEF k
<1>5. /\ permits' \in Nat /\ permits' = (permits + 1) - k
      /\ waiters' \in Seq(Calls) /\ Len(waiters') = Len(waiters) - k
      /\ pc' \in [Calls -> Phases] /\ LineInv' /\ pc'[c] = p /\ OnlyMoves(c)
      /\ Cardinality(Granted') = Cardinality(Granted \ {c}) + k
  <2>1. TypeOK /\ permits + 1 \in Nat /\ p \in Phases
    BY <1>0, <1>1 DEF IInv
  <2>2. /\ waiters \in Seq(Calls)
        /\ \A i, j \in 1..Len(waiters) : waiters[i] = waiters[j] => i = j
    BY LineFacts
  <2> QED
    <3>1. WakeReady(c, p, permits + 1, waiters, k)
      BY <1>0, <1>2, <1>4, <2>1, <2>2 DEF WakeReady
    <3>2. WakeLeaves(c, p, permits + 1, waiters, k)
      BY <1>3, <3>1, WakeEffect
    <3> QED
      BY <3>2 DEF WakeLeaves
<1>6. /\ Cardinality(Holding') = Cardinality(Holding) - 1 /\ Cardinality(Holding) >= 1
      /\ Cardinality(Reserved') = Cardinality(Reserved)
  BY <1>0, <1>5, HoldingCount, ReservedCount
<1>7. active' = active - 1 /\ queued' = queued
  BY DEF LeaveSlot
<1>8. /\ active = Cardinality(Holding) /\ queued = Cardinality(Reserved)
      /\ permits + active + Cardinality(Granted) = MaxConcurrency
      /\ active <= MaxConcurrency /\ active + queued <= MaxQueueDepth
  BY DEF IInv, CountersAgree, AdmissionBounded
<1>9. Cardinality(Granted') = Cardinality(Granted) + k /\ Cardinality(Granted) \in Nat
  <2>1. Granted \in SUBSET Calls /\ Granted \ {c} = Granted
    BY <1>0 DEF Granted
  <2> QED
    BY <1>5, <2>1, CallSetsFinite
<1>10. MaxConcurrency \in Nat /\ MaxQueueDepth \in Nat
  BY RunnerAssumption
<1>11. CountersAgree' /\ AdmissionBounded' /\ active' \in Nat
  <2>1. active' = Cardinality(Holding') /\ queued' = Cardinality(Reserved') /\ active' \in Nat
    BY <1>1, <1>6, <1>7, <1>8
  <2>2. permits' + active' + Cardinality(Granted') = MaxConcurrency
    BY <1>1, <1>2, <1>5, <1>7, <1>8, <1>9
  <2>3. AdmissionBounded'
    BY <1>1, <1>7, <1>8, <1>10 DEF AdmissionBounded
  <2> QED
    BY <2>1, <2>2, <2>3 DEF CountersAgree
<1>12. NoLostWakeup'
  <2>1. CASE waiters = <<>>
    <3>1. Len(waiters') = 0
      BY <1>5, <2>1, EmptySeq DEF k
    <3> QED
      BY <1>5, <3>1, EmptySeq DEF NoLostWakeup
  <2>2. CASE waiters # <<>>
    <3>1. Cardinality(Granted') # 0
      BY <1>9, <2>2 DEF k
    <3>2. Granted' # {}
      BY <3>1, FS_EmptySet
    <3> QED
      BY <3>2 DEF NoLostWakeup
  <2> QED
    BY <2>1, <2>2
<1> QED
  BY <1>1, <1>5, <1>7, <1>11, <1>12 DEF SlotInv

(* What the end of an acquire() does, with v permits to give and line w. *)
LEMMA WakeAllEffect ==
  ASSUME NEW c, NEW p, NEW v, NEW w,
         WakeReady(c, p, v, w, 0), WakeAll(c, p, v, w)
  PROVE  /\ permits' \in Nat /\ waiters' \in Seq(Calls)
         /\ pc' \in [Calls -> Phases] /\ pc'[c] = p /\ OnlyMoves(c)
         /\ LineInv' /\ NoLostWakeup'
         /\ permits' + Cardinality(Granted') = v + Cardinality(Granted \ {c})
<1> DEFINE k == IF v <= Len(w) THEN v ELSE Len(w)
<1>1. v \in Nat /\ Len(w) \in Nat
  BY LenProperties DEF WakeReady
<1>2. k \in 0..Len(w) /\ k <= v
  BY <1>1
<1>3. WakeReady(c, p, v, w, k)
  BY <1>2 DEF WakeReady
<1>4. Wake(c, p, v, w, k)
  BY DEF WakeAll
<1>5. WakeLeaves(c, p, v, w, k)
  <2> HIDE DEF k
  <2> QED
    BY <1>3, <1>4, WakeEffect
<1>6. NoLostWakeup'
  <2>1. permits' = v - k /\ Len(waiters') = Len(w) - k /\ waiters' \in Seq(Calls)
    BY <1>5 DEF WakeLeaves
  <2>2. permits' = 0 \/ Len(waiters') = 0
    BY <1>1, <2>1
  <2>3. permits' = 0 \/ waiters' = <<>>
    BY <2>1, <2>2, EmptySeq
  <2> QED
    BY <2>3 DEF NoLostWakeup
<1>7. permits' + Cardinality(Granted') = v + Cardinality(Granted \ {c})
  <2>1. Cardinality(Granted \ {c}) \in Nat
    <3>1. Granted \ {c} \in SUBSET Calls
      BY DEF Granted
    <3> QED
      BY <3>1, CallSetsFinite
  <2>2. permits' = v - k /\ Cardinality(Granted') = Cardinality(Granted \ {c}) + k
    BY <1>5 DEF WakeLeaves
  <2> QED
    BY <1>1, <1>2, <2>1, <2>2
<1> QED
  BY <1>5, <1>6, <1>7 DEF WakeLeaves

(* A woken waiter resumes with its permit. *)
LEMMA ResumeKeepsSlots ==
  ASSUME IInv, NEW c \in Calls, NEW p \in {"locking", "starting"},
         pc[c] = "granted", WakeAll(c, p, permits, waiters),
         queued' = queued - 1, active' = active + 1
  PROVE  SlotInv' /\ pc'[c] = p /\ OnlyMoves(c)
<1>0. /\ p \in Phases \ {"granted"} /\ p \in SlotPhases /\ p \notin CountedPhases
      /\ "granted" \in CountedPhases /\ "granted" \notin SlotPhases
  BY DEF Phases, CountedPhases, QueuePhases, SlotPhases, SetupPhases
<1>1. permits \in Nat /\ active \in Nat /\ queued \in Nat /\ TypeOK
  BY DEF IInv, TypeOK
<1>2. WakeReady(c, p, permits, waiters, 0)
  BY <1>0, <1>1, LineFacts DEF WakeReady
<1>3. /\ permits' \in Nat /\ waiters' \in Seq(Calls)
      /\ pc' \in [Calls -> Phases] /\ pc'[c] = p /\ OnlyMoves(c)
      /\ LineInv' /\ NoLostWakeup'
      /\ permits' + Cardinality(Granted') = permits + Cardinality(Granted \ {c})
  BY <1>2, WakeAllEffect
<1>4. /\ Cardinality(Holding') = Cardinality(Holding) + 1
      /\ Cardinality(Reserved') = Cardinality(Reserved) - 1 /\ Cardinality(Reserved) >= 1
  BY <1>0, <1>3, HoldingCount, ReservedCount
<1>5. Cardinality(Granted \ {c}) = Cardinality(Granted) - 1 /\ Cardinality(Granted) \in Nat
  <2>1. Granted \in SUBSET Calls /\ c \in Granted
    BY DEF Granted
  <2> QED
    BY <2>1, RemoveCall, CallSetsFinite
<1>6. /\ active = Cardinality(Holding) /\ queued = Cardinality(Reserved)
      /\ permits + active + Cardinality(Granted) = MaxConcurrency
      /\ active + queued <= MaxQueueDepth
  BY DEF IInv, CountersAgree, AdmissionBounded
<1>7. Cardinality(Granted') \in Nat
  <2>1. Granted' \in SUBSET Calls
    BY DEF Granted
  <2> QED
    BY <2>1, CallSetsFinite
<1>8. CountersAgree' /\ AdmissionBounded' /\ active' \in Nat /\ queued' \in Nat
  <2>1. /\ active' = Cardinality(Holding') /\ queued' = Cardinality(Reserved')
        /\ active' \in Nat /\ queued' \in Nat
    BY <1>1, <1>4, <1>6
  <2>2. permits' + active' + Cardinality(Granted') = MaxConcurrency
    <3>1. /\ permits' + Cardinality(Granted') = permits + (Cardinality(Granted) - 1)
          /\ permits' \in Nat /\ active' = active + 1
      BY <1>3, <1>5
    <3>2. permits \in Nat /\ active \in Nat
          /\ Cardinality(Granted) \in Nat /\ Cardinality(Granted') \in Nat
      BY <1>1, <1>5, <1>7
    <3>3. permits + active + Cardinality(Granted) = MaxConcurrency
      BY <1>6
    <3> QED
      BY <3>1, <3>2, <3>3
  <2>3. MaxConcurrency \in Nat /\ MaxQueueDepth \in Nat
    BY RunnerAssumption
  <2>4. active' <= MaxConcurrency
    BY <1>3, <1>7, <2>1, <2>2, <2>3
  <2>5. active' + queued' <= MaxQueueDepth
    BY <1>1, <1>6, <2>3
  <2> QED
    BY <2>1, <2>2, <2>4, <2>5 DEF CountersAgree, AdmissionBounded
<1> QED
  BY <1>3, <1>8 DEF SlotInv

(* An acquire() is cancelled: the caller's permit, if it was woken with one, *)
(* goes to the line; if it was not, it only leaves the line.                 *)
LEMMA WithdrawKeepsSlots ==
  ASSUME IInv, NEW c \in Calls, NEW v, NEW w,
         \/ pc[c] = "granted" /\ v = permits + 1
         \/ pc[c] = "waiting" /\ v = permits,
         WakeReady(c, "done", v, w, 0), WakeAll(c, "done", v, w),
         queued' = queued - 1, active' = active
  PROVE  SlotInv' /\ pc'[c] = "done" /\ OnlyMoves(c)
<1>0. /\ "done" \notin SlotPhases /\ "done" \notin CountedPhases
      /\ "granted" \in CountedPhases /\ "granted" \notin SlotPhases
      /\ "waiting" \in CountedPhases /\ "waiting" \notin SlotPhases
  BY DEF CountedPhases, QueuePhases, SlotPhases, SetupPhases
<1>1. permits \in Nat /\ active \in Nat /\ queued \in Nat
  BY DEF IInv, TypeOK
<1>3. /\ permits' \in Nat /\ waiters' \in Seq(Calls)
      /\ pc' \in [Calls -> Phases] /\ pc'[c] = "done" /\ OnlyMoves(c)
      /\ LineInv' /\ NoLostWakeup'
      /\ permits' + Cardinality(Granted') = v + Cardinality(Granted \ {c})
  BY WakeAllEffect
<1>4. /\ Cardinality(Holding') = Cardinality(Holding)
      /\ Cardinality(Reserved') = Cardinality(Reserved) - 1 /\ Cardinality(Reserved) >= 1
  BY <1>0, <1>3, HoldingCount, ReservedCount
<1>5. v + Cardinality(Granted \ {c}) = permits + Cardinality(Granted) /\ Cardinality(Granted) \in Nat
  <2>1. Granted \in SUBSET Calls /\ (c \in Granted <=> pc[c] = "granted")
    BY DEF Granted
  <2>2. CASE pc[c] = "granted"
    BY <1>1, <2>1, <2>2, RemoveCall, CallSetsFinite
  <2>3. CASE pc[c] = "waiting"
    <3>1. Granted \ {c} = Granted
      BY <2>1, <2>3
    <3> QED
      BY <2>1, <2>3, <3>1, CallSetsFinite
  <2> QED
    BY <2>2, <2>3
<1>6. /\ active = Cardinality(Holding) /\ queued = Cardinality(Reserved)
      /\ permits + active + Cardinality(Granted) = MaxConcurrency
      /\ active <= MaxConcurrency /\ active + queued <= MaxQueueDepth
  BY DEF IInv, CountersAgree, AdmissionBounded
<1>7. Cardinality(Granted') \in Nat
  <2>1. Granted' \in SUBSET Calls
    BY DEF Granted
  <2> QED
    BY <2>1, CallSetsFinite
<1>8. CountersAgree' /\ AdmissionBounded' /\ active' \in Nat /\ queued' \in Nat
  <2>1. /\ active' = Cardinality(Holding') /\ queued' = Cardinality(Reserved')
        /\ active' \in Nat /\ queued' \in Nat
    BY <1>1, <1>4, <1>6
  <2>2. permits' + active' + Cardinality(Granted') = MaxConcurrency
    <3>1. /\ permits' + Cardinality(Granted') = permits + Cardinality(Granted)
          /\ permits' \in Nat /\ active' = active
      BY <1>3, <1>5
    <3> QED
      BY <1>1, <1>5, <1>6, <1>7, <3>1
  <2>3. active' + queued' <= MaxQueueDepth
    BY <1>1, <1>6, RunnerAssumption
  <2> QED
    BY <1>6, <2>1, <2>2, <2>3 DEF CountersAgree, AdmissionBounded
<1> QED
  BY <1>1, <1>3, <1>8 DEF SlotInv

(* A line of calls without its i-th entry. *)
Without(v, i) == SubSeq(v, 1, i - 1) \o SubSeq(v, i + 1, Len(v))

LEMMA CutLine ==
  ASSUME NEW v \in Seq(Calls), NEW i \in 1..Len(v)
  PROVE  /\ Without(v, i) \in Seq(Calls) /\ Len(Without(v, i)) = Len(v) - 1
         /\ \A j \in 1..(Len(v) - 1) :
              Without(v, i)[j] = IF j < i THEN v[j] ELSE v[j + 1]
<1> DEFINE n == Len(v)
           a == SubSeq(v, 1, i - 1)
           b == SubSeq(v, i + 1, n)
           w == a \o b
<1>1. n \in Nat /\ i \in 1..n /\ \A j \in 1..n : v[j] \in Calls
  BY LenProperties, ElementOfSeq
<1>2. /\ a \in Seq(Calls) /\ Len(a) = i - 1
      /\ \A j \in 1..(i - 1) : a[j] = v[j]
  <2>1. \A j \in 1..(i - 1) : v[j] \in Calls
    BY <1>1
  <2>2. /\ a \in Seq(Calls)
        /\ Len(a) = IF 1 <= i - 1 THEN (i - 1) - 1 + 1 ELSE 0
        /\ \A j \in 1..(i - 1) - 1 + 1 : a[j] = v[1 + j - 1]
    <3> HIDE DEF n
    <3> QED
    BY <1>1, <2>1, SubSeqProperties
  <2> HIDE DEF a
  <2> QED
    BY <1>1, <2>2
<1>3. /\ b \in Seq(Calls) /\ Len(b) = n - i
      /\ \A j \in 1..(n - i) : b[j] = v[i + j]
  <2>1. \A j \in (i + 1)..n : v[j] \in Calls
    BY <1>1
  <2>2. /\ b \in Seq(Calls)
        /\ Len(b) = IF i + 1 <= n THEN n - (i + 1) + 1 ELSE 0
        /\ \A j \in 1..n - (i + 1) + 1 : b[j] = v[(i + 1) + j - 1]
    BY <1>1, <2>1, SubSeqProperties
  <2> HIDE DEF n, b
  <2>3. Len(b) = n - i
    <3>1. n \in Nat /\ i \in Nat /\ i <= n
      BY <1>1
    <3>2. Len(b) = IF i + 1 <= n THEN n - (i + 1) + 1 ELSE 0
      BY <2>2
    <3> QED
      BY <3>1, <3>2
  <2>4. ASSUME NEW j \in 1..(n - i) PROVE b[j] = v[i + j]
    <3>1. j \in 1..((n - (i + 1)) + 1) /\ (i + 1) + (j - 1) = i + j
      BY <1>1
    <3> QED
      BY <2>2, <3>1
  <2> QED
    BY <2>2, <2>3, <2>4
<1> HIDE DEF a, b
<1>4. /\ w \in Seq(Calls) /\ Len(w) = (i - 1) + (n - i)
      /\ \A j \in 1..((i - 1) + (n - i)) :
           w[j] = IF j <= i - 1 THEN a[j] ELSE b[j - (i - 1)]
  <2>1. /\ w \in Seq(Calls) /\ Len(w) = Len(a) + Len(b)
        /\ \A j \in 1..(Len(a) + Len(b)) :
             w[j] = IF j <= Len(a) THEN a[j] ELSE b[j - Len(a)]
    BY <1>2, <1>3, ConcatProperties
  <2> HIDE DEF w, n
  <2>2. Len(a) = i - 1 /\ Len(b) = n - i
    BY <1>2, <1>3
  <2> QED
    BY <2>1, <2>2
<1> HIDE DEF w
<1>5. \A j \in 1..(n - 1) : w[j] = IF j <= i - 1 THEN a[j] ELSE b[j - (i - 1)]
  BY <1>1, <1>4
<1>6. ASSUME NEW j \in 1..(n - 1)
      PROVE  w[j] = IF j < i THEN v[j] ELSE v[j + 1]
  <2> HIDE DEF n
  <2>1. CASE j < i
    <3>1. j <= i - 1 /\ j \in 1..(i - 1)
      BY <1>1, <2>1
    <3> QED
      BY <1>2, <1>5, <2>1, <3>1
  <2>2. CASE ~(j < i)
    <3>1. ~(j <= i - 1) /\ j - (i - 1) \in 1..(n - i) /\ i + (j - (i - 1)) = j + 1
      BY <1>1, <2>2
    <3>2. w[j] = b[j - (i - 1)]
      BY <1>5, <3>1
    <3>3. b[j - (i - 1)] = v[i + (j - (i - 1))]
      BY <1>3, <3>1
    <3> QED
      BY <2>2, <3>1, <3>2, <3>3
  <2> QED
    BY <2>1, <2>2
<1>7. w = Without(v, i)
  BY DEF w, a, b, Without
<1>8. /\ w \in Seq(Calls) /\ Len(w) = n - 1
      /\ \A j \in 1..(n - 1) : w[j] = IF j < i THEN v[j] ELSE v[j + 1]
  BY <1>1, <1>4, <1>6
<1> QED
  BY <1>7, <1>8

(* Taking one call out of the line leaves distinct waiting calls. *)
LEMMA LeaveLine ==
  ASSUME IInv, NEW i \in DOMAIN waiters
  PROVE  WakeReady(waiters[i], "done", permits, Without(waiters, i), 0)
<1> DEFINE n == Len(waiters)
           w == Without(waiters, i)
<1>1. /\ n \in Nat /\ i \in 1..n /\ waiters \in Seq(Calls)
      /\ \A j \in 1..n : waiters[j] \in Calls /\ pc[waiters[j]] = "waiting"
      /\ \A j, m \in 1..n : waiters[j] = waiters[m] => j = m
  BY LineFacts
<1>4. /\ w \in Seq(Calls) /\ Len(w) = n - 1
      /\ \A j \in 1..(n - 1) : w[j] = IF j < i THEN waiters[j] ELSE waiters[j + 1]
  BY <1>1, CutLine
<1>5. \A j \in 1..Len(w) : pc[w[j]] = "waiting" /\ w[j] # waiters[i]
  BY <1>1, <1>4
<1>6. \A j, m \in 1..Len(w) : w[j] = w[m] => j = m
  BY <1>1, <1>4
<1>7. TypeOK /\ permits \in Nat /\ "done" \in Phases \ {"granted"} /\ 0 <= permits
  BY DEF IInv, TypeOK, Phases
<1> QED
  BY <1>1, <1>4, <1>5, <1>6, <1>7 DEF WakeReady

-----------------------------------------------------------------------------
(* The rest of IInv: the types of the other variables, git_lock and agents. *)
JobTable == [Calls -> TerminalStatuses \cup {"absent", "queued", "running"}]

RestTyped ==
  /\ kind \in [Calls -> AllKinds \cup {"none"}]
  /\ gitQueue \in Seq(Calls) /\ fetched \in BOOLEAN
  /\ agents \subseteq Calls /\ trees \subseteq Calls
  /\ jobs \in JobTable /\ aged \subseteq Calls /\ ran \subseteq Calls
  /\ restarts \in 0..MaxRestarts

GitPhases == {"fetching", "cloning"}

LEMMA IInvParts == IInv <=> SlotInv /\ RestTyped /\ GitInv /\ AgentInv
BY DEF IInv, SlotInv, RestTyped, JobTable, TypeOK

(* Recorded, Begin and Evict keep the registry and git_lock's line typed. *)
LEMMA RecordedTyped ==
  ASSUME IInv, NEW c \in Calls, NEW status \in TerminalStatuses
  PROVE  Recorded(c, status) \in JobTable
BY DEF IInv, TypeOK, JobTable, Recorded

LEMMA BeginTyped ==
  ASSUME IInv, NEW c \in Calls, NEW k, Begin(c, k)
  PROVE  /\ jobs' \in JobTable /\ gitQueue' \in Seq(Calls)
         /\ gitQueue' \in {gitQueue, Append(gitQueue, c)}
BY DEF IInv, TypeOK, JobTable, Begin

LEMMA EvictTyped ==
  ASSUME IInv, NEW c \in Calls, NEW r \in JobTable, Evict(c, r)
  PROVE  jobs' \in JobTable /\ aged' \subseteq Calls
BY DEF IInv, TypeOK, JobTable, Evict

(* A step of call c keeps IInv when it keeps the slots and the types, gives  *)
(* a process only to a call that runs it, and enters the critical section of *)
(* git_lock only at the head of its line.                                    *)
LEMMA CallStep ==
  ASSUME IInv, NEW c \in Calls, SlotInv', RestTyped', OnlyMoves(c),
         \A d \in Calls \ {c} : kind'[d] = kind[d],
         agents' \subseteq agents \cup {c},
         c \in agents' => pc'[c] = "running" \/ (kind'[c] = "conv" /\ pc'[c] = "done"),
         \/ pc'[c] \notin GitPhases /\ gitQueue' \in {gitQueue, Append(gitQueue, c)}
         \/ HoldsGit(c) /\ gitQueue' = gitQueue
         \/ pc[c] \in GitPhases /\ pc'[c] \notin GitPhases
  PROVE  IInv'
<1>1. AgentInv'
  <2> SUFFICES ASSUME NEW d \in agents'
               PROVE  pc'[d] = "running" \/ (kind'[d] = "conv" /\ pc'[d] = "done")
    BY DEF AgentInv
  <2>1. d \in Calls
    BY DEF RestTyped
  <2>2. CASE d # c
    BY <2>1, <2>2 DEF IInv, AgentInv, OnlyMoves
  <2> QED
    BY <2>2
<1>2. GitInv'
  <2> SUFFICES ASSUME NEW d \in Calls, pc'[d] \in GitPhases
               PROVE  HoldsGit(d)'
    BY DEF GitInv, GitPhases
  <2>1. d # c => pc[d] \in GitPhases /\ HoldsGit(d)
    BY DEF OnlyMoves, GitPhases, IInv, GitInv
  <2>2. CASE pc'[c] \notin GitPhases /\ gitQueue' \in {gitQueue, Append(gitQueue, c)}
    <3>1. HoldsGit(d) /\ gitQueue \in Seq(Calls)
      BY <2>1, <2>2 DEF IInv, TypeOK
    <3>2. CASE gitQueue' = gitQueue
      BY <3>1, <3>2 DEF HoldsGit
    <3>3. CASE gitQueue' = Append(gitQueue, c)
      <4>1. gitQueue # <<>> /\ Head(gitQueue) = d
        BY <3>1 DEF HoldsGit
      <4>2. Head(Append(gitQueue, c)) = Head(gitQueue) /\ Append(gitQueue, c) # <<>>
        BY <3>1, <4>1
      <4> QED
        BY <3>3, <4>1, <4>2 DEF HoldsGit
    <3> QED
      BY <2>2, <3>2, <3>3
  <2>3. CASE HoldsGit(c) /\ gitQueue' = gitQueue
    BY <2>1, <2>3 DEF HoldsGit
  <2>4. CASE pc[c] \in GitPhases /\ pc'[c] \notin GitPhases
    <3>1. HoldsGit(c)
      BY <2>4 DEF IInv, GitInv, GitPhases
    <3> QED
      BY <2>1, <2>4, <3>1 DEF HoldsGit
  <2> QED
    BY <2>2, <2>3, <2>4
<1> QED
  BY <1>1, <1>2, IInvParts DEF IInv, SlotInv, RestTyped, JobTable, TypeOK

(* A call without a process: it neither runs nor has run in its slot. *)
LEMMA NoAgent ==
  ASSUME IInv, NEW c \in Calls, pc[c] \notin {"running", "done"}
  PROVE  c \notin agents
BY DEF IInv, AgentInv

(* The base case. *)
LEMMA InitIInv == Init => IInv
<1> SUFFICES ASSUME Init PROVE IInv
  OBVIOUS
<1>1. TypeOK
  <2>1. permits \in Nat /\ active \in Nat /\ queued \in Nat /\ restarts \in 0..MaxRestarts
    BY RunnerAssumption DEF Init
  <2>2. waiters \in Seq(Calls) /\ gitQueue \in Seq(Calls)
    BY EmptySeq DEF Init
  <2>3. pc \in [Calls -> Phases]
    BY DEF Init, Phases
  <2> QED
    BY <2>1, <2>2, <2>3 DEF Init, TypeOK
<1>2. Holding = {} /\ Reserved = {} /\ Granted = {}
  BY DEF Init, Holding, Reserved, Granted, SlotPhases, SetupPhases, QueuePhases
<1>3. Cardinality(Holding) = 0 /\ Cardinality(Reserved) = 0 /\ Cardinality(Granted) = 0
  BY <1>2, FS_EmptySet
<1>4. CountersAgree /\ AdmissionBounded
  BY <1>3, RunnerAssumption DEF Init, CountersAgree, AdmissionBounded
<1>5. LineInv /\ NoLostWakeup /\ GitInv /\ AgentInv
  BY DEF Init, LineInv, NoLostWakeup, GitInv, AgentInv
<1> QED
  BY <1>1, <1>4, <1>5 DEF IInv

(* A new pod starts with empty lines and counters and without processes. *)
LEMMA RestartStep == IInv /\ Restart => IInv'
<1> SUFFICES ASSUME IInv, Restart PROVE IInv'
  OBVIOUS
<1>1. TypeOK'
  <2>1. permits' \in Nat /\ active' \in Nat /\ queued' \in Nat /\ restarts' \in 0..MaxRestarts
    BY RunnerAssumption DEF Restart, IInv, TypeOK
  <2>2. waiters' \in Seq(Calls) /\ gitQueue' \in Seq(Calls)
    BY EmptySeq DEF Restart
  <2>3. pc' \in [Calls -> Phases]
    BY DEF Restart, IInv, TypeOK, Phases
  <2> QED
    BY <2>1, <2>2, <2>3 DEF Restart, IInv, TypeOK
<1>2. \A c \in Calls : pc'[c] \notin SlotPhases \cup QueuePhases \cup {"abandoned"}
  BY DEF Restart, IInv, TypeOK, SlotPhases, SetupPhases, QueuePhases
<1>3. Holding' = {} /\ Reserved' = {} /\ Granted' = {}
  BY <1>2 DEF Holding, Reserved, Granted, QueuePhases
<1>4. /\ Cardinality(Holding') = 0 /\ Cardinality(Reserved') = 0
      /\ Cardinality(Granted') = 0
  BY <1>3, FS_EmptySet
<1>5. CountersAgree' /\ AdmissionBounded'
  BY <1>4, RunnerAssumption DEF Restart, CountersAgree, AdmissionBounded
<1>6. LineInv' /\ NoLostWakeup' /\ AgentInv'
  BY DEF Restart, LineInv, NoLostWakeup, AgentInv
<1>7. GitInv'
  BY <1>2 DEF GitInv, SlotPhases, SetupPhases
<1> QED
  BY <1>1, <1>5, <1>6, <1>7 DEF IInv

(* Steps that move no call: time passing, and a process that was left alone. *)
LEMMA QuietStep ==
  ASSUME IInv, UNCHANGED <<pc, kind, counters, gitQueue>>,
         RestTyped', agents' \subseteq agents
  PROVE  IInv'
<1>1. Holding' = Holding /\ Reserved' = Reserved /\ Granted' = Granted
  BY DEF Holding, Reserved, Granted
<1>2. SlotInv'
  BY <1>1 DEF IInv, TypeOK, SlotInv, CountersAgree, AdmissionBounded, NoLostWakeup, LineInv, counters
<1>3. GitInv' /\ AgentInv'
  BY DEF IInv, GitInv, HoldsGit, AgentInv
<1> QED
  BY <1>2, <1>3 DEF IInv, SlotInv, RestTyped, JobTable, TypeOK

-----------------------------------------------------------------------------
(* Every step of a call, one lemma per group of actions. *)

LEMMA ArrivalSteps ==
  ASSUME IInv, NEW c \in Calls, NEW k \in Kinds,
         Refuse(c, k) \/ SubmitJob(c, k) \/ CallDirect(c, k) \/ OpenStream(c, k)
  PROVE  IInv'
<1>0. k \in AllKinds /\ RestTyped /\ pc[c] = "idle" /\ c \notin agents
  BY RunnerAssumption, NoAgent DEF IInv, TypeOK, RestTyped, JobTable,
     Refuse, SubmitJob, CallDirect, OpenStream
<1>1. CASE Refuse(c, k)
  <2>1. SlotInv' /\ pc'[c] = "refused" /\ OnlyMoves(c)
    BY <1>0, <1>1, MoveKeepsSlots
       DEF Refuse, Phases, CountedPhases, QueuePhases, SlotPhases, SetupPhases
  <2>2. RestTyped' /\ agents' = agents /\ gitQueue' = gitQueue
        /\ \A d \in Calls \ {c} : kind'[d] = kind[d]
    BY <1>0, <1>1 DEF Refuse, RestTyped, git, registry
  <2> QED
    BY <1>0, <2>1, <2>2, CallStep DEF GitPhases
<1>2. CASE SubmitJob(c, k)
  <2>1. SlotInv' /\ pc'[c] = "reserved" /\ OnlyMoves(c)
    BY <1>2, ReserveKeepsSlots DEF SubmitJob
  <2>2. RestTyped' /\ agents' = agents /\ gitQueue' = gitQueue
        /\ \A d \in Calls \ {c} : kind'[d] = kind[d]
    BY <1>0, <1>2 DEF SubmitJob, RestTyped, JobTable, git
  <2> QED
    BY <1>0, <2>1, <2>2, CallStep DEF GitPhases
<1>3. CASE CallDirect(c, k)
  <2>1. SlotInv' /\ pc'[c] \in {"locking", "starting", "waiting"} /\ OnlyMoves(c)
    <3>1. queued + 1 \in Nat
      BY DEF IInv, TypeOK
    <3> QED
      BY <1>3, <3>1, EnterKeepsSlots DEF CallDirect
  <2>2. /\ jobs' \in JobTable /\ gitQueue' \in Seq(Calls)
        /\ gitQueue' \in {gitQueue, Append(gitQueue, c)}
    BY <1>0, <1>3, BeginTyped DEF CallDirect, EnterSlot, RestTyped
  <2>3. RestTyped' /\ agents' = agents
        /\ \A d \in Calls \ {c} : kind'[d] = kind[d]
    BY <1>0, <1>3, <2>2 DEF CallDirect, RestTyped
  <2> QED
    BY <1>0, <2>1, <2>2, <2>3, CallStep DEF GitPhases
<1>4. CASE OpenStream(c, k)
  <2>1. SlotInv' /\ pc'[c] \in {"reserved", "abandoned"} /\ OnlyMoves(c)
    <3> DEFINE p == IF k = "liststream" THEN "abandoned" ELSE "reserved"
    <3>1. p \in {"reserved", "abandoned"} /\ pc' = [pc EXCEPT ![c] = p]
      BY <1>4 DEF OpenStream
    <3> HIDE DEF p
    <3>2. SlotInv' /\ pc'[c] = p /\ OnlyMoves(c)
      BY <1>4, <3>1, ReserveKeepsSlots DEF OpenStream
    <3> QED
      BY <3>1, <3>2
  <2>2. RestTyped' /\ agents' = agents /\ gitQueue' = gitQueue
        /\ \A d \in Calls \ {c} : kind'[d] = kind[d]
    BY <1>0, <1>4 DEF OpenStream, RestTyped, git, registry
  <2> QED
    BY <1>0, <2>1, <2>2, CallStep DEF GitPhases
<1> QED
  BY <1>1, <1>2, <1>3, <1>4

LEMMA EntrySteps ==
  ASSUME IInv, NEW c \in Calls, EnterLater(c) \/ Resume(c)
  PROVE  IInv'
<1>0. RestTyped /\ c \notin agents
  BY NoAgent DEF IInv, TypeOK, RestTyped, JobTable, EnterLater, Resume
<1>1. CASE EnterLater(c)
  <2>1. SlotInv' /\ pc'[c] \in {"locking", "starting", "waiting"} /\ OnlyMoves(c)
    <3>1. queued \in Nat
      BY DEF IInv, TypeOK
    <3> QED
      BY <1>1, <3>1, EnterKeepsSlots DEF EnterLater
  <2>2. /\ jobs' \in JobTable /\ gitQueue' \in Seq(Calls)
        /\ gitQueue' \in {gitQueue, Append(gitQueue, c)}
    BY <1>0, <1>1, BeginTyped DEF EnterLater, EnterSlot, RestTyped
  <2>3. RestTyped' /\ agents' = agents /\ kind' = kind
    BY <1>0, <1>1, <2>2 DEF EnterLater, RestTyped
  <2> QED
    BY <1>0, <2>1, <2>2, <2>3, CallStep DEF GitPhases
<1>2. CASE Resume(c)
  <2>1. SlotInv' /\ pc'[c] \in {"locking", "starting"} /\ OnlyMoves(c)
    <3> DEFINE p == FirstPhase(kind[c])
    <3>1. p \in {"locking", "starting"}
      BY DEF FirstPhase
    <3>2. /\ pc[c] = "granted" /\ WakeAll(c, p, permits, waiters)
          /\ queued' = queued - 1 /\ active' = active + 1
      BY <1>2 DEF Resume
    <3> HIDE DEF p
    <3>3. SlotInv' /\ pc'[c] = p /\ OnlyMoves(c)
      BY <3>1, <3>2, ResumeKeepsSlots
    <3> QED
      BY <3>1, <3>3
  <2>2. /\ jobs' \in JobTable /\ gitQueue' \in Seq(Calls)
        /\ gitQueue' \in {gitQueue, Append(gitQueue, c)}
    BY <1>2, BeginTyped DEF Resume
  <2>3. RestTyped' /\ agents' = agents /\ kind' = kind
    BY <1>0, <1>2, <2>2 DEF Resume, RestTyped
  <2> QED
    BY <1>0, <2>1, <2>2, <2>3, CallStep DEF GitPhases
<1> QED
  BY <1>1, <1>2

(* Setup steps in which the call keeps its permit. *)
LEMMA SetupSteps ==
  ASSUME IInv, NEW c \in Calls, Refresh(c) \/ FetchEnds(c) \/ Clone(c) \/ StartAgent(c)
  PROVE  IInv'
<1>0. RestTyped /\ c \notin agents
  BY NoAgent DEF IInv, TypeOK, RestTyped, JobTable, Refresh, FetchEnds, Clone, StartAgent
<1>1. \A p \in {"fetching", "cloning", "starting", "running"} :
        /\ pc[c] \in {"locking", "fetching", "cloning", "starting"}
        /\ pc' = [pc EXCEPT ![c] = p] /\ UNCHANGED counters
        => SlotInv' /\ pc'[c] = p /\ OnlyMoves(c)
  BY MoveKeepsSlots DEF Phases, CountedPhases, QueuePhases, SlotPhases, SetupPhases
<1>2. CASE Refresh(c)
  <2>1. SlotInv' /\ OnlyMoves(c) /\ pc'[c] \in GitPhases
    BY <1>1, <1>2 DEF Refresh, GitPhases
  <2>2. RestTyped' /\ agents' = agents /\ kind' = kind /\ HoldsGit(c) /\ gitQueue' = gitQueue
    BY <1>0, <1>2 DEF Refresh, RestTyped, registry
  <2> QED
    BY <1>0, <2>1, <2>2, CallStep
<1>3. CASE FetchEnds(c)
  <2>1. SlotInv' /\ OnlyMoves(c)
    BY <1>1, <1>3 DEF FetchEnds
  <2>2. RestTyped' /\ agents' = agents /\ kind' = kind /\ gitQueue' = gitQueue
    BY <1>0, <1>3 DEF FetchEnds, RestTyped, registry, git
  <2>3. HoldsGit(c)
    BY <1>3 DEF FetchEnds, IInv, GitInv
  <2> QED
    BY <1>0, <2>1, <2>2, <2>3, CallStep
<1>4. CASE Clone(c)
  <2>1. SlotInv' /\ OnlyMoves(c) /\ pc'[c] = "starting"
    BY <1>1, <1>4 DEF Clone
  <2>2. gitQueue' \in Seq(Calls)
    BY <1>0, <1>4 DEF Clone, IInv, GitInv, HoldsGit, RestTyped
  <2>3. RestTyped' /\ agents' = agents /\ kind' = kind
    BY <1>0, <1>4, <2>2 DEF Clone, RestTyped, registry
  <2> QED
    BY <1>0, <1>4, <2>1, <2>3, CallStep DEF GitPhases, Clone
<1>5. CASE StartAgent(c)
  <2>1. SlotInv' /\ OnlyMoves(c) /\ pc'[c] = "running"
    BY <1>1, <1>5 DEF StartAgent
  <2>2. RestTyped' /\ agents' = agents \cup {c} /\ kind' = kind /\ gitQueue' = gitQueue
    BY <1>0, <1>5 DEF StartAgent, RestTyped, registry, git
  <2> QED
    BY <2>1, <2>2, CallStep DEF GitPhases
<1> QED
  BY <1>2, <1>3, <1>4, <1>5

LEMMA AbandonSteps ==
  ASSUME IInv, NEW c \in Calls, FetchTimesOut(c) \/ SetupFails(c)
  PROVE  IInv'
<1>0. RestTyped /\ c \notin agents /\ pc[c] \in GitPhases /\ pc[c] \in SlotPhases
  BY NoAgent DEF IInv, TypeOK, RestTyped, JobTable, FetchTimesOut, SetupFails,
     GitPhases, SlotPhases, SetupPhases
<1>1. PICK status \in {"timeout", "error"} : AbandonSetup(c, status)
  BY DEF FetchTimesOut, SetupFails
<1>2. SlotInv' /\ pc'[c] = "done" /\ OnlyMoves(c)
  BY <1>0, <1>1, LeaveKeepsSlots DEF AbandonSetup
<1>3. jobs' \in JobTable /\ aged' \subseteq Calls
  <2>1. Recorded(c, status) \in JobTable
    BY RecordedTyped DEF TerminalStatuses
  <2> QED
    BY <1>1, <2>1, EvictTyped DEF AbandonSetup
<1>4. gitQueue' \in Seq(Calls)
  BY <1>0, <1>1 DEF AbandonSetup, IInv, GitInv, HoldsGit, RestTyped, GitPhases
<1>5. trees' \subseteq Calls
  BY <1>0 DEF FetchTimesOut, SetupFails, RestTyped
<1>6. RestTyped' /\ agents' = agents /\ kind' = kind
  BY <1>0, <1>1, <1>3, <1>4, <1>5 DEF AbandonSetup, RestTyped
<1> QED
  BY <1>0, <1>2, <1>6, CallStep DEF GitPhases

LEMMA RunSteps ==
  ASSUME IInv, NEW c \in Calls, StartFails(c) \/ AgentExits(c) \/ CutOff(c)
  PROVE  IInv'
<1>0. RestTyped /\ pc[c] \in {"starting", "running"} /\ pc[c] \in SlotPhases
  BY DEF IInv, TypeOK, RestTyped, JobTable, StartFails, AgentExits, CutOff, SlotPhases
<1>1. PICK status \in TerminalStatuses : Conclude(c, status)
  BY DEF StartFails, AgentExits, CutOff, TerminalStatuses
<1>2. /\ SlotInv' /\ OnlyMoves(c)
      /\ pc'[c] = IF kind[c] \in WorkspaceKinds THEN "ending" ELSE "done"
  <2> DEFINE p == IF kind[c] \in WorkspaceKinds THEN "ending" ELSE "done"
  <2>1. p \in {"ending", "done"} /\ LeaveSlot(c, p)
    BY <1>1 DEF Conclude
  <2> HIDE DEF p
  <2>2. SlotInv' /\ pc'[c] = p /\ OnlyMoves(c)
    BY <1>0, <2>1, LeaveKeepsSlots
  <2> QED
    BY <2>2 DEF p
<1>3. jobs' \in JobTable /\ aged' = aged
  BY <1>1, RecordedTyped DEF Conclude
<1>4. /\ agents' \subseteq agents /\ kind' = kind /\ gitQueue' = gitQueue
      /\ UNCHANGED <<fetched, trees, ran, restarts>>
  BY DEF StartFails, AgentExits, CutOff, git
<1>5. c \in agents' => kind'[c] = "conv" /\ pc'[c] = "done"
  <2> HAVE c \in agents'
  <2>1. kind[c] = "conv"
    <3>1. StartFails(c) => c \notin agents
      BY NoAgent DEF StartFails
    <3> QED
      BY <3>1 DEF StartFails, AgentExits, CutOff
  <2> QED
    BY <1>2, <1>4, <2>1 DEF WorkspaceKinds, JobKinds
<1>6. RestTyped'
  BY <1>0, <1>3, <1>4 DEF RestTyped
<1> QED
  BY <1>2, <1>4, <1>5, <1>6, CallStep DEF GitPhases

LEMMA CleanupStep ==
  ASSUME IInv, NEW c \in Calls, Cleanup(c)
  PROVE  IInv'
<1>0. RestTyped /\ c \notin agents
  BY NoAgent DEF IInv, TypeOK, RestTyped, JobTable, Cleanup
<1>1. SlotInv' /\ pc'[c] = "done" /\ OnlyMoves(c)
  BY MoveKeepsSlots
     DEF Cleanup, Phases, CountedPhases, QueuePhases, SlotPhases, SetupPhases
<1>2. jobs' \in JobTable /\ aged' \subseteq Calls
  BY <1>0, EvictTyped DEF Cleanup, RestTyped
<1>3. RestTyped' /\ agents' = agents /\ kind' = kind /\ gitQueue' = gitQueue
  BY <1>0, <1>2 DEF Cleanup, RestTyped, git
<1> QED
  BY <1>0, <1>1, <1>3, CallStep DEF GitPhases

LEMMA DisconnectSteps ==
  ASSUME IInv, NEW c \in Calls,
         \/ DisconnectReserved(c) \/ DisconnectWaiting(c)
         \/ DisconnectGranted(c) \/ DisconnectActive(c)
  PROVE  IInv'
<1>1. /\ SlotInv' /\ OnlyMoves(c) /\ pc'[c] \notin GitPhases
  <2>1. CASE DisconnectReserved(c)
    <3>1. SlotInv' /\ pc'[c] = "abandoned" /\ OnlyMoves(c)
      BY <2>1, MoveKeepsSlots
         DEF DisconnectReserved, Phases, CountedPhases, QueuePhases, SlotPhases, SetupPhases
    <3> QED
      BY <3>1 DEF GitPhases
  <2>2. CASE DisconnectWaiting(c)
    <3>1. PICK i \in DOMAIN waiters :
            /\ waiters[i] = c
            /\ WakeAll(c, "done", permits,
                  SubSeq(waiters, 1, i - 1) \o SubSeq(waiters, i + 1, Len(waiters)))
      BY <2>2 DEF DisconnectWaiting
    <3>2. WakeReady(c, "done", permits,
             SubSeq(waiters, 1, i - 1) \o SubSeq(waiters, i + 1, Len(waiters)), 0)
      BY <3>1, LeaveLine DEF Without
    <3>3. SlotInv' /\ pc'[c] = "done" /\ OnlyMoves(c)
      BY <2>2, <3>1, <3>2, WithdrawKeepsSlots DEF DisconnectWaiting
    <3> QED
      BY <3>3 DEF GitPhases
  <2>3. CASE DisconnectGranted(c)
    <3>1. WakeReady(c, "done", permits + 1, waiters, 0)
      BY <2>3, LineFacts DEF DisconnectGranted, WakeReady, IInv, TypeOK, Phases
    <3>2. SlotInv' /\ pc'[c] = "done" /\ OnlyMoves(c)
      BY <2>3, <3>1, WithdrawKeepsSlots DEF DisconnectGranted
    <3> QED
      BY <3>2 DEF GitPhases
  <2>4. CASE DisconnectActive(c)
    <3>1. SlotInv' /\ pc'[c] = "done" /\ OnlyMoves(c)
      BY <2>4, LeaveKeepsSlots DEF DisconnectActive, SlotPhases
    <3> QED
      BY <3>1 DEF GitPhases
  <2> QED
    BY <2>1, <2>2, <2>3, <2>4
<1>2. RestTyped' /\ kind' = kind /\ gitQueue' = gitQueue /\ agents' \subseteq agents
  BY DEF IInv, TypeOK, RestTyped, JobTable, DisconnectReserved, DisconnectWaiting,
     DisconnectGranted, DisconnectActive, git, registry
<1>3. c \notin agents'
  BY NoAgent DEF DisconnectReserved, DisconnectWaiting, DisconnectGranted, DisconnectActive
<1> QED
  BY <1>1, <1>2, <1>3, CallStep

-----------------------------------------------------------------------------
(* Every step of the runner preserves the invariant. *)
LEMMA NextIInv == IInv /\ [Next]_vars => IInv'
<1> SUFFICES ASSUME IInv, [Next]_vars PROVE IInv'
  OBVIOUS
<1>1. ASSUME NEW c \in Calls, Advance(c) PROVE IInv'
  BY <1>1, EntrySteps, SetupSteps, AbandonSteps, RunSteps, CleanupStep DEF Advance
<1>2. ASSUME NEW c \in Calls, NEW k \in Kinds,
             Refuse(c, k) \/ SubmitJob(c, k) \/ CallDirect(c, k) \/ OpenStream(c, k)
      PROVE  IInv'
  BY <1>2, ArrivalSteps
<1>3. ASSUME NEW c \in Calls,
             \/ DisconnectReserved(c) \/ DisconnectWaiting(c)
             \/ DisconnectGranted(c) \/ DisconnectActive(c)
      PROVE  IInv'
  BY <1>3, DisconnectSteps
<1>4. ASSUME NEW c \in Calls, OrphanExits(c) \/ RecordAges(c) PROVE IInv'
  <2>1. RestTyped' /\ agents' \subseteq agents /\ UNCHANGED <<pc, kind, counters, gitQueue>>
    BY <1>4 DEF IInv, TypeOK, RestTyped, JobTable, OrphanExits, RecordAges, git, registry
  <2> QED
    BY <2>1, QuietStep
<1>5. ASSUME FetchAges PROVE IInv'
  <2>1. RestTyped' /\ agents' \subseteq agents /\ UNCHANGED <<pc, kind, counters, gitQueue>>
    BY <1>5 DEF IInv, TypeOK, RestTyped, JobTable, FetchAges, registry
  <2> QED
    BY <2>1, QuietStep
<1>6. ASSUME UNCHANGED vars PROVE IInv'
  <2>1. RestTyped' /\ agents' \subseteq agents /\ UNCHANGED <<pc, kind, counters, gitQueue>>
    BY <1>6 DEF vars, counters, IInv, TypeOK, RestTyped, JobTable
  <2> QED
    BY <2>1, QuietStep
<1> QED
  BY <1>1, <1>2, <1>3, <1>4, <1>5, <1>6, RestartStep DEF Next, Environment

(* IInv is an invariant of the runner, for any calls and any capacities. *)
THEOREM RunnerInvariant == Spec => []IInv
<1>1. Init => IInv
  BY InitIInv
<1>2. IInv /\ [Next]_vars => IInv'
  BY NextIInv
<1> QED
  BY <1>1, <1>2, PTL DEF Spec

(* Every variable keeps its type. *)
THEOREM RunnerTyped == Spec => []TypeOK
<1>1. IInv => TypeOK
  BY DEF IInv
<1> QED
  BY <1>1, RunnerInvariant, PTL

(* inflight_active and inflight_queued are exact and no permit of            *)
(* execution_semaphore is lost or minted.                                    *)
THEOREM CountersExact == Spec => []CountersAgree
<1>1. IInv => CountersAgree
  BY DEF IInv
<1> QED
  BY <1>1, RunnerInvariant, PTL

(* Neither MAX_CONCURRENCY nor MAX_QUEUE_DEPTH is ever exceeded. *)
THEOREM AdmissionIsBounded == Spec => []AdmissionBounded
<1>1. IInv => AdmissionBounded
  BY DEF IInv
<1> QED
  BY <1>1, RunnerInvariant, PTL

(* A call never waits for a permit that the pool has and nobody will take. *)
THEOREM WakeupsNeverLost == Spec => []NoLostWakeup
<1>1. IInv => NoLostWakeup
  BY DEF IInv
<1> QED
  BY <1>1, RunnerInvariant, PTL

(* No claude process outside /v1/conversational outlives its permit. *)
THEOREM AgentsHoldPermits == Spec => []AgentHoldsPermit
<1>1. IInv => AgentHoldsPermit
  BY DEF IInv, AgentInv, AgentHoldsPermit
<1> QED
  BY <1>1, RunnerInvariant, PTL

-----------------------------------------------------------------------------
(* Checkouts and records.  What the registry, the disk and the history hold *)
(* of one call, by where the call stands.                                   *)
CallOK(c) ==
  /\ pc[c] = "idle" <=> kind[c] = "none"
  /\ pc[c] \in SetupPhases => kind[c] \in WorkspaceKinds
  /\ kind[c] \notin JobKinds => jobs[c] = "absent"
  /\ kind[c] \in JobKinds =>
       /\ pc[c] \in QueuePhases => jobs[c] = "queued"
       /\ pc[c] \in SlotPhases => jobs[c] = "running"
       /\ pc[c] \in {"ending", "done"} => jobs[c] \in TerminalStatuses \cup {"absent"}
       /\ pc[c] \in {"refused", "lost"} => jobs[c] = "absent"
  /\ c \in aged => jobs[c] \in TerminalStatuses
  /\ c \in trees => kind[c] \in WorkspaceKinds
  /\ kind[c] \in WorkspaceKinds /\ pc[c] \in {"starting", "running", "ending"} => c \in trees
  /\ c \in ran => pc[c] \in {"running", "ending", "done", "lost"}
  /\ c \in ran /\ pc[c] = "done" => c \notin trees

CallsOK == \A c \in Calls : CallOK(c)

(* What a step may do to a finished record. *)
Keeps(c) == jobs[c] \in TerminalStatuses => jobs'[c] \in {jobs[c], "absent"}

(* What a step of call c does to the record of another call: nothing, or it *)
(* evicts one that is old.                                                  *)
Spares(c) ==
  \A d \in Calls \ {c} :
    /\ kind'[d] = kind[d] /\ (d \in trees' <=> d \in trees) /\ (d \in ran' <=> d \in ran)
    /\ \/ jobs'[d] = jobs[d] /\ (d \in aged' => d \in aged)
       \/ d \in aged /\ jobs'[d] = "absent" /\ d \notin aged'

LEMMA PhasesApart ==
  /\ "absent" \notin TerminalStatuses /\ "running" \notin TerminalStatuses
  /\ "queued" \notin TerminalStatuses
  /\ QueuePhases \cap SlotPhases = {}
  /\ {"idle", "ending", "done", "refused", "lost", "abandoned"} \cap (QueuePhases \cup SlotPhases) = {}
  /\ {"waiting", "granted", "reserved"} \subseteq QueuePhases
  /\ {"starting", "running", "locking", "fetching", "cloning"} \subseteq SlotPhases
  /\ SetupPhases = {"locking", "fetching", "cloning"}
  /\ "none" \notin AllKinds
  /\ "none" \notin WorkspaceKinds /\ "none" \notin JobKinds /\ JobKinds \subseteq WorkspaceKinds
  /\ StreamKinds \cap WorkspaceKinds = {} /\ "conv" \notin WorkspaceKinds
BY DEF TerminalStatuses, QueuePhases, SlotPhases, SetupPhases, JobKinds, WorkspaceKinds, StreamKinds, AllKinds

(* A step of call c that spares the others has only c's own record to keep. *)
LEMMA RecordStep ==
  ASSUME CallsOK, NEW c \in Calls, OnlyMoves(c), Spares(c), CallOK(c)', Keeps(c)
  PROVE  CallsOK' /\ \A d \in Calls : Keeps(d)
<1> SUFFICES ASSUME NEW d \in Calls \ {c} PROVE CallOK(d)' /\ Keeps(d)
  BY DEF CallsOK
<1>1. CallOK(d)
  BY DEF CallsOK
<1>2. pc'[d] = pc[d] \/ (pc[d] = "waiting" /\ pc'[d] = "granted")
  BY DEF OnlyMoves
<1>3. kind'[d] = kind[d] /\ (d \in trees' <=> d \in trees) /\ (d \in ran' <=> d \in ran)
  BY DEF Spares
<1>4. CASE jobs'[d] = jobs[d] /\ (d \in aged' => d \in aged)
  <2>1. CASE pc'[d] = pc[d]
    BY <1>1, <1>3, <1>4, <2>1, Zenon DEF CallOK, Keeps
  <2>2. CASE pc[d] = "waiting" /\ pc'[d] = "granted"
    BY <1>1, <1>3, <1>4, <2>2, PhasesApart DEF CallOK, Keeps
  <2> QED
    BY <1>2, <2>1, <2>2
<1>5. CASE d \in aged /\ jobs'[d] = "absent" /\ d \notin aged'
  <2>1. jobs[d] \in TerminalStatuses
    BY <1>1, <1>5 DEF CallOK
  <2>2. pc[d] \notin QueuePhases \cup SlotPhases \/ kind[d] \notin JobKinds
    BY <1>1, <2>1, PhasesApart DEF CallOK
  <2>3. CASE pc'[d] = pc[d]
    BY <1>1, <1>3, <1>5, <2>2, <2>3 DEF CallOK, Keeps
  <2>4. CASE pc[d] = "waiting" /\ pc'[d] = "granted"
    BY <1>1, <1>3, <1>5, <2>2, <2>4, PhasesApart DEF CallOK, Keeps
  <2> QED
    BY <1>2, <2>3, <2>4
<1> QED
  BY <1>4, <1>5 DEF Spares

(* Where the semaphore's operations leave the calls. *)
LEMMA WakeMoves ==
  ASSUME IInv, NEW c \in Calls, NEW p, NEW v, NEW k \in 0..Len(waiters), Wake(c, p, v, waiters, k)
  PROVE  pc'[c] = p /\ OnlyMoves(c)
<1>1. pc' = [d \in Calls |->
              IF d = c THEN p ELSE IF d \in {waiters[i] : i \in 1..k} THEN "granted" ELSE pc[d]]
  BY DEF Wake
<1>2. \A i \in 1..k : pc[waiters[i]] = "waiting"
  BY DEF IInv, LineInv, TypeOK
<1> QED
  BY <1>1, <1>2 DEF OnlyMoves

LEMMA LeaveMoves ==
  ASSUME IInv, NEW c \in Calls, NEW p, LeaveSlot(c, p)
  PROVE  pc'[c] = p /\ OnlyMoves(c)
<1> DEFINE k == IF waiters = <<>> THEN 0 ELSE 1
<1>1. Wake(c, p, permits + 1, waiters, k)
  BY DEF LeaveSlot, HandOver
<1>2. k \in 0..Len(waiters)
  BY DEF IInv, TypeOK
<1> HIDE DEF k
<1> QED
  BY <1>1, <1>2, WakeMoves

LEMMA WakeAllMoves ==
  ASSUME IInv, NEW c \in Calls, NEW p, NEW v \in Nat, WakeAll(c, p, v, waiters)
  PROVE  pc'[c] = p /\ OnlyMoves(c)
<1> DEFINE k == IF v <= Len(waiters) THEN v ELSE Len(waiters)
<1>1. Wake(c, p, v, waiters, k)
  BY DEF WakeAll
<1>2. k \in 0..Len(waiters)
  BY DEF IInv, TypeOK
<1> HIDE DEF k
<1> QED
  BY <1>1, <1>2, WakeMoves

LEMMA MoveMoves ==
  ASSUME IInv, NEW c \in Calls, NEW p, pc' = [pc EXCEPT ![c] = p]
  PROVE  pc'[c] = p /\ OnlyMoves(c)
BY DEF IInv, TypeOK, OnlyMoves

(* Steps of a call, one lemma per group of actions: each spares the others  *)
(* and keeps the call's own record.                                         *)
Recording(c) == OnlyMoves(c) /\ Spares(c) /\ CallOK(c)' /\ Keeps(c)

LEMMA EnterRecords ==
  ASSUME IInv, CallsOK, NEW c \in Calls, NEW k \in AllKinds, NEW n, EnterSlot(c, k, n),
         UNCHANGED <<agents, trees, aged, ran>>, kind' = [kind EXCEPT ![c] = k],
         \/ pc[c] = "idle" /\ k \notin JobKinds
         \/ pc[c] = "reserved" /\ kind[c] = k
  PROVE  Recording(c)
<1>0. CallOK(c) /\ jobs \in JobTable
  BY DEF CallsOK, IInv, TypeOK, JobTable
<1>1. kind'[c] = k /\ \A d \in Calls \ {c} : kind'[d] = kind[d]
  BY DEF IInv, TypeOK
<1>2. c \notin ran /\ c \notin aged
  BY <1>0, PhasesApart DEF CallOK
<1>3. k \notin JobKinds => jobs[c] = "absent"
  BY <1>0, PhasesApart DEF CallOK
<1>4. k \in JobKinds => jobs[c] = "queued"
  BY <1>0, PhasesApart DEF CallOK
<1>5. c \in trees => k \in WorkspaceKinds
  BY <1>0, PhasesApart DEF CallOK
<1>6. CASE SlotFree
  <2>1. pc'[c] \in {"locking", "starting"} /\ (pc'[c] = "starting" <=> k \notin WorkspaceKinds)
        /\ OnlyMoves(c) /\ Begin(c, k)
    <3>1. pc' = [pc EXCEPT ![c] = FirstPhase(k)] /\ Begin(c, k)
      BY <1>6 DEF EnterSlot
    <3>2. pc'[c] = FirstPhase(k) /\ OnlyMoves(c)
      BY <3>1, MoveMoves
    <3> QED
      BY <3>1, <3>2 DEF FirstPhase
  <2>2. jobs'[c] = (IF k \in JobKinds THEN "running" ELSE jobs[c])
        /\ \A d \in Calls \ {c} : jobs'[d] = jobs[d]
    BY <1>0, <2>1 DEF Begin, JobTable
  <2>3. Spares(c)
    BY <1>1, <2>2 DEF Spares
  <2>4. CallOK(c)'
    BY <1>1, <1>2, <1>3, <1>5, <2>1, <2>2, PhasesApart DEF CallOK
  <2>5. Keeps(c)
    BY <1>3, <1>4, <2>2, PhasesApart DEF Keeps
  <2> QED
    BY <2>1, <2>3, <2>4, <2>5 DEF Recording
<1>7. CASE ~SlotFree
  <2>1. pc'[c] = "waiting" /\ OnlyMoves(c) /\ jobs' = jobs
    BY <1>7, MoveMoves DEF EnterSlot
  <2>2. Spares(c) /\ Keeps(c)
    BY <1>1, <2>1 DEF Spares, Keeps
  <2>3. CallOK(c)'
    BY <1>1, <1>2, <1>3, <1>4, <1>5, <2>1, PhasesApart DEF CallOK
  <2> QED
    BY <2>1, <2>2, <2>3 DEF Recording
<1> QED
  BY <1>6, <1>7

LEMMA ArrivalRecords ==
  ASSUME IInv, CallsOK, NEW c \in Calls, NEW k \in Kinds,
         Refuse(c, k) \/ SubmitJob(c, k) \/ CallDirect(c, k) \/ OpenStream(c, k)
  PROVE  Recording(c)
<1>0. k \in AllKinds /\ CallOK(c) /\ pc[c] = "idle"
  BY RunnerAssumption DEF CallsOK, Refuse, SubmitJob, CallDirect, OpenStream
<1>1. kind[c] = "none" /\ jobs[c] = "absent" /\ c \notin trees /\ c \notin ran /\ c \notin aged
  BY <1>0, PhasesApart DEF CallOK
<1>2. kind' = [kind EXCEPT ![c] = k] /\ UNCHANGED <<agents, trees, aged, ran>>
  BY DEF Refuse, SubmitJob, CallDirect, OpenStream, registry
<1>3. kind'[c] = k /\ \A d \in Calls \ {c} : kind'[d] = kind[d]
  BY <1>2 DEF IInv, TypeOK
<1>4. CASE CallDirect(c, k)
  <2>1. EnterSlot(c, k, queued + 1) /\ k \notin JobKinds
    BY <1>4 DEF CallDirect, JobKinds
  <2> QED
    BY <1>0, <1>2, <2>1, EnterRecords
<1>5. CASE Refuse(c, k)
  <2>1. pc'[c] = "refused" /\ OnlyMoves(c) /\ jobs' = jobs
    BY <1>5, MoveMoves DEF Refuse, registry
  <2>2. Spares(c) /\ Keeps(c)
    BY <1>2, <1>3, <2>1 DEF Spares, Keeps
  <2>3. CallOK(c)'
    BY <1>0, <1>1, <1>2, <1>3, <2>1, PhasesApart DEF CallOK
  <2> QED
    BY <2>1, <2>2, <2>3 DEF Recording
<1>6. CASE SubmitJob(c, k)
  <2>1. pc'[c] = "reserved" /\ OnlyMoves(c) /\ k \in JobKinds /\ jobs' = [jobs EXCEPT ![c] = "queued"]
    BY <1>6, MoveMoves DEF SubmitJob
  <2>2. jobs'[c] = "queued" /\ \A d \in Calls \ {c} : jobs'[d] = jobs[d]
    BY <2>1 DEF IInv, TypeOK
  <2>3. Spares(c) /\ Keeps(c)
    BY <1>1, <1>2, <1>3, <2>2, PhasesApart DEF Spares, Keeps
  <2>4. CallOK(c)'
    BY <1>0, <1>1, <1>2, <1>3, <2>1, <2>2, PhasesApart DEF CallOK
  <2> QED
    BY <2>1, <2>3, <2>4 DEF Recording
<1>7. CASE OpenStream(c, k)
  <2>1. pc'[c] \in {"reserved", "abandoned"} /\ OnlyMoves(c) /\ k \in StreamKinds /\ jobs' = jobs
    <3> DEFINE p == IF k = "liststream" THEN "abandoned" ELSE "reserved"
    <3>1. pc' = [pc EXCEPT ![c] = p] /\ p \in {"reserved", "abandoned"}
      BY <1>7 DEF OpenStream
    <3> HIDE DEF p
    <3>2. pc'[c] = p /\ OnlyMoves(c)
      BY <3>1, MoveMoves
    <3> QED
      BY <1>7, <3>1, <3>2 DEF OpenStream, registry
  <2>2. Spares(c) /\ Keeps(c)
    BY <1>2, <1>3, <2>1 DEF Spares, Keeps
  <2>3. k \notin JobKinds /\ k \notin WorkspaceKinds
    BY <2>1, PhasesApart
  <2>4. CallOK(c)'
    BY <1>0, <1>1, <1>2, <1>3, <2>1, <2>3, PhasesApart DEF CallOK
  <2> QED
    BY <2>1, <2>2, <2>4 DEF Recording
<1> QED
  BY <1>4, <1>5, <1>6, <1>7

LEMMA EntryRecords ==
  ASSUME IInv, CallsOK, NEW c \in Calls, EnterLater(c) \/ Resume(c)
  PROVE  Recording(c)
<1>0. CallOK(c) /\ kind' = kind /\ UNCHANGED <<agents, trees, aged, ran>> /\ jobs \in JobTable
  BY DEF CallsOK, EnterLater, Resume, IInv, TypeOK, JobTable
<1>1. CASE EnterLater(c)
  <2>1. pc[c] = "reserved" /\ EnterSlot(c, kind[c], queued) /\ kind' = [kind EXCEPT ![c] = kind[c]]
    BY <1>0, <1>1 DEF EnterLater, IInv, TypeOK
  <2>2. CASE kind[c] \in AllKinds
    BY <1>0, <2>1, <2>2, EnterRecords
  <2>3. CASE kind[c] = "none"
    BY <1>0, <1>1, <2>3 DEF CallOK, EnterLater
  <2> QED
    BY <2>2, <2>3 DEF IInv, TypeOK
<1>2. CASE Resume(c)
  <2>1. pc[c] = "granted" /\ pc'[c] = FirstPhase(kind[c]) /\ OnlyMoves(c) /\ Begin(c, kind[c])
    <3>1. permits \in Nat
      BY DEF IInv, TypeOK
    <3> QED
      BY <1>2, <3>1, WakeAllMoves DEF Resume
  <2>2. pc'[c] \in {"locking", "starting"} /\ (pc'[c] = "starting" <=> kind[c] \notin WorkspaceKinds)
    BY <2>1 DEF FirstPhase
  <2>3. jobs'[c] = (IF kind[c] \in JobKinds THEN "running" ELSE jobs[c])
        /\ \A d \in Calls \ {c} : jobs'[d] = jobs[d]
    BY <1>0, <2>1 DEF Begin, JobTable
  <2>4. c \notin ran /\ c \notin aged /\ (kind[c] \in JobKinds => jobs[c] = "queued")
    BY <1>0, <2>1, PhasesApart DEF CallOK
  <2>5. Spares(c) /\ Keeps(c)
    BY <1>0, <2>3, <2>4, PhasesApart DEF Spares, Keeps
  <2>6. CallOK(c)'
    BY <1>0, <2>1, <2>2, <2>3, <2>4, PhasesApart DEF CallOK
  <2> QED
    BY <2>1, <2>5, <2>6 DEF Recording
<1> QED
  BY <1>1, <1>2

LEMMA SetupRecords ==
  ASSUME IInv, CallsOK, NEW c \in Calls, Refresh(c) \/ FetchEnds(c) \/ Clone(c) \/ StartAgent(c)
  PROVE  Recording(c)
<1>0. CallOK(c) /\ kind' = kind /\ jobs' = jobs /\ aged' = aged
  BY DEF CallsOK, Refresh, FetchEnds, Clone, StartAgent, registry
<1>1. pc[c] \in {"locking", "fetching", "cloning", "starting"}
  BY DEF Refresh, FetchEnds, Clone, StartAgent
<1>2. c \notin ran
  BY <1>0, <1>1 DEF CallOK
<1>3. PICK p \in {"fetching", "cloning", "starting", "running"} : pc' = [pc EXCEPT ![c] = p]
  BY DEF Refresh, FetchEnds, Clone, StartAgent
<1>4. pc'[c] = p /\ OnlyMoves(c)
  BY <1>3, MoveMoves
<1>5. /\ p \in {"fetching", "cloning"} => trees' = trees /\ ran' = ran /\ pc[c] \in SetupPhases
      /\ p = "starting" => trees' = trees \cup {c} /\ ran' = ran /\ pc[c] \in SetupPhases
      /\ p = "running" => trees' = trees /\ ran' = ran \cup {c} /\ pc[c] = "starting"
  BY <1>4, PhasesApart DEF Refresh, FetchEnds, Clone, StartAgent, IInv, TypeOK
<1>6. Spares(c) /\ Keeps(c)
  BY <1>0, <1>5 DEF Spares, Keeps
<1>7. CallOK(c)'
  BY <1>0, <1>1, <1>2, <1>4, <1>5, PhasesApart DEF CallOK
<1> QED
  BY <1>4, <1>6, <1>7 DEF Recording

(* A call leaves its slot: with its verdict, and its checkout yet to go.    *)
LEMMA EvictRecords ==
  ASSUME IInv, CallsOK, NEW c \in Calls, NEW r \in JobTable, Evict(c, r),
         UNCHANGED <<kind, ran>>, \A d \in Calls \ {c} : r[d] = jobs[d] /\ (d \in trees' <=> d \in trees)
  PROVE  /\ Spares(c)
         /\ jobs'[c] = r[c] \/ (jobs'[c] = "absent" /\ kind[c] \in JobKinds)
         /\ c \in aged' => c \in aged
         /\ c \in aged' => jobs'[c] = r[c]
<1>1. CASE kind[c] \in JobKinds
  <2>1. aged' = {} /\ \A d \in Calls : jobs'[d] = IF d \in aged THEN "absent" ELSE r[d]
    BY <1>1 DEF Evict
  <2> QED
    BY <1>1, <2>1 DEF Spares
<1>2. CASE kind[c] \notin JobKinds
  <2>1. jobs' = r /\ aged' = aged
    BY <1>2 DEF Evict
  <2> QED
    BY <2>1 DEF Spares
<1> QED
  BY <1>1, <1>2

LEMMA RecordedValue ==
  ASSUME IInv, NEW c \in Calls, NEW status \in TerminalStatuses
  PROVE  /\ Recorded(c, status)[c] = IF kind[c] \in JobKinds THEN status ELSE jobs[c]
         /\ \A d \in Calls \ {c} : Recorded(c, status)[d] = jobs[d]
BY DEF Recorded, IInv, TypeOK

LEMMA AbandonRecords ==
  ASSUME IInv, CallsOK, NEW c \in Calls, FetchTimesOut(c) \/ SetupFails(c)
  PROVE  Recording(c)
<1>0. CallOK(c) /\ pc[c] \in {"fetching", "cloning"} /\ kind[c] \in WorkspaceKinds
  BY PhasesApart DEF CallsOK, CallOK, FetchTimesOut, SetupFails
<1>1. PICK status \in {"timeout", "error"} : AbandonSetup(c, status)
  BY DEF FetchTimesOut, SetupFails
<1>2. status \in TerminalStatuses
  BY DEF TerminalStatuses
<1>3. pc'[c] = "done" /\ OnlyMoves(c) /\ Evict(c, Recorded(c, status)) /\ UNCHANGED <<kind, ran>>
  BY <1>1, LeaveMoves DEF AbandonSetup
<1>4. trees' \in {trees, trees \cup {c}}
  BY DEF FetchTimesOut, SetupFails
<1> DEFINE r == Recorded(c, status)
<1>5. r \in JobTable /\ r[c] = (IF kind[c] \in JobKinds THEN status ELSE jobs[c])
      /\ \A d \in Calls \ {c} : r[d] = jobs[d]
  BY <1>2, RecordedTyped, RecordedValue
<1> HIDE DEF r
<1>6. Evict(c, r)
  BY <1>3 DEF r
<1>7. /\ Spares(c)
      /\ jobs'[c] = r[c] \/ (jobs'[c] = "absent" /\ kind[c] \in JobKinds)
      /\ c \in aged' => c \in aged
  BY <1>3, <1>4, <1>5, <1>6, EvictRecords
<1>8. c \notin aged /\ c \notin ran
  BY <1>0, PhasesApart DEF CallOK
<1>9. Keeps(c)
  BY <1>0, PhasesApart DEF CallOK, Keeps
<1>10. CallOK(c)'
  BY <1>0, <1>2, <1>3, <1>4, <1>5, <1>7, <1>8, PhasesApart DEF CallOK
<1> QED
  BY <1>3, <1>7, <1>9, <1>10 DEF Recording

LEMMA RunRecords ==
  ASSUME IInv, CallsOK, NEW c \in Calls, StartFails(c) \/ AgentExits(c) \/ CutOff(c)
  PROVE  Recording(c)
<1>0. CallOK(c) /\ pc[c] \in {"starting", "running"}
      /\ UNCHANGED <<kind, trees, ran>>
  BY DEF CallsOK, StartFails, AgentExits, CutOff
<1>1. PICK status \in TerminalStatuses : Conclude(c, status)
  BY DEF StartFails, AgentExits, CutOff, TerminalStatuses
<1> DEFINE p == IF kind[c] \in WorkspaceKinds THEN "ending" ELSE "done"
<1>2. pc'[c] = p /\ OnlyMoves(c)
  BY <1>1, LeaveMoves DEF Conclude
<1>3. /\ aged' = aged /\ jobs'[c] = (IF kind[c] \in JobKinds THEN status ELSE jobs[c])
      /\ \A d \in Calls \ {c} : jobs'[d] = jobs[d]
  BY <1>1, RecordedValue DEF Conclude
<1>4. Spares(c)
  BY <1>0, <1>3 DEF Spares
<1>5. Keeps(c) /\ c \notin aged
  BY <1>0, PhasesApart DEF CallOK, Keeps
<1>6. CallOK(c)'
  BY <1>0, <1>2, <1>3, <1>5, PhasesApart DEF CallOK
<1> QED
  BY <1>2, <1>4, <1>5, <1>6 DEF Recording

LEMMA CleanupRecords ==
  ASSUME IInv, CallsOK, NEW c \in Calls, Cleanup(c)
  PROVE  Recording(c)
<1>0. CallOK(c) /\ pc[c] = "ending" /\ jobs \in JobTable /\ UNCHANGED <<kind, ran>>
      /\ trees' = trees \ {c} /\ Evict(c, jobs)
  BY DEF CallsOK, Cleanup, IInv, TypeOK, JobTable
<1>1. pc'[c] = "done" /\ OnlyMoves(c)
  BY MoveMoves DEF Cleanup
<1>2. /\ Spares(c)
      /\ jobs'[c] = jobs[c] \/ (jobs'[c] = "absent" /\ kind[c] \in JobKinds)
      /\ c \in aged' => c \in aged
      /\ c \in aged' => jobs'[c] = jobs[c]
  BY <1>0, EvictRecords
<1>3. Keeps(c)
  BY <1>2 DEF Keeps
<1>4. CallOK(c)'
  BY <1>0, <1>1, <1>2, PhasesApart DEF CallOK
<1> QED
  BY <1>1, <1>2, <1>3, <1>4 DEF Recording

LEMMA DisconnectRecords ==
  ASSUME IInv, CallsOK, NEW c \in Calls,
         \/ DisconnectReserved(c) \/ DisconnectWaiting(c)
         \/ DisconnectGranted(c) \/ DisconnectActive(c)
  PROVE  Recording(c)
<1>0. /\ CallOK(c) /\ kind[c] = "stream" /\ pc[c] # "idle"
      /\ UNCHANGED <<kind, trees, ran, jobs, aged>>
  BY DEF CallsOK, DisconnectReserved, DisconnectWaiting, DisconnectGranted, DisconnectActive, registry
<1>1. kind[c] \notin JobKinds /\ kind[c] \notin WorkspaceKinds
  BY <1>0 DEF JobKinds, WorkspaceKinds
<1>2. pc'[c] \in {"abandoned", "done"} /\ OnlyMoves(c) /\ (pc'[c] = "abandoned" => pc[c] = "reserved")
  <2>1. CASE DisconnectReserved(c)
    BY <2>1, MoveMoves DEF DisconnectReserved
  <2>2. CASE DisconnectWaiting(c)
    <3>1. PICK i \in DOMAIN waiters :
            /\ waiters[i] = c
            /\ WakeAll(c, "done", permits,
                  SubSeq(waiters, 1, i - 1) \o SubSeq(waiters, i + 1, Len(waiters)))
      BY <2>2 DEF DisconnectWaiting
    <3>2. WakeReady(c, "done", permits,
             SubSeq(waiters, 1, i - 1) \o SubSeq(waiters, i + 1, Len(waiters)), 0)
      BY <3>1, LeaveLine DEF Without
    <3> QED
      BY <2>2, <3>1, <3>2, WithdrawKeepsSlots DEF DisconnectWaiting
  <2>3. CASE DisconnectGranted(c)
    <3>1. permits + 1 \in Nat
      BY DEF IInv, TypeOK
    <3> QED
      BY <2>3, <3>1, WakeAllMoves DEF DisconnectGranted
  <2>4. CASE DisconnectActive(c)
    BY <2>4, LeaveMoves DEF DisconnectActive
  <2> QED
    BY <2>1, <2>2, <2>3, <2>4
<1>3. Spares(c) /\ Keeps(c)
  BY <1>0 DEF Spares, Keeps
<1>4. CallOK(c)'
  BY <1>0, <1>1, <1>2, PhasesApart DEF CallOK
<1> QED
  BY <1>2, <1>3, <1>4 DEF Recording

-----------------------------------------------------------------------------
LEMMA InitCalls == Init => CallsOK
BY PhasesApart DEF Init, CallsOK, CallOK

(* Every step keeps the records. *)
LEMMA NextCalls ==
  ASSUME IInv, CallsOK, [Next]_vars
  PROVE  CallsOK' /\ \A d \in Calls : Keeps(d)
<1>1. ASSUME NEW c \in Calls, Recording(c) PROVE CallsOK' /\ \A d \in Calls : Keeps(d)
  BY <1>1, RecordStep DEF Recording
<1>2. ASSUME NEW c \in Calls, Advance(c) PROVE Recording(c)
  BY <1>2, EntryRecords, SetupRecords, AbandonRecords, RunRecords, CleanupRecords DEF Advance
<1>3. ASSUME NEW c \in Calls, NEW k \in Kinds,
             Refuse(c, k) \/ SubmitJob(c, k) \/ CallDirect(c, k) \/ OpenStream(c, k)
      PROVE  Recording(c)
  BY <1>3, ArrivalRecords
<1>4. ASSUME NEW c \in Calls,
             \/ DisconnectReserved(c) \/ DisconnectWaiting(c)
             \/ DisconnectGranted(c) \/ DisconnectActive(c)
      PROVE  Recording(c)
  BY <1>4, DisconnectRecords
<1>5. ASSUME NEW c \in Calls, OrphanExits(c) \/ RecordAges(c)
      PROVE  CallsOK' /\ \A d \in Calls : Keeps(d)
  <2>1. UNCHANGED <<pc, kind, trees, jobs, ran>>
        /\ \A d \in aged' : d \in aged \/ jobs[d] \in TerminalStatuses
    BY <1>5 DEF OrphanExits, RecordAges, registry
  <2> QED
    BY <2>1 DEF CallsOK, CallOK, Keeps
<1>6. ASSUME FetchAges \/ UNCHANGED vars PROVE CallsOK' /\ \A d \in Calls : Keeps(d)
  <2>1. UNCHANGED <<pc, kind, trees, jobs, ran, aged>>
    BY <1>6 DEF FetchAges, vars, registry
  <2> QED
    BY <2>1 DEF CallsOK, CallOK, Keeps
<1>7. ASSUME Restart PROVE CallsOK' /\ \A d \in Calls : Keeps(d)
  <2>1. \A d \in Calls : /\ jobs'[d] = "absent" /\ d \notin aged' /\ kind'[d] = kind[d]
                         /\ (d \in trees' <=> d \in trees) /\ (d \in ran' <=> d \in ran)
    BY <1>7 DEF Restart
  <2>2. \A d \in Calls : pc'[d] = IF pc[d] \in QueuePhases \cup SlotPhases \cup {"ending", "abandoned"}
                                THEN "lost" ELSE pc[d]
    BY <1>7 DEF Restart
  <2> SUFFICES ASSUME NEW d \in Calls PROVE CallOK(d)' /\ Keeps(d)
    BY DEF CallsOK
  <2>3. CallOK(d)
    BY DEF CallsOK
  <2>4. CASE pc'[d] = "lost"
    BY <2>1, <2>2, <2>3, <2>4, PhasesApart DEF CallOK, Keeps
  <2>5. CASE pc'[d] # "lost"
    BY <2>1, <2>2, <2>3, <2>5, PhasesApart DEF CallOK, Keeps
  <2> QED
    BY <2>4, <2>5
<1> QED
  BY <1>1, <1>2, <1>3, <1>4, <1>5, <1>6, <1>7 DEF Next, Environment

LEMMA CallsAlwaysOK == Spec => [](IInv /\ CallsOK)
<1>1. Init => IInv /\ CallsOK
  BY InitIInv, InitCalls
<1>2. IInv /\ CallsOK /\ [Next]_vars => (IInv /\ CallsOK)'
  BY NextIInv, NextCalls
<1> QED
  BY <1>1, <1>2, PTL DEF Spec

(***************************************************************************)
(* No clean-up deletes the tree under a running process, whatever is cut   *)
(* off, disconnected or restarted (main.py:350-354).                       *)
(***************************************************************************)
THEOREM AgentsHaveTrees == Spec => []AgentHasTree
<1>1. IInv /\ CallsOK => AgentHasTree
  BY PhasesApart DEF IInv, AgentInv, TypeOK, CallsOK, CallOK, AgentHasTree
<1> QED
  BY <1>1, CallsAlwaysOK, PTL

(***************************************************************************)
(* A call that got as far as its agent is not over while its checkout is   *)
(* on disk.                                                                *)
(***************************************************************************)
THEOREM TreesAreRemoved == Spec => []NoTreeLeft
<1>1. IInv /\ CallsOK => NoTreeLeft
  BY DEF IInv, TypeOK, CallsOK, CallOK, NoTreeLeft
<1> QED
  BY <1>1, CallsAlwaysOK, PTL

(***************************************************************************)
(* GET /jobs never forgets a live job, and never calls one finished that   *)
(* runs, whenever records are evicted.                                     *)
(***************************************************************************)
THEOREM RegistryIsTruthful == Spec => []RecordsTruthful
<1>1. CallsOK => RecordsTruthful
  BY DEF CallsOK, CallOK, RecordsTruthful
<1> QED
  BY <1>1, CallsAlwaysOK, PTL

(***************************************************************************)
(* No step changes a verdict once it is recorded, the clean-up and its     *)
(* failures included.                                                      *)
(***************************************************************************)
THEOREM VerdictsAreFinal == Spec => VerdictFinal
<1>1. IInv /\ CallsOK /\ [Next]_vars =>
        [\A c \in Calls : jobs[c] \in TerminalStatuses => jobs'[c] \in {jobs[c], "absent"}]_vars
  BY NextCalls DEF Keeps
<1> QED
  BY <1>1, CallsAlwaysOK, PTL DEF Spec, VerdictFinal

-----------------------------------------------------------------------------
(* The contract with the loops that poll the registry. *)
Records == [c \in Calls |-> RecordOf(c)]
Working == {c \in agents : kind[c] \in JobKinds}

LEMMA StatusesApart ==
  {"unused", "live", "gone", "queued", "running", "absent"} \cap TerminalStatuses = {}
BY DEF TerminalStatuses

(* A record that says nothing else is a verdict. *)
LEMMA RecordValues ==
  ASSUME IInv, NEW c \in Calls
  PROVE  /\ RecordOf(c) \in {"unused", "live", "gone"} \cup TerminalStatuses
         /\ RecordOf(c) \in TerminalStatuses => RecordOf(c) = jobs[c]
BY StatusesApart DEF IInv, TypeOK, RecordOf

LEMMA RecordAt ==
  ASSUME NEW c \in Calls
  PROVE  Records[c] = RecordOf(c) /\ Records'[c] = RecordOf(c)'
BY DEF Records

LEMMA ServiceMapped ==
  /\ Service!Ended = {c \in Calls : Records[c] \in TerminalStatuses}
  /\ \A old : Service!Forget(old) <=>
       /\ Records' = [d \in Calls |-> IF d \in old THEN "gone" ELSE Records[d]]
       /\ Working' = Working
  /\ \A c, verdict, old : Service!End(c, verdict, old) <=>
       /\ Records[c] = "live"
       /\ Records' = [d \in Calls |-> IF d \in old THEN "gone" ELSE [Records EXCEPT ![c] = verdict][d]]
       /\ Working' = Working \ {c}
  /\ \A c : Service!Launch(c) <=>
       Records[c] = "live" /\ Working' = Working \cup {c} /\ Records' = Records
  /\ \A c : Service!Accept(c) <=>
       /\ Records[c] = "unused" /\ Records' = [Records EXCEPT ![c] = "live"]
       /\ Working' \in {Working, Working \cup {c}}
BY DEF Service!Ended, Service!Forget, Service!End, Service!Launch, Service!Accept, Service!Without,
   Records, Working

(* What a step of call c does to the records of the others. *)
Evicted(c) == {d \in Calls \ {c} : Records'[d] # Records[d]}

LEMMA OthersForgotten ==
  ASSUME IInv, CallsOK, NEW c \in Calls, Recording(c), NEW d \in Evicted(c)
  PROVE  Records[d] \in TerminalStatuses /\ Records'[d] = "gone"
<1>0. d \in Calls \ {c} /\ RecordOf(d)' # RecordOf(d) /\ CallOK(d)
  BY RecordAt DEF Evicted, CallsOK
<1>1. kind'[d] = kind[d] /\ (pc'[d] = "refused" <=> pc[d] = "refused")
  BY <1>0 DEF Recording, Spares, OnlyMoves
<1>2. jobs'[d] # jobs[d]
  BY <1>0, <1>1 DEF RecordOf
<1>3. d \in aged /\ jobs'[d] = "absent"
  BY <1>0, <1>2 DEF Recording, Spares
<1>4. jobs[d] \in TerminalStatuses
  BY <1>0, <1>3 DEF CallOK
<1>5. RecordOf(d) \in TerminalStatuses /\ RecordOf(d)' = "gone"
  BY <1>0, <1>1, <1>3, <1>4, StatusesApart DEF RecordOf
<1> QED
  BY <1>0, <1>5, RecordAt

(* How a step of call c may treat its own record. *)
OwnRecord(c) ==
  \/ Records'[c] = Records[c] /\ Working' = Working
  \/ Records[c] \in TerminalStatuses /\ Records'[c] = "gone" /\ Working' = Working
  \/ Records[c] = "unused" /\ Records'[c] = "live" /\ Working' = Working /\ aged' = aged
  \/ Records[c] = "live" /\ Records'[c] \in TerminalStatuses /\ Working' = Working \ {c}
  \/ Records[c] = "live" /\ Records'[c] = "live" /\ Working' = Working \cup {c} /\ aged' = aged

LEMMA OwnStep ==
  ASSUME IInv, CallsOK, NEW c \in Calls, Recording(c), OwnRecord(c)
  PROVE  Service!Next
<1>1. /\ Records = [d \in Calls |-> Records[d]] /\ Records' = [d \in Calls |-> Records'[d]]
  BY DEF Records
<1>2. /\ Evicted(c) \subseteq Calls \ {c}
      /\ \A d \in Evicted(c) : Records[d] \in TerminalStatuses /\ Records'[d] = "gone"
      /\ \A d \in Calls \ {c} : d \notin Evicted(c) => Records'[d] = Records[d]
  BY OthersForgotten DEF Evicted
<1>3. Evicted(c) \in SUBSET Service!Ended
  BY <1>1, <1>2, ServiceMapped
<1>4. aged' = aged => Evicted(c) = {}
  BY RecordAt DEF Evicted, Recording, Spares, OnlyMoves, RecordOf
<1>5. ASSUME NEW old \in SUBSET Service!Ended, Service!Forget(old) PROVE Service!Next
  BY <1>5, Zenon DEF Service!Next
<1>6. CASE Records'[c] = Records[c] /\ Working' = Working
  <2>0. \A d \in Calls : Records'[d] = IF d \in Evicted(c) THEN "gone" ELSE Records[d]
    BY <1>1, <1>2, <1>6
  <2>1. Records' = [d \in Calls |-> IF d \in Evicted(c) THEN "gone" ELSE Records[d]]
    BY <1>1, <2>0
  <2>2. Service!Forget(Evicted(c))
    BY <1>6, <2>1, ServiceMapped
  <2> QED
    BY <1>3, <1>5, <2>2
<1>7. CASE Records[c] \in TerminalStatuses /\ Records'[c] = "gone" /\ Working' = Working
  <2> DEFINE old == Evicted(c) \cup {c}
  <2>0. \A d \in Calls : Records'[d] = IF d \in old THEN "gone" ELSE Records[d]
    BY <1>1, <1>2, <1>7
  <2>1. Records' = [d \in Calls |-> IF d \in old THEN "gone" ELSE Records[d]]
    BY <1>1, <2>0
  <2>2. old \in SUBSET Service!Ended
    BY <1>1, <1>3, <1>7, ServiceMapped
  <2>3. Service!Forget(old)
    BY <1>7, <2>1, ServiceMapped
  <2> QED
    BY <1>5, <2>2, <2>3
<1>8. CASE Records[c] = "unused" /\ Records'[c] = "live" /\ Working' = Working /\ aged' = aged
  <2>0. \A d \in Calls : Records'[d] = IF d = c THEN "live" ELSE Records[d]
    BY <1>2, <1>4, <1>8
  <2>1. Records[c] = "unused" /\ Records' = [Records EXCEPT ![c] = "live"]
    BY <1>1, <1>8, <2>0
  <2>2. Service!Accept(c)
    BY <1>8, <2>1, ServiceMapped
  <2> QED
    BY <2>2, Zenon DEF Service!Next
<1>9. CASE Records[c] = "live" /\ Records'[c] \in TerminalStatuses /\ Working' = Working \ {c}
  <2> PICK v \in TerminalStatuses : Records'[c] = v
    BY <1>9
  <2> PICK old \in SUBSET Service!Ended : old = Evicted(c)
    BY <1>3
  <2>0. \A d \in Calls :
          Records'[d] = IF d \in old THEN "gone" ELSE IF d = c THEN v ELSE Records[d]
    BY <1>2, <1>9
  <2>1. /\ Records[c] = "live" /\ Working' = Working \ {c}
        /\ Records' = [d \in Calls |-> IF d \in old THEN "gone" ELSE [Records EXCEPT ![c] = v][d]]
    BY <1>1, <1>9, <2>0
  <2>2. Service!End(c, v, old)
    BY <2>1, ServiceMapped
  <2>3. \E d \in Calls, verdict \in TerminalStatuses : Service!End(d, verdict, old)
    BY <2>2
  <2> QED
    BY <2>3, Zenon DEF Service!Next
<1>10. CASE Records[c] = "live" /\ Records'[c] = "live" /\ Working' = Working \cup {c} /\ aged' = aged
  <2>0. \A d \in Calls : Records'[d] = Records[d]
    BY <1>2, <1>4, <1>10
  <2>1. Records[c] = "live" /\ Records' = Records
    BY <1>1, <1>10, <2>0
  <2>2. Service!Launch(c)
    BY <1>10, <2>1, ServiceMapped
  <2> QED
    BY <2>2, Zenon DEF Service!Next
<1> QED
  BY <1>6, <1>7, <1>8, <1>9, <1>10 DEF OwnRecord

LEMMA ArrivalOwn ==
  ASSUME IInv, CallsOK, NEW c \in Calls, NEW k \in Kinds,
         Refuse(c, k) \/ SubmitJob(c, k) \/ CallDirect(c, k) \/ OpenStream(c, k)
  PROVE  OwnRecord(c)
<1>0. pc[c] = "idle" /\ kind' = [kind EXCEPT ![c] = k] /\ UNCHANGED <<agents, aged>>
  BY DEF Refuse, SubmitJob, CallDirect, OpenStream, registry
<1>1. kind[c] = "none" /\ kind'[c] = k /\ \A d \in Calls \ {c} : kind'[d] = kind[d]
  BY <1>0 DEF CallsOK, CallOK, IInv, TypeOK
<1>2. RecordOf(c) = "unused"
  BY <1>1, PhasesApart DEF RecordOf
<1>3. Working' = Working
  <2>1. c \notin agents
    BY <1>0, NoAgent
  <2> QED
    BY <1>0, <1>1, <2>1 DEF Working, IInv, TypeOK
<1>4. CASE Refuse(c, k)
  BY <1>2, <1>3, <1>4, RecordAt DEF Refuse, RecordOf, OwnRecord, IInv, TypeOK
<1>5. CASE SubmitJob(c, k)
  <2>1. pc'[c] = "reserved" /\ jobs'[c] = "queued" /\ k \in JobKinds
    BY <1>5 DEF SubmitJob, IInv, TypeOK
  <2>2. RecordOf(c)' = "live"
    BY <1>1, <2>1 DEF RecordOf
  <2> QED
    BY <1>0, <1>2, <1>3, <2>2, RecordAt DEF OwnRecord
<1>6. CASE CallDirect(c, k) \/ OpenStream(c, k)
  <2>1. k \notin JobKinds
    BY <1>6 DEF CallDirect, OpenStream, JobKinds, StreamKinds
  <2>2. RecordOf(c)' = "unused"
    BY <1>1, <2>1 DEF RecordOf
  <2> QED
    BY <1>2, <1>3, <2>2, RecordAt DEF OwnRecord
<1> QED
  BY <1>4, <1>5, <1>6

(* A call that stands in a queue or holds a permit is live, if it is a job. *)
LEMMA LiveRecord ==
  ASSUME CallsOK, NEW c \in Calls, pc[c] \in QueuePhases \cup SlotPhases
  PROVE  RecordOf(c) = IF kind[c] \in JobKinds THEN "live" ELSE "unused"
<1>1. CallOK(c) /\ pc[c] # "refused"
  BY PhasesApart DEF CallsOK
<1> QED
  BY <1>1 DEF CallOK, RecordOf

(* A step of a call that is no job, and has no process of a job. *)
LEMMA NoJobOwn ==
  ASSUME NEW c \in Calls, kind' = kind, kind[c] \notin JobKinds,
         agents' \in {agents, agents \ {c}, agents \cup {c}}
  PROVE  OwnRecord(c)
<1>1. RecordOf(c) = "unused" /\ RecordOf(c)' = "unused"
  BY DEF RecordOf
<1>2. Working' = Working
  BY DEF Working
<1> QED
  BY <1>1, <1>2, RecordAt DEF OwnRecord

LEMMA EntryOwn ==
  ASSUME IInv, CallsOK, NEW c \in Calls, EnterLater(c) \/ Resume(c)
  PROVE  OwnRecord(c)
<1>0. kind' = kind /\ agents' = agents /\ pc[c] \in QueuePhases
  BY DEF EnterLater, Resume, QueuePhases
<1>1. CASE kind[c] \notin JobKinds
  BY <1>0, <1>1, NoJobOwn
<1>2. CASE kind[c] \in JobKinds
  <2>1. CallOK(c)' /\ Working' = Working
    BY <1>0, EntryRecords DEF Recording, Working
  <2>2. pc'[c] \in {"waiting", "locking"} \/ pc'[c] = FirstPhase(kind[c])
    <3>1. CASE EnterLater(c)
      BY <3>1 DEF EnterLater, EnterSlot, IInv, TypeOK
    <3>2. CASE Resume(c)
      BY <3>2, WakeAllMoves DEF Resume, IInv, TypeOK
    <3> QED
      BY <3>1, <3>2
  <2>3. pc'[c] \in QueuePhases \cup SlotPhases
    BY <2>2, PhasesApart DEF FirstPhase, QueuePhases, SlotPhases, SetupPhases
  <2>4. RecordOf(c) = "live"
    BY <1>0, <1>2, LiveRecord
  <2>5. RecordOf(c)' = "live"
    BY <1>0, <1>2, <2>1, <2>3, PhasesApart DEF CallOK, RecordOf
  <2> QED
    BY <2>1, <2>4, <2>5, RecordAt DEF OwnRecord
<1> QED
  BY <1>1, <1>2

LEMMA SetupOwn ==
  ASSUME IInv, CallsOK, NEW c \in Calls, Refresh(c) \/ FetchEnds(c) \/ Clone(c) \/ StartAgent(c)
  PROVE  OwnRecord(c)
<1>0. kind' = kind /\ jobs' = jobs /\ aged' = aged /\ pc[c] \in SlotPhases
      /\ agents' = (IF StartAgent(c) THEN agents \cup {c} ELSE agents)
  <2>1. CASE StartAgent(c)
    BY <2>1, PhasesApart DEF StartAgent, registry
  <2>2. CASE Refresh(c) \/ FetchEnds(c) \/ Clone(c)
    <3>1. ~StartAgent(c)
      BY <2>2 DEF StartAgent, Refresh, FetchEnds, Clone
    <3> QED
      BY <2>2, <3>1, PhasesApart DEF Refresh, FetchEnds, Clone, registry
  <2> QED
    BY <2>1, <2>2
<1>1. CASE kind[c] \notin JobKinds
  BY <1>0, <1>1, NoJobOwn
<1>2. CASE kind[c] \in JobKinds
  <2>1. RecordOf(c) = "live" /\ pc[c] # "refused"
    BY <1>0, <1>2, LiveRecord, PhasesApart
  <2>2. pc'[c] # "refused"
    BY PhasesApart DEF Refresh, FetchEnds, Clone, StartAgent, IInv, TypeOK
  <2>3. RecordOf(c)' = "live"
    BY <1>0, <1>2, <2>1, <2>2 DEF RecordOf
  <2>4. Working' = IF StartAgent(c) THEN Working \cup {c} ELSE Working
    BY <1>0, <1>2 DEF Working
  <2> QED
    BY <1>0, <2>1, <2>3, <2>4, RecordAt DEF OwnRecord
<1> QED
  BY <1>1, <1>2

(* A job that leaves its slot has a verdict and no process. *)
LEMMA VerdictOwn ==
  ASSUME IInv, CallsOK, NEW c \in Calls, pc[c] \in SlotPhases, kind[c] \in JobKinds,
         kind' = kind, pc'[c] # "refused", jobs'[c] \in TerminalStatuses, Working' = Working \ {c}
  PROVE  OwnRecord(c)
<1>1. RecordOf(c) = "live"
  BY LiveRecord
<1>2. RecordOf(c)' = jobs'[c]
  BY StatusesApart DEF RecordOf
<1> QED
  BY <1>1, <1>2, RecordAt DEF OwnRecord

LEMMA AbandonOwn ==
  ASSUME IInv, CallsOK, NEW c \in Calls, FetchTimesOut(c) \/ SetupFails(c)
  PROVE  OwnRecord(c)
<1>0. kind' = kind /\ agents' = agents /\ pc[c] \in {"fetching", "cloning"} /\ CallOK(c)
  BY DEF FetchTimesOut, SetupFails, AbandonSetup, CallsOK
<1>1. c \notin agents /\ pc[c] \in SlotPhases
  BY <1>0, NoAgent, PhasesApart
<1>2. CASE kind[c] \notin JobKinds
  BY <1>0, <1>2, NoJobOwn
<1>3. CASE kind[c] \in JobKinds
  <2>1. PICK status \in TerminalStatuses : AbandonSetup(c, status)
    BY DEF FetchTimesOut, SetupFails, TerminalStatuses
  <2>2. pc'[c] = "done" /\ Evict(c, Recorded(c, status))
    BY <2>1, LeaveMoves DEF AbandonSetup
  <2>3. c \notin aged
    BY <1>0, <1>1, <1>3, PhasesApart DEF CallOK
  <2>4. jobs'[c] = status
    BY <1>3, <2>2, <2>3, RecordedValue DEF Evict
  <2>5. Working' = Working \ {c}
    BY <1>0, <1>1 DEF Working
  <2> QED
    BY <1>0, <1>1, <1>3, <2>2, <2>4, <2>5, VerdictOwn
<1> QED
  BY <1>2, <1>3

LEMMA RunOwn ==
  ASSUME IInv, CallsOK, NEW c \in Calls, StartFails(c) \/ AgentExits(c) \/ CutOff(c)
  PROVE  OwnRecord(c)
<1>0. kind' = kind /\ pc[c] \in {"starting", "running"}
  BY DEF StartFails, AgentExits, CutOff
<1>1. agents' \in {agents, agents \ {c}} /\ (kind[c] \in JobKinds => agents' = agents \ {c})
  <2>1. StartFails(c) => agents' = agents /\ c \notin agents
    BY NoAgent DEF StartFails
  <2> QED
    BY <2>1 DEF AgentExits, CutOff, JobKinds
<1>2. CASE kind[c] \notin JobKinds
  BY <1>0, <1>1, <1>2, NoJobOwn
<1>3. CASE kind[c] \in JobKinds
  <2>1. PICK status \in TerminalStatuses : Conclude(c, status)
    BY DEF StartFails, AgentExits, CutOff, TerminalStatuses
  <2>2. pc'[c] \in {"ending", "done"}
    BY <2>1, LeaveMoves DEF Conclude
  <2>3. jobs'[c] = status
    BY <1>3, <2>1, RecordedValue DEF Conclude
  <2>4. Working' = Working \ {c}
    BY <1>0, <1>1, <1>3 DEF Working
  <2>5. pc[c] \in SlotPhases
    BY <1>0, PhasesApart
  <2> QED
    BY <1>0, <1>3, <2>2, <2>3, <2>4, <2>5, VerdictOwn
<1> QED
  BY <1>2, <1>3

LEMMA CleanupOwn ==
  ASSUME IInv, CallsOK, NEW c \in Calls, Cleanup(c)
  PROVE  OwnRecord(c)
<1>0. kind' = kind /\ agents' = agents /\ pc[c] = "ending" /\ pc'[c] = "done" /\ Evict(c, jobs) /\ CallOK(c)
  BY DEF Cleanup, CallsOK, IInv, TypeOK
<1>1. CASE kind[c] \notin JobKinds
  BY <1>0, <1>1, NoJobOwn
<1>2. CASE kind[c] \in JobKinds
  <2>1. Working' = Working
    BY <1>0 DEF Working
  <2>2. CASE c \notin aged
    <3>1. jobs'[c] = jobs[c]
      BY <1>0, <1>2, <2>2 DEF Evict
    <3>2. RecordOf(c)' = RecordOf(c)
      BY <1>0, <3>1 DEF RecordOf
    <3> QED
      BY <2>1, <3>2, RecordAt DEF OwnRecord
  <2>3. CASE c \in aged
    <3>1. jobs'[c] = "absent" /\ jobs[c] \in TerminalStatuses
      BY <1>0, <1>2, <2>3 DEF Evict, CallOK
    <3>2. RecordOf(c) \in TerminalStatuses /\ RecordOf(c)' = "gone"
      BY <1>0, <1>2, <3>1, StatusesApart DEF RecordOf
    <3> QED
      BY <2>1, <3>2, RecordAt DEF OwnRecord
  <2> QED
    BY <2>2, <2>3
<1> QED
  BY <1>1, <1>2

LEMMA DisconnectOwn ==
  ASSUME NEW c \in Calls,
         \/ DisconnectReserved(c) \/ DisconnectWaiting(c)
         \/ DisconnectGranted(c) \/ DisconnectActive(c)
  PROVE  OwnRecord(c)
<1>1. kind[c] \notin JobKinds /\ kind' = kind /\ agents' \in {agents, agents \ {c}}
  BY DEF DisconnectReserved, DisconnectWaiting, DisconnectGranted, DisconnectActive, JobKinds
<1> QED
  BY <1>1, NoJobOwn

(* A process nobody waits for is no job's; time and the pod. *)
LEMMA RecordsStill ==
  ASSUME IInv, CallsOK,
         \/ \E c \in Calls : OrphanExits(c) \/ RecordAges(c)
         \/ FetchAges
         \/ UNCHANGED vars
  PROVE  UNCHANGED <<Records, Working>>
<1>1. CASE \E c \in Calls : OrphanExits(c)
  <2>1. PICK c \in Calls : OrphanExits(c)
    BY <1>1
  <2>2. UNCHANGED <<pc, kind, jobs>> /\ agents' = agents \ {c} /\ kind[c] \notin JobKinds
    BY <2>1 DEF OrphanExits, registry, IInv, AgentInv, JobKinds
  <2> QED
    BY <2>2 DEF Records, RecordOf, Working
<1>2. CASE (\E c \in Calls : RecordAges(c)) \/ FetchAges \/ UNCHANGED vars
  <2>1. UNCHANGED <<pc, kind, jobs, agents>>
    BY <1>2 DEF RecordAges, FetchAges, vars, registry
  <2> QED
    BY <2>1 DEF Records, RecordOf, Working
<1> QED
  BY <1>1, <1>2

LEMMA RestartForgets ==
  ASSUME IInv, Restart
  PROVE  Service!Next
<1>1. kind' = kind /\ agents' = {} /\ \A c \in Calls : jobs'[c] = "absent"
      /\ (pc'[c] = "refused" <=> pc[c] = "refused")
  BY PhasesApart DEF Restart
<1>2. \A c \in Calls : RecordOf(c)' = IF RecordOf(c) = "unused" THEN "unused" ELSE "gone"
  <2> SUFFICES ASSUME NEW c \in Calls
               PROVE  RecordOf(c)' = IF RecordOf(c) = "unused" THEN "unused" ELSE "gone"
    OBVIOUS
  <2>1. CASE kind[c] \notin JobKinds \/ pc[c] = "refused"
    BY <1>1, <2>1 DEF RecordOf
  <2>2. CASE ~(kind[c] \notin JobKinds \/ pc[c] = "refused")
    <3>1. RecordOf(c) # "unused"
      BY <2>2 DEF RecordOf, IInv, TypeOK, TerminalStatuses
    <3>2. RecordOf(c)' = "gone"
      BY <1>1, <2>2 DEF RecordOf
    <3> QED
      BY <3>1, <3>2
  <2> QED
    BY <2>1, <2>2
<1>3. Records' = [c \in Calls |-> IF Records[c] = "unused" THEN "unused" ELSE "gone"]
  BY <1>2 DEF Records
<1>4. Working' = {}
  BY <1>1 DEF Working
<1>5. Service!Replace
  BY <1>3, <1>4 DEF Service!Replace, Records, Working
<1> QED
  BY <1>5 DEF Service!Next

LEMMA ServiceInit == Init => Service!Init
BY PhasesApart DEF Init, Service!Init, RecordOf

LEMMA ServiceStep == IInv /\ CallsOK /\ [Next]_vars => [Service!Next]_(Service!vars)
<1> SUFFICES ASSUME IInv, CallsOK, [Next]_vars
             PROVE  [Service!Next]_(Service!vars)
  OBVIOUS
<1>1. ASSUME UNCHANGED <<Records, Working>> PROVE UNCHANGED Service!vars
  BY <1>1 DEF Service!vars, Records, Working
<1>2. CASE \/ \E c \in Calls : OrphanExits(c) \/ RecordAges(c)
           \/ FetchAges
           \/ UNCHANGED vars
  BY <1>1, <1>2, RecordsStill
<1>3. CASE Restart
  BY <1>3, RestartForgets
<1>4. ASSUME NEW c \in Calls, Advance(c) PROVE Service!Next
  <2>1. Recording(c)
    BY <1>4, EntryRecords, SetupRecords, AbandonRecords, RunRecords, CleanupRecords DEF Advance
  <2>2. OwnRecord(c)
    BY <1>4, EntryOwn, SetupOwn, AbandonOwn, RunOwn, CleanupOwn DEF Advance
  <2> QED
    BY <2>1, <2>2, OwnStep
<1>5. ASSUME NEW c \in Calls, NEW k \in Kinds,
             Refuse(c, k) \/ SubmitJob(c, k) \/ CallDirect(c, k) \/ OpenStream(c, k)
      PROVE  Service!Next
  <2>1. Recording(c)
    BY <1>5, ArrivalRecords
  <2>2. OwnRecord(c)
    BY <1>5, ArrivalOwn
  <2> QED
    BY <2>1, <2>2, OwnStep
<1>6. ASSUME NEW c \in Calls,
             \/ DisconnectReserved(c) \/ DisconnectWaiting(c)
             \/ DisconnectGranted(c) \/ DisconnectActive(c)
      PROVE  Service!Next
  <2>1. Recording(c)
    BY <1>6, DisconnectRecords
  <2>2. OwnRecord(c)
    BY <1>6, DisconnectOwn
  <2> QED
    BY <2>1, <2>2, OwnStep
<1> QED
  BY <1>2, <1>3, <1>4, <1>5, <1>6 DEF Next, Environment

(***************************************************************************)
(* The registry keeps its contract with the loops that poll it: a job that *)
(* was accepted is on record until it has a verdict, the verdict stays     *)
(* until it is forgotten, nothing comes back after a restart, and no agent *)
(* works for a job whose record says otherwise (main.py:389-411, 593-619, *)
(* 646-648).                                                               *)
(***************************************************************************)
THEOREM RunnerKeepsService == Spec => ServiceSpec
<1>1. Init => Service!Init
  BY ServiceInit
<1>2. IInv /\ CallsOK /\ [Next]_vars => [Service!Next]_(Service!vars)
  BY ServiceStep
<1> QED
  BY <1>1, <1>2, CallsAlwaysOK, PTL DEF Spec, ServiceSpec, Service!Spec
=============================================================================
