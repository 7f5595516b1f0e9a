---------------------------- MODULE IntakeProofs ----------------------------
(***************************************************************************)
(* Safety of the report intake for any jobs, reports and pod replacements: *)
(* the inductive invariant IInv, and from it that no process outlives its  *)
(* job, that records fit what the jobs do, and that a retry is safe.       *)
(***************************************************************************)
EXTENDS Intake, SequenceTheorems, TLAPS

Members(l) == {l[n] : n \in 1..Len(l)}
Distinct(l) == \A m, n \in 1..Len(l) : l[m] = l[n] => m = n

(* The line holds the jobs that wait or work, each once. *)
LineOK == Distinct(line) /\ Members(line) = {j \in Jobs : Unfinished(j)}

(* A job past the semaphore has the permit and its directory. *)
SlotOK == \A j \in Jobs : phase[j] \in WorkPhases => HasSlot(j) /\ j \in trees

(* A process lives while its output is read; a killed one is waited for, or *)
(* was left behind.                                                         *)
ChildOK ==
  \A j \in Jobs :
    /\ child[j] = "alive" => phase[j] \in {"cloning", "running"}
    /\ child[j] = "killed" => phase[j] \in {"reaping", "cutting", "left"}

(* Only a verdict grows old. *)
OldOK == \A j \in old : record[j] \in Verdicts

IInv == TypeOK /\ LineOK /\ SlotOK /\ ChildOK /\ OldOK /\ RecordsFit /\ RetryIsSafe

-----------------------------------------------------------------------------
(* The line. *)

LEMMA TailFacts ==
  ASSUME NEW l \in Seq(Jobs), l # <<>>, Distinct(l)
  PROVE  /\ Tail(l) \in Seq(Jobs) /\ Distinct(Tail(l))
         /\ Members(Tail(l)) = Members(l) \ {Head(l)}
<1>1. /\ Tail(l) \in Seq(Jobs) /\ Len(l) \in Nat \ {0} /\ Len(Tail(l)) = Len(l) - 1
      /\ \A n \in 1..Len(Tail(l)) : Tail(l)[n] = l[n + 1]
      /\ Head(l) = l[1]
  BY HeadTailProperties, LenProperties, EmptySeq
<1>2. Distinct(Tail(l))
  BY <1>1 DEF Distinct
<1>3. ASSUME NEW x \in Members(Tail(l)) PROVE x \in Members(l) \ {Head(l)}
  <2>1. PICK n \in 1..Len(Tail(l)) : x = Tail(l)[n]
    BY DEF Members
  <2>2. n + 1 \in 1..Len(l) /\ 1 \in 1..Len(l) /\ x = l[n + 1] /\ n + 1 # 1
    BY <1>1, <2>1
  <2> QED
    BY <1>1, <2>2 DEF Members, Distinct
<1>4. ASSUME NEW x \in Members(l) \ {Head(l)} PROVE x \in Members(Tail(l))
  <2>1. PICK n \in 1..Len(l) : x = l[n]
    BY DEF Members
  <2>2. n # 1
    BY <1>1, <2>1
  <2>3. n - 1 \in 1..Len(Tail(l)) /\ Tail(l)[n - 1] = l[(n - 1) + 1] /\ (n - 1) + 1 = n
    BY <1>1, <2>2
  <2> QED
    BY <2>1, <2>3 DEF Members
<1> QED
  BY <1>1, <1>2, <1>3, <1>4

LEMMA AppendFacts ==
  ASSUME NEW l \in Seq(Jobs), Distinct(l), NEW j \in Jobs, j \notin Members(l)
  PROVE  /\ Append(l, j) \in Seq(Jobs) /\ Distinct(Append(l, j))
         /\ Members(Append(l, j)) = Members(l) \cup {j}
         /\ Append(l, j) # <<>>
         /\ l # <<>> => Head(Append(l, j)) = Head(l)
<1>1. /\ Append(l, j) \in Seq(Jobs) /\ Len(l) \in Nat /\ Len(Append(l, j)) = Len(l) + 1
      /\ \A n \in 1..Len(l) : Append(l, j)[n] = l[n]
      /\ Append(l, j)[Len(l) + 1] = j
  BY AppendProperties, LenProperties
<1>2. \A n \in 1..Len(l) : l[n] # j
  BY DEF Members
<1>3. \A n \in 1..Len(Append(l, j)) : n \in 1..Len(l) \/ n = Len(l) + 1
  BY <1>1
<1>4. Distinct(Append(l, j))
  BY <1>1, <1>2, <1>3 DEF Distinct
<1>5. 1..Len(l) \subseteq 1..Len(Append(l, j)) /\ Len(l) + 1 \in 1..Len(Append(l, j))
  BY <1>1
<1>6. Members(Append(l, j)) = Members(l) \cup {j}
  BY <1>1, <1>3, <1>5 DEF Members
<1>7. Append(l, j) # <<>> /\ (l # <<>> => Head(Append(l, j)) = Head(l))
  BY AppendProperties, HeadTailProperties, EmptySeq, <1>1
<1> QED
  BY <1>1, <1>4, <1>6, <1>7

(* Whoever is in the line has a line; the head is in it. *)
LEMMA LineFacts ==
  ASSUME NEW l \in Seq(Jobs)
  PROVE  /\ Members(l) # {} => l # <<>>
         /\ l # <<>> => Head(l) \in Members(l) /\ Members(l) \subseteq Jobs
<1>1. Len(l) \in Nat /\ (l # <<>> => Len(l) > 0 /\ Head(l) = l[1])
  BY HeadTailProperties, LenProperties, EmptySeq
<1>2. l = <<>> => Len(l) = 0
  BY EmptySeq
<1>3. \A n \in 1..Len(l) : l[n] \in Jobs
  BY ElementOfSeq
<1> QED
  BY <1>1, <1>2, <1>3 DEF Members

-----------------------------------------------------------------------------
(* The shapes of a job's steps. *)

(* A working job goes on, with its process. *)
LEMMA WorkStep ==
  ASSUME IInv, NEW j \in Jobs, phase[j] \in WorkPhases,
         NEW p \in WorkPhases, NEW c \in {"none", "alive", "killed"},
         c = "alive" => p \in {"cloning", "running"},
         c = "killed" => p \in {"reaping", "cutting"},
         phase' = [phase EXCEPT ![j] = p], child' = [child EXCEPT ![j] = c],
         UNCHANGED <<line, trees, record, old, jobOf, restarts>>
  PROVE  IInv'
<1>1. TypeOK'
  BY DEF IInv, TypeOK, Phases
<1>2. \A k \in Jobs : Unfinished(k)' <=> Unfinished(k)
  BY DEF IInv, TypeOK, Unfinished
<1>3. LineOK'
  BY <1>2 DEF IInv, LineOK
<1>4. SlotOK' /\ ChildOK' /\ OldOK'
  BY DEF IInv, TypeOK, SlotOK, HasSlot, ChildOK, OldOK
<1>5. RecordsFit'
  BY <1>2 DEF IInv, TypeOK, RecordsFit, Unfinished, WorkPhases
<1>6. RetryIsSafe'
  BY <1>2 DEF IInv, RetryIsSafe
<1> QED
  BY <1>1, <1>3, <1>4, <1>5, <1>6 DEF IInv

(* A job at the head of the line ends with record v, and leaves no process  *)
(* but a killed git.                                                        *)
LEMMA EndStep ==
  ASSUME IInv, NEW j \in Jobs, Unfinished(j), HasSlot(j),
         NEW p \in {"over", "left", "crashed"}, NEW v \in Verdicts \cup {"running"},
         NEW c \in {"none", "alive", "killed"},
         v = "running" <=> p = "crashed",
         c = "none" \/ (c = "killed" /\ p = "left"),
         phase' = [phase EXCEPT ![j] = p], child' = [child EXCEPT ![j] = c],
         record' = [record EXCEPT ![j] = v],
         trees' = trees \ {j}, line' = Tail(line),
         UNCHANGED <<old, jobOf, restarts>>
  PROVE  IInv'
<1>1. /\ Tail(line) \in Seq(Jobs) /\ Distinct(Tail(line))
      /\ Members(Tail(line)) = Members(line) \ {j}
  BY TailFacts DEF IInv, TypeOK, LineOK, HasSlot
<1>2. TypeOK'
  BY <1>1 DEF IInv, TypeOK, Phases, EndPhases
<1>3. \A k \in Jobs : Unfinished(k)' <=> Unfinished(k) /\ k # j
  BY DEF IInv, TypeOK, Unfinished, WorkPhases
<1>4. LineOK'
  BY <1>1, <1>3 DEF IInv, LineOK
<1>5. \A k \in Jobs : phase'[k] \notin WorkPhases
  BY DEF IInv, TypeOK, SlotOK, HasSlot, WorkPhases
<1>6. SlotOK' /\ ChildOK'
  BY <1>5 DEF IInv, TypeOK, SlotOK, ChildOK
<1>7. record[j] = "running" /\ j \notin old
  BY DEF IInv, RecordsFit, OldOK, Verdicts
<1>8. OldOK'
  BY <1>7 DEF IInv, TypeOK, OldOK
<1>9. RecordsFit'
  BY <1>3 DEF IInv, TypeOK, RecordsFit, Unfinished, WorkPhases
<1>10. RetryIsSafe'
  BY <1>3 DEF IInv, RetryIsSafe
<1> QED
  BY <1>2, <1>4, <1>6, <1>8, <1>9, <1>10 DEF IInv

(* Conclude, after any of the ways a run ends. *)
LEMMA ConcludeStep ==
  ASSUME IInv, NEW j \in Jobs, phase[j] \in WorkPhases,
         NEW v \in Verdicts, NEW p \in {"over", "left"}, Conclude(j, v, p),
         \/ child' = [child EXCEPT ![j] = "none"]
         \/ child[j] = "none" /\ UNCHANGED child
         \/ child[j] = "killed" /\ p = "left" /\ UNCHANGED child
  PROVE  IInv'
<1>1. Unfinished(j) /\ HasSlot(j)
  BY DEF IInv, SlotOK, Unfinished
<1>2. /\ phase' = [phase EXCEPT ![j] = p] /\ record' = [record EXCEPT ![j] = v]
      /\ trees' = trees \ {j} /\ line' = Tail(line) /\ UNCHANGED <<old, jobOf, restarts>>
  BY DEF Conclude, Goto
<1>3. v # "running" /\ p # "crashed"
  BY DEF Verdicts
<1>4. child \in [Jobs -> {"none", "alive", "killed"}]
  BY DEF IInv, TypeOK
<1>5. PICK c \in {"none", "killed"} : child' = [child EXCEPT ![j] = c] /\ (c = "killed" => p = "left")
  BY <1>4
<1>6. /\ v \in Verdicts \cup {"running"} /\ p \in {"over", "left", "crashed"}
      /\ c \in {"none", "alive", "killed"} /\ (v = "running" <=> p = "crashed")
      /\ c = "none" \/ (c = "killed" /\ p = "left")
  BY <1>3, <1>5
<1>7. child' = [child EXCEPT ![j] = c]
  BY <1>5
<1> QED
  BY <1>1, <1>2, <1>6, <1>7, EndStep

(* Records expire, or grow old: nothing else changes. *)
LEMMA EvictionFits ==
  ASSUME IInv, NEW r, r = Evicted(record)
  PROVE  /\ r \in [Jobs -> Verdicts \cup {"absent", "running"}]
         /\ \A j \in Jobs : /\ Unfinished(j) => r[j] = "running"
                            /\ r[j] \in {record[j], "absent"}
<1>1. \A j \in Jobs : r[j] = IF j \in old THEN "absent" ELSE record[j]
  BY DEF Evicted
<1>2. \A j \in Jobs : Unfinished(j) => j \notin old
  BY DEF IInv, RecordsFit, OldOK, Verdicts
<1>3. r \in [Jobs -> Verdicts \cup {"absent", "running"}]
  BY DEF IInv, TypeOK, Evicted
<1> QED
  BY <1>1, <1>2, <1>3 DEF IInv, RecordsFit

-----------------------------------------------------------------------------
(* Initiation and consecution. *)

LEMMA InitOK == Init => IInv
<1> SUFFICES ASSUME Init PROVE IInv
  OBVIOUS
<1>1. Members(<<>>) = {} /\ Distinct(<<>>) /\ <<>> \in Seq(Jobs)
  BY DEF Members, Distinct
<1>2. TypeOK
  BY <1>1, IntakeAssumption DEF Init, TypeOK, Phases
<1>3. \A j \in Jobs : ~Unfinished(j) /\ phase[j] = "idle"
  BY DEF Init, Unfinished, WorkPhases
<1> QED
  BY <1>1, <1>2, <1>3 DEF Init, IInv, LineOK, SlotOK, ChildOK, OldOK, RecordsFit, RetryIsSafe, WorkPhases

(* A new job joins the line, for a report whose last job is not on record.  *)
LEMMA SubmitOK ==
  ASSUME IInv, NEW r \in Reports, NEW j \in Jobs, Submit(r, j)
  PROVE  IInv'
<1>0. j \notin Members(line)
  BY DEF IInv, LineOK, Submit, Unfinished, WorkPhases
<1>1. /\ Append(line, j) \in Seq(Jobs) /\ Distinct(Append(line, j))
      /\ Members(Append(line, j)) = Members(line) \cup {j}
      /\ Append(line, j) # <<>> /\ (line # <<>> => Head(Append(line, j)) = Head(line))
  BY <1>0, AppendFacts DEF IInv, TypeOK, LineOK
<1>2. /\ Evicted(record) \in [Jobs -> Verdicts \cup {"absent", "running"}]
      /\ \A k \in Jobs : /\ Unfinished(k) => Evicted(record)[k] = "running"
                         /\ Evicted(record)[k] \in {record[k], "absent"}
  BY EvictionFits
<1>3. /\ phase' = [phase EXCEPT ![j] = "queued"] /\ line' = Append(line, j)
      /\ record' = [Evicted(record) EXCEPT ![j] = "running"] /\ old' = {}
      /\ jobOf' = [jobOf EXCEPT ![r] = j]
      /\ UNCHANGED <<child, trees, restarts>> /\ phase[j] = "idle"
  BY DEF Submit, Goto
<1>4. TypeOK'
  BY <1>1, <1>2, <1>3 DEF IInv, TypeOK, Phases
<1>5. \A k \in Jobs : Unfinished(k)' <=> Unfinished(k) \/ k = j
  BY <1>3 DEF IInv, TypeOK, Unfinished, WorkPhases
<1>6. LineOK'
  BY <1>1, <1>3, <1>5 DEF IInv, LineOK
<1>7. SlotOK' /\ ChildOK' /\ OldOK'
  BY <1>1, <1>3 DEF IInv, TypeOK, SlotOK, HasSlot, ChildOK, OldOK, WorkPhases
<1>8. RecordsFit'
  BY <1>2, <1>3, <1>5 DEF IInv, TypeOK, RecordsFit, Unfinished, WorkPhases
<1>9. ASSUME NEW k \in Jobs, Unfinished(k)' PROVE \E q \in Reports : jobOf'[q] = k
  <2>1. CASE k = j
    BY <1>3, <2>1 DEF IInv, TypeOK
  <2>2. CASE k # j
    <3>1. Unfinished(k)
      BY <1>5, <1>9, <2>2
    <3>2. PICK q \in Reports : jobOf[q] = k
      BY <3>1 DEF IInv, RetryIsSafe
    <3>3. k # NoJob
      BY IntakeAssumption
    <3>4. q # r
      BY <1>2, <3>1, <3>2, <3>3 DEF Submit
    <3> QED
      BY <1>3, <3>2, <3>4 DEF IInv, TypeOK
  <2> QED
    BY <2>1, <2>2
<1> QED
  BY <1>4, <1>6, <1>7, <1>8, <1>9 DEF IInv, RetryIsSafe

LEMMA PollOK ==
  ASSUME IInv, Poll
  PROVE  IInv'
<1>1. /\ record' \in [Jobs -> Verdicts \cup {"absent", "running"}]
      /\ \A k \in Jobs : /\ Unfinished(k) => record'[k] = "running"
                         /\ record'[k] \in {record[k], "absent"}
  BY EvictionFits DEF Poll
<1>2. old' = {} /\ UNCHANGED <<phase, line, child, trees, jobOf, restarts>>
  BY DEF Poll
<1>3. \A k \in Jobs : Unfinished(k)' <=> Unfinished(k)
  BY <1>2 DEF Unfinished
<1>4. TypeOK' /\ LineOK' /\ SlotOK' /\ ChildOK' /\ OldOK' /\ RetryIsSafe'
  BY <1>1, <1>2, <1>3 DEF IInv, TypeOK, LineOK, SlotOK, HasSlot, ChildOK, OldOK, RetryIsSafe
<1>5. RecordsFit'
  BY <1>1, <1>2, <1>3 DEF IInv, TypeOK, RecordsFit
<1> QED
  BY <1>4, <1>5 DEF IInv

LEMMA RecordAgesOK ==
  ASSUME IInv, NEW j \in Jobs, RecordAges(j)
  PROVE  IInv'
<1>1. /\ old' = old \cup {j} /\ record[j] \in Verdicts
      /\ UNCHANGED <<phase, line, child, trees, record, jobOf, restarts>>
  BY DEF RecordAges
<1>2. \A k \in Jobs : Unfinished(k)' <=> Unfinished(k)
  BY <1>1 DEF Unfinished
<1> QED
  BY <1>1, <1>2 DEF IInv, TypeOK, LineOK, SlotOK, HasSlot, ChildOK, OldOK, RecordsFit, RetryIsSafe

LEMMA BeginOK ==
  ASSUME IInv, NEW j \in Jobs, Begin(j)
  PROVE  IInv'
<1>1. /\ phase[j] = "queued" /\ HasSlot(j) /\ phase' = [phase EXCEPT ![j] = "launchGit"]
      /\ trees' = trees \cup {j} /\ UNCHANGED <<line, child, record, old, jobOf, restarts>>
  BY DEF Begin, Goto
<1>2. \A k \in Jobs : Unfinished(k)' <=> Unfinished(k)
  BY <1>1 DEF IInv, TypeOK, Unfinished, WorkPhases
<1>3. TypeOK' /\ LineOK' /\ OldOK' /\ RetryIsSafe'
  BY <1>1, <1>2 DEF IInv, TypeOK, LineOK, OldOK, RetryIsSafe, Phases, WorkPhases
<1>4. SlotOK' /\ ChildOK'
  BY <1>1 DEF IInv, TypeOK, SlotOK, HasSlot, ChildOK
<1>5. RecordsFit'
  BY <1>1, <1>2 DEF IInv, TypeOK, RecordsFit, Unfinished, WorkPhases
<1> QED
  BY <1>3, <1>4, <1>5 DEF IInv

LEMMA BeginFailsOK ==
  ASSUME IInv, NEW j \in Jobs, BeginFails(j)
  PROVE  IInv'
<1>1. /\ phase[j] = "queued" /\ HasSlot(j) /\ phase' = [phase EXCEPT ![j] = "crashed"]
      /\ line' = Tail(line) /\ UNCHANGED <<child, trees, record, old, jobOf, restarts>>
  BY DEF BeginFails, Goto
<1>2. Unfinished(j) /\ j \notin old
  BY <1>1 DEF IInv, RecordsFit, OldOK, Unfinished, Verdicts
<1>3. /\ Tail(line) \in Seq(Jobs) /\ Distinct(Tail(line))
      /\ Members(Tail(line)) = Members(line) \ {j}
  BY <1>1, TailFacts DEF IInv, TypeOK, LineOK, HasSlot
<1>4. TypeOK'
  BY <1>1, <1>3 DEF IInv, TypeOK, Phases, EndPhases
<1>5. \A k \in Jobs : Unfinished(k)' <=> Unfinished(k) /\ k # j
  BY <1>1 DEF IInv, TypeOK, Unfinished, WorkPhases
<1>6. LineOK'
  BY <1>1, <1>3, <1>5 DEF IInv, LineOK
<1>7. \A k \in Jobs : phase'[k] \notin WorkPhases
  BY <1>1 DEF IInv, TypeOK, SlotOK, HasSlot, WorkPhases
<1>8. SlotOK' /\ ChildOK' /\ OldOK'
  BY <1>1, <1>7 DEF IInv, TypeOK, SlotOK, ChildOK, OldOK
<1>9. RecordsFit' /\ RetryIsSafe'
  BY <1>1, <1>2, <1>5 DEF IInv, TypeOK, RecordsFit, RetryIsSafe, Unfinished, WorkPhases
<1> QED
  BY <1>4, <1>6, <1>8, <1>9 DEF IInv

(* A killed git that was left behind, or one still waited for, dies. *)
LEMMA ChildDiesOK ==
  ASSUME IInv, NEW j \in Jobs, ChildDies(j)
  PROVE  IInv'
<1>1. child' = [child EXCEPT ![j] = "none"] /\ UNCHANGED <<phase, line, trees, record, old, jobOf, restarts>>
  BY DEF ChildDies
<1>2. \A k \in Jobs : Unfinished(k)' <=> Unfinished(k)
  BY <1>1 DEF Unfinished
<1> QED
  BY <1>1, <1>2 DEF IInv, TypeOK, LineOK, SlotOK, HasSlot, ChildOK, OldOK, RecordsFit, RetryIsSafe

(* The pod is replaced: no job waits or works. *)
LEMMA RestartOK ==
  ASSUME IInv, Restart
  PROVE  IInv'
<1>1. Members(<<>>) = {} /\ Distinct(<<>>) /\ <<>> \in Seq(Jobs)
  BY DEF Members, Distinct
<1>2. \A k \in Jobs : ~Unfinished(k)' /\ phase'[k] \notin WorkPhases
  BY DEF Restart, IInv, TypeOK, Unfinished, WorkPhases
<1>3. TypeOK'
  BY <1>1, IntakeAssumption DEF Restart, IInv, TypeOK, Phases, EndPhases
<1>4. LineOK' /\ SlotOK'
  BY <1>1, <1>2 DEF Restart, LineOK, SlotOK
<1>5. ChildOK' /\ OldOK' /\ RecordsFit' /\ RetryIsSafe'
  BY <1>2 DEF Restart, ChildOK, OldOK, RecordsFit, RetryIsSafe
<1> QED
  BY <1>3, <1>4, <1>5 DEF IInv

(* The steps of a job that works. *)
LEMMA LaunchOK ==
  ASSUME IInv, NEW j \in Jobs, LaunchGit(j) \/ LaunchAgent(j)
  PROVE  IInv'
<1>1. PICK p \in {"cloning", "running"} :
        /\ phase[j] \in WorkPhases /\ phase' = [phase EXCEPT ![j] = p]
        /\ child' = [child EXCEPT ![j] = "alive"]
        /\ UNCHANGED <<line, trees, record, old, jobOf, restarts>>
  BY DEF LaunchGit, LaunchAgent, Launch, Goto, WorkPhases
<1>2. p \in WorkPhases
  BY DEF WorkPhases
<1> QED
  BY <1>1, <1>2, WorkStep

LEMMA KillOK ==
  ASSUME IInv, NEW j \in Jobs, CloneTimesOut(j) \/ RunTimesOut(j)
  PROVE  IInv'
<1>1. PICK p \in {"reaping", "cutting"} :
        /\ phase[j] \in WorkPhases /\ phase' = [phase EXCEPT ![j] = p]
        /\ child' = [child EXCEPT ![j] = IF child[j] = "alive" THEN "killed" ELSE child[j]]
        /\ UNCHANGED <<line, trees, record, old, jobOf, restarts>>
  BY DEF CloneTimesOut, RunTimesOut, Kill, Goto, WorkPhases
<1>2. child[j] \in {"none", "alive", "killed"}
  BY DEF IInv, TypeOK
<1>3. PICK c \in {"none", "killed"} : child' = [child EXCEPT ![j] = c]
  BY <1>1, <1>2
<1>4. p \in WorkPhases
  BY DEF WorkPhases
<1> QED
  BY <1>1, <1>3, <1>4, WorkStep

LEMMA CloneEndsOK ==
  ASSUME IInv, NEW j \in Jobs, CloneEnds(j)
  PROVE  IInv'
<1>1. /\ phase[j] \in WorkPhases /\ phase' = [phase EXCEPT ![j] = "launchAgent"]
      /\ child' = [child EXCEPT ![j] = "none"]
      /\ UNCHANGED <<line, trees, record, old, jobOf, restarts>> /\ "launchAgent" \in WorkPhases
  BY DEF CloneEnds, Goto, WorkPhases
<1> QED
  BY <1>1, WorkStep

LEMMA ConcludedOK ==
  ASSUME IInv, NEW j \in Jobs,
         CloneFails(j) \/ PrepareFails(j) \/ LaunchFails(j) \/ AgentEnds(j) \/ ReapTimesOut(j) \/ Cut(j)
  PROVE  IInv'
<1>1. phase[j] \in WorkPhases
  BY DEF CloneFails, PrepareFails, LaunchFails, AgentEnds, ReapTimesOut, Cut, WorkPhases
<1>2. {"failed", "timeout", "completed"} = Verdicts
  BY DEF Verdicts
<1>3. CASE CloneFails(j) \/ PrepareFails(j)
  <2>1. Conclude(j, "failed", "over") /\ child' = [child EXCEPT ![j] = "none"]
    BY <1>3 DEF CloneFails, PrepareFails
  <2> QED
    BY <1>1, <1>2, <2>1, ConcludeStep
<1>4. CASE LaunchFails(j)
  <2>1. child[j] = "none"
    BY <1>4 DEF IInv, TypeOK, ChildOK, LaunchFails
  <2>2. Conclude(j, "failed", "over") /\ UNCHANGED child
    BY <1>4 DEF LaunchFails
  <2> QED
    BY <1>1, <1>2, <2>1, <2>2, ConcludeStep
<1>5. CASE AgentEnds(j)
  <2>1. child' = [child EXCEPT ![j] = "none"]
    BY <1>5 DEF AgentEnds
  <2>2. PICK output \in {"result", "error", "unreadable"}, exit \in {0, 1} :
          Conclude(j, Outcome(output, exit), "over")
    BY <1>5 DEF AgentEnds
  <2>3. PICK v \in Verdicts : v = Outcome(output, exit)
    BY <1>2 DEF Outcome
  <2>4. Conclude(j, v, "over")
    BY <2>2, <2>3
  <2> QED
    BY <1>1, <2>1, <2>4, ConcludeStep
<1>6. CASE ReapTimesOut(j)
  <2>1. Conclude(j, "timeout", "left") /\ child[j] = "killed" /\ UNCHANGED child
    BY <1>6 DEF ReapTimesOut
  <2> QED
    BY <1>1, <1>2, <2>1, ConcludeStep
<1>7. CASE Cut(j)
  <2>1. Conclude(j, "timeout", "over") /\ child[j] = "none" /\ UNCHANGED child
    BY <1>7 DEF Cut
  <2> QED
    BY <1>1, <1>2, <2>1, ConcludeStep
<1> QED
  BY <1>3, <1>4, <1>5, <1>6, <1>7

LEMMA NextOK == IInv /\ [Next]_vars => IInv'
<1> SUFFICES ASSUME IInv, [Next]_vars PROVE IInv'
  OBVIOUS
<1>1. CASE UNCHANGED vars
  <2>1. \A k \in Jobs : Unfinished(k)' <=> Unfinished(k)
    BY <1>1 DEF vars, Unfinished
  <2> QED
    BY <1>1, <2>1 DEF vars, IInv, TypeOK, LineOK, SlotOK, HasSlot, ChildOK, OldOK, RecordsFit, RetryIsSafe
<1>2. CASE Poll \/ Restart
  BY <1>2, PollOK, RestartOK
<1>3. CASE \E j \in Jobs : Advance(j) \/ RecordAges(j) \/ \E r \in Reports : Submit(r, j)
  <2>1. PICK j \in Jobs : Advance(j) \/ RecordAges(j) \/ \E r \in Reports : Submit(r, j)
    BY <1>3
  <2>2. CASE RecordAges(j) \/ \E r \in Reports : Submit(r, j)
    BY <2>2, RecordAgesOK, SubmitOK
  <2>3. CASE Advance(j)
    BY <2>3, BeginOK, BeginFailsOK, LaunchOK, KillOK, CloneEndsOK, ConcludedOK, ChildDiesOK DEF Advance
  <2> QED
    BY <2>1, <2>2, <2>3
<1> QED
  BY <1>1, <1>2, <1>3 DEF Next

-----------------------------------------------------------------------------
(* The theorems. *)

(* The inductive invariant: the line, the processes and the records of the  *)
(* intake fit together, for any jobs and reports.                           *)
THEOREM IntakeInvariant == Spec => []IInv
BY InitOK, NextOK, PTL DEF Spec

(* Every variable keeps its type. *)
THEOREM IntakeTyped == Spec => []TypeOK
<1>1. IInv => TypeOK
  BY DEF IInv
<1> QED
  BY IntakeInvariant, <1>1, PTL

(* One run at a time, and no child outlives its job, but a killed git that  *)
(* does not die before the second timeout.                                  *)
THEOREM ChildrenEndFirst == Spec => []NoChildOutlives
<1>1. IInv => NoChildOutlives
  BY DEF IInv, TypeOK, SlotOK, ChildOK, NoChildOutlives, WorkPhases
<1> QED
  BY IntakeInvariant, <1>1, PTL

(* The record of every job fits what it does. *)
THEOREM RecordsAlwaysFit == Spec => []RecordsFit
<1>1. IInv => RecordsFit
  BY DEF IInv
<1> QED
  BY IntakeInvariant, <1>1, PTL

(* A report never has two jobs that wait or work. *)
THEOREM RetriesAreSafe == Spec => []RetryIsSafe
<1>1. IInv => RetryIsSafe
  BY DEF IInv
<1> QED
  BY IntakeInvariant, <1>1, PTL
=============================================================================
