-------------------------- MODULE AdmissionControl --------------------------
(***************************************************************************)
(* What the job runner of app/main.py promises its callers, without its    *)
(* semaphore, its counters or its coroutines: at most Capacity calls run,  *)
(* at most Depth calls are in the system, a call that cannot run yet waits *)
(* in arrival order, and a permit never lies idle while somebody waits.    *)
(* JobRunner implements this specification.                                *)
(***************************************************************************)
EXTENDS Naturals, Sequences, FiniteSets

CONSTANTS
  Calls,     \* the callers
  Capacity,  \* permits, a positive number
  Depth      \* room for running and waiting calls together

VARIABLES
  pending,  \* calls that were admitted and have not reached the line yet
  line,     \* calls waiting for a permit, first come first served
  running   \* calls that own a permit

vars == <<pending, line, running>>

Present == pending \cup {line[i] : i \in DOMAIN line} \cup running

Init == pending = {} /\ line = <<>> /\ running = {}

(* A call is let in while the system is below Depth. *)
HasRoom == Cardinality(Present) < Depth

MayRun == line = <<>> /\ Cardinality(running) < Capacity

Run(c) == MayRun /\ running' = running \cup {c} /\ line' = line
Wait(c) == ~MayRun /\ line' = Append(line, c) /\ running' = running

Admit(c) ==
  /\ c \notin Present
  /\ HasRoom
  /\ \/ pending' = pending \cup {c} /\ UNCHANGED <<line, running>>
     \/ pending' = pending /\ (Run(c) \/ Wait(c))

Join(c) ==
  /\ c \in pending
  /\ pending' = pending \ {c}
  /\ Run(c) \/ Wait(c)

(* The permit of a call that ends belongs to the head of the line at once. *)
Finish(c) ==
  /\ c \in running
  /\ \/ line = <<>> /\ running' = running \ {c} /\ line' = line
     \/ line # <<>> /\ running' = (running \ {c}) \cup {Head(line)} /\ line' = Tail(line)
  /\ UNCHANGED pending

Withdraw(c) ==
  /\ \E i \in DOMAIN line :
       line[i] = c /\ line' = SubSeq(line, 1, i - 1) \o SubSeq(line, i + 1, Len(line))
  /\ UNCHANGED <<pending, running>>

(* The process that holds this state is replaced. *)
Reset == pending' = {} /\ line' = <<>> /\ running' = {}

Next ==
  \/ \E c \in Calls : Admit(c) \/ Join(c) \/ Finish(c) \/ Withdraw(c)
  \/ Reset

Spec == Init /\ [][Next]_vars
=============================================================================
