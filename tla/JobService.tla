----------------------------- MODULE JobService -----------------------------
(***************************************************************************)
(* The contract between the service that runs jobs and the loops that have *)
(* jobs run: what POST /execute and GET /jobs/{id} promise, whatever the   *)
(* permits, the checkouts and the coroutines behind them do.  A job that   *)
(* was accepted is on record until it has a verdict; the verdict stays     *)
(* until the record is forgotten; a new pod remembers nothing; and an      *)
(* agent works only for a job that is on record as live, so that who reads *)
(* a verdict, or nothing, need not expect anything more of that run.       *)
(*                                                                         *)
(* JobRunner implements this specification.  FixerLoop and TvLoop, which   *)
(* see of the service a status for each job, take steps of it.             *)
(***************************************************************************)
CONSTANTS
  Jobs,     \* the jobs that may be submitted, each once
  Verdicts  \* how a job may end

VARIABLES
  record,   \* "unused" before the submission, "live", a verdict, or "gone"
  working   \* jobs whose agent is at work

vars == <<record, working>>

Ended == {j \in Jobs : record[j] \in Verdicts}

Init == record = [j \in Jobs |-> "unused"] /\ working = {}

Accept(j) ==
  /\ record[j] = "unused"
  /\ record' = [record EXCEPT ![j] = "live"]
  /\ working' \in {working, working \cup {j}}

Launch(j) ==
  /\ record[j] = "live"
  /\ working' = working \cup {j}
  /\ UNCHANGED record

(* Records that are old are forgotten. *)
Without(old, r) == [j \in Jobs |-> IF j \in old THEN "gone" ELSE r[j]]

(* A job ends, and what is old is forgotten on the occasion. *)
End(j, verdict, old) ==
  /\ record[j] = "live"
  /\ record' = Without(old, [record EXCEPT ![j] = verdict])
  /\ working' = working \ {j}

Forget(old) == record' = Without(old, record) /\ UNCHANGED working

(* The process that holds the records is replaced, and its children with it. *)
Replace ==
  /\ record' = [j \in Jobs |-> IF record[j] = "unused" THEN "unused" ELSE "gone"]
  /\ working' = {}

Next ==
  \/ \E j \in Jobs : Accept(j) \/ Launch(j)
  \/ \E old \in SUBSET Ended :
       Forget(old) \/ \E j \in Jobs, verdict \in Verdicts : End(j, verdict, old)
  \/ Replace

Spec == Init /\ [][Next]_vars
=============================================================================
