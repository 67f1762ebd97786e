---------------------------- MODULE JobLifecycle ----------------------------
(***************************************************************************)
(* What the pipeline promises about each analysis job, without its         *)
(* handlers, workers and locks: a job is started at most once, and a       *)
(* started job is reported on at most once, by the one commit that also    *)
(* sets its status and, for a success, stores its results.  Two things may *)
(* still happen to it then: a cancel decided while it was queued relabels  *)
(* it, and deleting its project removes it for good.                       *)
(***************************************************************************)
CONSTANT Jobs

VARIABLES
  status,    \* the status users see
  started,   \* a worker has started the job
  results,   \* the jobs with stored results
  notices    \* what the job's owner has been told about it

vars == <<status, started, results, notices>>

Stored == {"queued", "running", "succeeded", "failed", "cancelled"}

\* The status a report goes with.
StatusOf == [complete |-> "succeeded", failed |-> "failed", cancelled |-> "cancelled"]

Init ==
  /\ status = [j \in Jobs |-> "none"]
  /\ started = [j \in Jobs |-> FALSE]
  /\ results = {}
  /\ notices = [j \in Jobs |-> {}]

Enqueue(j) ==
  /\ status[j] = "none"
  /\ status' = [status EXCEPT ![j] = "queued"]
  /\ UNCHANGED <<started, results, notices>>

Start(j) ==
  /\ status[j] = "queued"
  /\ ~started[j]
  /\ status' = [status EXCEPT ![j] = "running"]
  /\ started' = [started EXCEPT ![j] = TRUE]
  /\ UNCHANGED <<results, notices>>

\* The worker's report; a cancel may have relabelled the job first.
Report(j, kind) ==
  /\ started[j]
  /\ status[j] \in {"running", "cancelled"}
  /\ notices[j] = {}
  /\ status' = [status EXCEPT ![j] = StatusOf[kind]]
  /\ notices' = [notices EXCEPT ![j] = {kind}]
  /\ results' = IF kind = "complete" THEN results \cup {j} ELSE results
  /\ UNCHANGED started

\* A cancel that had read the job as queued.
Relabel(j) ==
  /\ status[j] \in Stored
  /\ status' = [status EXCEPT ![j] = "cancelled"]
  /\ UNCHANGED <<started, results, notices>>

\* A project's deletion takes all its jobs and their results.
Remove(S) ==
  /\ \A j \in S : status[j] \in Stored
  /\ status' = [j \in Jobs |-> IF j \in S THEN "deleted" ELSE status[j]]
  /\ results' = results \ S
  /\ UNCHANGED <<started, notices>>

Next ==
  \/ \E j \in Jobs :
       \/ Enqueue(j)
       \/ Start(j)
       \/ \E kind \in DOMAIN StatusOf : Report(j, kind)
       \/ Relabel(j)
  \/ \E S \in SUBSET Jobs : Remove(S)

Spec == Init /\ [][Next]_vars
=============================================================================
