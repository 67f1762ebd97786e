------------------------------ MODULE JobLease ------------------------------
(***************************************************************************)
(* What the queue of agent jobs promises about each job, without processes,*)
(* clocks and heartbeats: a job is claimed once; the process that claimed  *)
(* it reports on it at most once, and nobody else does.  A job may be      *)
(* given up as stalled while it is still held, and the late report of its  *)
(* holder then has the last word.  Deleting its project removes it.        *)
(***************************************************************************)
CONSTANT Jobs

VARIABLES
  status,    \* the status users see
  error,     \* why it failed: "none", "stalled" or "reported"
  progress,
  results,   \* the jobs with a result
  held       \* the jobs some process has claimed and not let go of

vars == <<status, error, progress, results, held>>

Stored == {"queued", "processing", "completed", "failed"}

Init ==
  /\ status = [j \in Jobs |-> "none"]
  /\ error = [j \in Jobs |-> "none"]
  /\ progress = [j \in Jobs |-> "zero"]
  /\ results = {}
  /\ held = {}

Enqueue(j) ==
  /\ status[j] = "none"
  /\ status' = [status EXCEPT ![j] = "queued"]
  /\ UNCHANGED <<error, progress, results, held>>

Claim(j) ==
  /\ status[j] = "queued" /\ j \notin held
  /\ status' = [status EXCEPT ![j] = "processing"]
  /\ held' = held \cup {j}
  /\ UNCHANGED <<error, progress, results>>

\* The holder reports while the row is there, given up or not.
Reports(j) == j \in held /\ status[j] \in {"processing", "failed"}

Advance(j) ==
  /\ Reports(j)
  /\ progress' = [progress EXCEPT ![j] = "partial"]
  /\ UNCHANGED <<status, error, results, held>>

Fail(j) ==
  /\ Reports(j)
  /\ status' = [status EXCEPT ![j] = "failed"]
  /\ error' = [error EXCEPT ![j] = "reported"]
  /\ held' = held \ {j}
  /\ UNCHANGED <<progress, results>>

Complete(j) ==
  /\ Reports(j)
  /\ status' = [status EXCEPT ![j] = "completed"]
  /\ progress' = [progress EXCEPT ![j] = "full"]
  /\ results' = results \cup {j}
  /\ held' = held \ {j}
  /\ UNCHANGED error

\* The holder dies, or finds its row deleted.
LetGo(j) ==
  /\ j \in held
  /\ held' = held \ {j}
  /\ UNCHANGED <<status, error, progress, results>>

\* Jobs nobody has heard of for too long.
GiveUp(S) ==
  /\ \A j \in S : status[j] = "processing"
  /\ status' = [j \in Jobs |-> IF j \in S THEN "failed" ELSE status[j]]
  /\ error' = [j \in Jobs |-> IF j \in S THEN "stalled" ELSE error[j]]
  /\ UNCHANGED <<progress, results, held>>

Remove(S) ==
  /\ \A j \in S : status[j] \in Stored
  /\ status' = [j \in Jobs |-> IF j \in S THEN "deleted" ELSE status[j]]
  /\ results' = results \ S
  /\ UNCHANGED <<error, progress, held>>

Next ==
  \/ \E j \in Jobs :
       Enqueue(j) \/ Claim(j) \/ Advance(j) \/ Fail(j) \/ Complete(j) \/ LetGo(j)
  \/ \E S \in SUBSET Jobs : GiveUp(S) \/ Remove(S)

Spec == Init /\ [][Next]_vars
=============================================================================
