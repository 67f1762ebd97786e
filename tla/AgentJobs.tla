------------------------------ MODULE AgentJobs ------------------------------
(***************************************************************************)
(* The queue of agent analysis jobs: worker processes that claim a job,    *)
(* keep its heartbeat fresh while the agents run, and fail jobs whose      *)
(* heartbeat has gone silent.  Time advances in ticks; a heartbeat loop    *)
(* sleeps its interval after each attempt, so that the next attempt comes  *)
(* later than the interval, and may fail to reach the database.  Every     *)
(* other action is one committed transaction.                              *)
(***************************************************************************)
EXTENDS Naturals, FiniteSets

CONSTANTS
  Jobs,          \* the agent_analysis_jobs rows ever created
  Workers,       \* worker processes; a restarted one has a new worker_id
  NoJob,
  NoWorker,
  BeatEvery,     \* DEFAULT_HEARTBEAT_INTERVAL_S, in ticks
  StaleAfter,    \* DEFAULT_HEARTBEAT_STALE_AFTER, in ticks
  MaxLate,       \* bound: ticks an attempt and a busy event loop add to an interval
  MaxMisses,     \* bound: heartbeats in a row that fail to reach the row
  MaxCrashes     \* bound: processes that die of their own accord

ASSUME AgentConstants ==
  /\ IsFiniteSet(Jobs)
  /\ NoJob \notin Jobs
  /\ NoWorker \notin Workers
  /\ BeatEvery \in Nat \ {0}
  /\ StaleAfter \in Nat
  /\ MaxLate \in Nat \ {0}
  /\ MaxMisses \in Nat
  /\ MaxCrashes \in Nat

VARIABLES
  status,    \* agent_analysis_jobs.status; "none" before, "deleted" after
  born,      \* created_at, as a rank
  owner,     \* worker_id
  silence,   \* ticks since heartbeat_at, as far as the cutoff tells apart
  error,     \* error_code: "none", "stalled" or "reported" by the worker
  progress,  \* progress_percent: 0, in between, 100
  results,   \* the jobs with a result
  wPc,       \* where each worker process is
  wJob,      \* the job its session holds
  wait,      \* ticks until its heartbeat loop's next attempt
  misses,    \* heartbeats it has missed in a row
  crashes

rowVars    == <<status, born, owner, silence, error, progress, results>>
workerVars == <<wPc, wJob, wait, misses, crashes>>
vars == <<rowVars, workerVars>>

Stored   == {"queued", "processing", "completed", "failed"}
WorkerPc == {"polling", "claiming", "running", "settling", "down"}

Exists(j) == status[j] \in Stored

\* The attempts of a heartbeat loop are an interval apart and a bit more.
LongestPeriod == BeatEvery + MaxLate
Periods == BeatEvery..LongestPeriod

\* Mutation: the query forgets the status.
StaleAnyStatus(j) == Exists(j) /\ silence[j] > StaleAfter

\* Silent for longer than the cutoff.
Stale(j) == status[j] = "processing" /\ silence[j] > StaleAfter

TypeOK ==
  /\ status \in [Jobs -> Stored \cup {"none", "deleted"}]
  /\ born \in [Jobs -> Nat]
  /\ owner \in [Jobs -> Workers \cup {NoWorker}]
  /\ silence \in [Jobs -> 0..(StaleAfter + 1)]
  /\ error \in [Jobs -> {"none", "stalled", "reported"}]
  /\ progress \in [Jobs -> {"zero", "partial", "full"}]
  /\ results \in SUBSET Jobs
  /\ wPc \in [Workers -> WorkerPc]
  /\ wJob \in [Workers -> Jobs \cup {NoJob}]
  /\ wait \in [Workers -> 0..LongestPeriod]
  /\ misses \in [Workers -> 0..MaxMisses]
  /\ crashes \in 0..MaxCrashes

Init ==
  /\ status = [j \in Jobs |-> "none"]
  /\ born = [j \in Jobs |-> 0]
  /\ owner = [j \in Jobs |-> NoWorker]
  /\ silence = [j \in Jobs |-> 0]
  /\ error = [j \in Jobs |-> "none"]
  /\ progress = [j \in Jobs |-> "zero"]
  /\ results = {}
  /\ wPc = [w \in Workers |-> "polling"]
  /\ wJob = [w \in Workers |-> NoJob]
  /\ wait = [w \in Workers |-> 0]
  /\ misses = [w \in Workers |-> 0]
  /\ crashes = 0

-----------------------------------------------------------------------------
(* The API                                                                 *)

\* POST /agent-analysis: pending and queued in one commit.  There is neither a
\* quota nor a limit on active jobs here.
Enqueue(j) ==
  /\ status[j] = "none"
  /\ status' = [status EXCEPT ![j] = "queued"]
  /\ born' = [born EXCEPT ![j] = 1 + Cardinality({k \in Jobs : status[k] # "none"})]
  /\ UNCHANGED <<owner, silence, error, progress, results, workerVars>>

\* A project is deleted with its jobs, whatever their workers are doing.
DeleteProject(S) ==
  /\ S # {}
  /\ \A j \in S : Exists(j)
  /\ status' = [j \in Jobs |-> IF j \in S THEN "deleted" ELSE status[j]]
  /\ results' = results \ S
  /\ UNCHANGED <<born, owner, silence, error, progress, workerVars>>

-----------------------------------------------------------------------------
(* The worker                                                              *)

Goto(w, pc) == wPc' = [wPc EXCEPT ![w] = pc]

\* The worker is at pc and holds nothing.
LeaveJob(w, pc) ==
  /\ Goto(w, pc)
  /\ wJob' = [wJob EXCEPT ![w] = NoJob]
  /\ wait' = [wait EXCEPT ![w] = 0]
  /\ misses' = [misses EXCEPT ![w] = 0]

\* Mutation: stale jobs go back to the queue.
ReclaimToQueue(w) ==
  /\ wPc[w] = "polling"
  /\ status' = [j \in Jobs |-> IF Stale(j) THEN "queued" ELSE status[j]]
  /\ error' = [j \in Jobs |-> IF Stale(j) THEN "stalled" ELSE error[j]]
  /\ Goto(w, "claiming")
  /\ UNCHANGED <<born, owner, silence, progress, results, wJob, wait, misses, crashes>>

\* Mutation: stale jobs are only logged.
ReclaimNothing(w) ==
  /\ wPc[w] = "polling"
  /\ Goto(w, "claiming")
  /\ UNCHANGED <<rowVars, wJob, wait, misses, crashes>>

\* Rows that SKIP LOCKED may pass over: a process that holds one may be writing it.
Lockable == {j \in Jobs : \E v \in Workers : wJob[v] = j}

\* reclaim_stale_jobs, at the start of every run_once, in one commit.
Reclaim(w) ==
  /\ wPc[w] = "polling"
  /\ \E locked \in SUBSET Lockable :
       /\ status' = [j \in Jobs |-> IF Stale(j) /\ j \notin locked THEN "failed" ELSE status[j]]
       /\ error' = [j \in Jobs |-> IF Stale(j) /\ j \notin locked THEN "stalled" ELSE error[j]]
  /\ Goto(w, "claiming")
  /\ UNCHANGED <<born, owner, silence, progress, results, wJob, wait, misses, crashes>>

\* Queued rows that SKIP LOCKED may pass over: one for each other worker that is
\* claiming at the moment.
Skippable(w) == Cardinality({v \in Workers \ {w} : wPc[v] = "claiming"})

\* Mutation: the claim writes the status of the other queue's enumeration.
ClaimAsRunning(w, j) ==
  /\ wPc[w] = "claiming"
  /\ status[j] = "queued"
  /\ status' = [status EXCEPT ![j] = "running"]
  /\ owner' = [owner EXCEPT ![j] = w]
  /\ silence' = [silence EXCEPT ![j] = 0]
  /\ Goto(w, "running")
  /\ wJob' = [wJob EXCEPT ![w] = j]
  /\ \E p \in Periods : wait' = [wait EXCEPT ![w] = p]
  /\ UNCHANGED <<born, error, progress, results, misses, crashes>>

\* claim_one: the oldest queued row not locked; the heartbeat starts with it.
Claim(w, j) ==
  /\ wPc[w] = "claiming"
  /\ status[j] = "queued"
  /\ Cardinality({k \in Jobs : status[k] = "queued" /\ born[k] < born[j]})
       <= Skippable(w)
  /\ status' = [status EXCEPT ![j] = "processing"]
  /\ owner' = [owner EXCEPT ![j] = w]
  /\ silence' = [silence EXCEPT ![j] = 0]
  /\ Goto(w, "running")
  /\ wJob' = [wJob EXCEPT ![w] = j]
  /\ \E p \in Periods : wait' = [wait EXCEPT ![w] = p]
  /\ misses' = [misses EXCEPT ![w] = 0]
  /\ UNCHANGED <<born, error, progress, results, crashes>>

\* No queued row that is not locked: run_forever sleeps and polls again.
FindNothing(w) ==
  /\ wPc[w] = "claiming"
  /\ Cardinality({j \in Jobs : status[j] = "queued"}) <= Skippable(w)
  /\ Goto(w, "polling")
  /\ UNCHANGED <<rowVars, wJob, wait, misses, crashes>>

\* The heartbeat loop wakes and finds the row still its own and processing.
Owns(w) == owner[wJob[w]] = w /\ status[wJob[w]] = "processing"

\* Mutation: the ownership check looks for a queued row.
BeatQueuedOnly(w) ==
  /\ wPc[w] = "running"
  /\ wait[w] = 0
  /\ IF owner[wJob[w]] = w /\ status[wJob[w]] = "queued"
       THEN silence' = [silence EXCEPT ![wJob[w]] = 0]
       ELSE UNCHANGED silence
  /\ misses' = [misses EXCEPT ![w] = 0]
  /\ \E p \in Periods : wait' = [wait EXCEPT ![w] = p]
  /\ UNCHANGED <<status, born, owner, error, progress, results, wPc, wJob, crashes>>

\* record_heartbeat.  A worker that lost its job logs that and runs on.
Beat(w) ==
  /\ wPc[w] = "running"
  /\ wait[w] = 0
  /\ IF Owns(w) THEN silence' = [silence EXCEPT ![wJob[w]] = 0] ELSE UNCHANGED silence
  /\ misses' = [misses EXCEPT ![w] = 0]
  /\ \E p \in Periods : wait' = [wait EXCEPT ![w] = p]
  /\ UNCHANGED <<status, born, owner, error, progress, results, wPc, wJob, crashes>>

\* The heartbeat raises, or skips a row somebody has locked; the loop goes on.
MissBeat(w) ==
  /\ wPc[w] = "running"
  /\ wait[w] = 0
  /\ misses[w] < MaxMisses
  /\ misses' = [misses EXCEPT ![w] = @ + 1]
  /\ \E p \in Periods : wait' = [wait EXCEPT ![w] = p]
  /\ UNCHANGED <<rowVars, wPc, wJob, crashes>>

\* on_agent_complete: an agent finished, its progress is committed.
AgentDone(w) ==
  /\ wPc[w] = "running"
  /\ Exists(wJob[w])
  /\ progress' = [progress EXCEPT ![wJob[w]] = "partial"]
  /\ UNCHANGED <<status, born, owner, silence, error, results, workerVars>>

\* The run raised: fail_job, while the heartbeat loop is still alive.
FailJob(w) ==
  /\ wPc[w] = "running"
  /\ Exists(wJob[w])
  /\ status' = [status EXCEPT ![wJob[w]] = "failed"]
  /\ error' = [error EXCEPT ![wJob[w]] = "reported"]
  /\ LeaveJob(w, "polling")
  /\ UNCHANGED <<born, owner, silence, progress, results, crashes>>

\* The agents are done; the heartbeat loop is cancelled before the last commit.
EndRun(w) ==
  /\ wPc[w] = "running"
  /\ Goto(w, "settling")
  /\ UNCHANGED <<rowVars, wJob, wait, misses, crashes>>

\* Mutation: the status is guarded by ownership, the result is not.
CompleteHalfGuarded(w) ==
  /\ wPc[w] = "settling"
  /\ Exists(wJob[w])
  /\ results' = results \cup {wJob[w]}
  /\ IF Owns(w)
       THEN /\ status' = [status EXCEPT ![wJob[w]] = "completed"]
            /\ progress' = [progress EXCEPT ![wJob[w]] = "full"]
       ELSE UNCHANGED <<status, progress>>
  /\ LeaveJob(w, "polling")
  /\ UNCHANGED <<born, owner, silence, error, crashes>>

\* The last commit, whatever the row says by now.  error_code is not written:
\* a job reclaimed meanwhile keeps it.
Complete(w) ==
  /\ wPc[w] = "settling"
  /\ Exists(wJob[w])
  /\ status' = [status EXCEPT ![wJob[w]] = "completed"]
  /\ progress' = [progress EXCEPT ![wJob[w]] = "full"]
  /\ results' = results \cup {wJob[w]}
  /\ LeaveJob(w, "polling")
  /\ UNCHANGED <<born, owner, silence, error, crashes>>

\* A commit finds its row deleted: the exception leaves run_forever.
LoseRow(w) ==
  /\ wPc[w] \in {"running", "settling"}
  /\ ~Exists(wJob[w])
  /\ LeaveJob(w, "down")
  /\ UNCHANGED <<rowVars, crashes>>

\* Any other exception in run_once, or the process is killed.
Crash(w) ==
  /\ wPc[w] # "down"
  /\ crashes < MaxCrashes
  /\ crashes' = crashes + 1
  /\ LeaveJob(w, "down")
  /\ UNCHANGED rowVars

\* The process is started again, under a new worker_id.
Restart(w) ==
  /\ wPc[w] = "down"
  /\ Goto(w, "polling")
  /\ UNCHANGED <<rowVars, wJob, wait, misses, crashes>>

\* Time passes, but not past the next attempt of a heartbeat loop.
Tick ==
  /\ \A w \in Workers : wPc[w] = "running" => wait[w] > 0
  /\ wait' = [w \in Workers |-> IF wPc[w] = "running" THEN wait[w] - 1 ELSE wait[w]]
  /\ silence' = [j \in Jobs |-> IF status[j] = "processing" /\ silence[j] <= StaleAfter
                                  THEN silence[j] + 1 ELSE silence[j]]
  /\ UNCHANGED <<status, born, owner, error, progress, results, wPc, wJob, misses,
                 crashes>>

-----------------------------------------------------------------------------
\* What run_forever and the heartbeat loop do as long as the process lives.
WorkerStep(w) ==
  \/ Reclaim(w)
  \/ \E j \in Jobs : Claim(w, j)
  \/ FindNothing(w)
  \/ FailJob(w)
  \/ EndRun(w)
  \/ Complete(w)
  \/ LoseRow(w)

Next ==
  \/ \E j \in Jobs : Enqueue(j)
  \/ \E S \in SUBSET Jobs : DeleteProject(S)
  \/ \E w \in Workers : WorkerStep(w) \/ Beat(w) \/ MissBeat(w) \/ AgentDone(w)
  \/ \E w \in Workers : Crash(w) \/ Restart(w)
  \/ Tick

Spec == Init /\ [][Next]_vars

\* Time passes, heartbeat loops wake, an agent run ends (every model call has a
\* timeout), the last commit goes through, idle workers poll, and a process
\* that died is started again.
FairSpec ==
  /\ Spec
  /\ WF_vars(Tick)
  /\ \A w \in Workers :
       /\ WF_vars(WorkerStep(w) /\ wPc[w] # "running")
       /\ WF_vars(FailJob(w) \/ EndRun(w) \/ LoseRow(w))
       /\ WF_vars(Beat(w))
       /\ WF_vars(Restart(w))

-----------------------------------------------------------------------------
(* Properties                                                              *)

\* A job is run by at most one process: SKIP LOCKED claims, and a reclaim that
\* fails the job instead of queueing it again, so that a slow owner and a new
\* one can never work on it side by side.
SoleRunner ==
  \A v, w \in Workers : wJob[v] = wJob[w] /\ wJob[v] # NoJob => v = w

\* A worker whose loop runs loses its job only after missing so many heartbeats
\* in a row that, late as they come, they cover the whole cutoff.  At 45 s and 3
\* minutes two failures in a row are harmless as long as no attempt adds more than
\* 15 s to its interval, and a claim of any age is; a third failure is not, since
\* the fourth attempt always comes later than 4 * 45 s.
HeartbeatsProtect ==
  \A w \in Workers :
    wPc[w] = "running" /\ Stale(wJob[w]) => LongestPeriod * (misses[w] + 1) > StaleAfter

\* What the API shows is true: results belong to completed jobs only, 100 % to
\* jobs the worker completed, and every failed job says why, also when a
\* reclaim and the worker's own last commit come in either order.
RowTruthful ==
  \A j \in Jobs :
    /\ j \in results <=> status[j] = "completed"
    /\ Exists(j) => (progress[j] = "full" <=> status[j] = "completed")
    /\ status[j] = "failed" => error[j] # "none"
    /\ status[j] \in {"queued", "processing"} => error[j] = "none"

\* A completed job, and a failed one that no process holds any more, changes by
\* the deletion of its project only: a poll of GET /agent-analysis may stop.
LastWord ==
  [][\A j \in Jobs :
       \/ status[j] = "completed"
       \/ status[j] = "failed" /\ \A w \in Workers : wJob[w] # j
       => \/ status'[j] = "deleted"
          \/ /\ status'[j] = status[j] /\ error'[j] = error[j]
             /\ progress'[j] = progress[j]]_vars

\* The rows and the holds implement the queue's promise: one claim and one report
\* for each job, by its holder, whoever else has given it up.
Lease == INSTANCE JobLease WITH held <- {j \in Jobs : \E w \in Workers : wJob[w] = j}
LeaseSpec == Lease!Spec

\* A job whose process died does not stay "processing": another process, or the
\* same one started again, fails it after the cutoff.
StalledRecovered ==
  \A j \in Jobs : (status[j] = "processing") ~> (status[j] # "processing")

\* agents/worker.py:37, "a slow-but-alive worker is never mistaken for a dead one".
NeverMistaken ==
  \A w \in Workers :
    wPc[w] = "running" => ~(status[wJob[w]] = "failed" /\ error[wJob[w]] = "stalled")
=============================================================================
