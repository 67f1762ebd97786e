---------------------------- MODULE AnalysisJobs ----------------------------
(***************************************************************************)
(* The analysis pipeline of one organisation: the API handlers that       *)
(* enqueue, cancel and delete, the worker processes that claim a job with *)
(* FOR UPDATE SKIP LOCKED and drive the engine, and the Postgres rows      *)
(* they share.  Every action is one committed statement or transaction:   *)
(* between two actions any other handler or worker may run (READ           *)
(* COMMITTED, no version column, UPDATE by primary key).                   *)
(*                                                                         *)
(* A request creates at most one job, so a request and the job it creates *)
(* are named by the same member of Requests.                               *)
(***************************************************************************)
EXTENDS Naturals, FiniteSets

CONSTANTS
  Requests,            \* analyze requests, and the jobs they create
  Projects,            \* the organisation's projects
  Workers,             \* worker processes
  Cancellers,          \* cancel requests in flight at one time
  NoRequest,           \* "no request", "no job"
  NoProject,           \* "no project yet"
  RunLimit,            \* PLAN_LIMITS[plan]["analysis_runs_per_month"]
  MaxMonth,            \* bound: calendar months a behaviour may span
  MaxPolls,            \* engine polls that fit before the 30-minute deadline
  MayCrash             \* whether worker processes may die

ASSUME ConstantsAssumption ==
  /\ IsFiniteSet(Requests)
  /\ NoRequest \notin Requests
  /\ NoProject \notin Projects
  /\ RunLimit \in Nat
  /\ MaxMonth \in Nat \ {0}
  /\ MaxPolls \in Nat \ {0}
  /\ MayCrash \in BOOLEAN

VARIABLES
  month,            \* the current calendar month
  clock,            \* transactions of analyze requests begun so far
  subscribed,       \* the organisation's subscriptions row exists
  subLock,          \* the request that holds FOR UPDATE on that row
  creator,          \* the request that created the row lazily, if one did
  ledger,           \* analysis_usage_events: the month charged, 0 for no row
  reqPc,            \* where each analyze request is
  target,           \* the project each request names
  stamp,            \* created_at of the request's rows: its transaction's start
  beganIn,          \* the calendar month of that instant
  project,          \* the projects table
  deleting,         \* delete requests past their archived check
  status,           \* analysis_jobs.status; "none" before, "deleted" after
  started,          \* analysis_jobs.started_at IS NOT NULL
  cancelRequested,  \* analysis_jobs.cancel_requested_at IS NOT NULL
  results,          \* jobs with variations, evidence and estimates rows
  notices,          \* the notifications sent about each job
  wPc,              \* where each worker is
  wJob,             \* the job each worker holds in its session
  polls,            \* polls each worker has made of the current engine run
  cJob,             \* the job each cancel request has read
  cSaw              \* the status it read

quotaVars   == <<subscribed, subLock, creator, ledger>>
requestVars == <<reqPc, target, stamp, beganIn, clock>>
projectVars == <<project, deleting>>
rowVars     == <<status, started, cancelRequested, results, notices>>
workerVars  == <<wPc, wJob, polls>>
cancelVars  == <<cJob, cSaw>>
vars == <<month, quotaVars, requestVars, projectVars, rowVars, workerVars,
          cancelVars>>

JobStatus  == {"queued", "running", "succeeded", "failed", "cancelled"}
Terminal   == {"succeeded", "failed", "cancelled"}
Active     == {"queued", "running"}
NoticeKind == {"complete", "failed", "cancelled"}
RequestPc  == {"idle", "reading", "creating", "reopening", "counting", "admitted",
               "done"}
InFlight   == {"reading", "creating", "reopening", "counting", "admitted"}
WorkerPc   == {"idle", "claimed", "preparing", "checking", "polling",
               "rechecking", "cancelling", "failing", "ingesting"}

\* A jobs row a statement can still find.
Live(j) == status[j] \in JobStatus

\* The jobs a project's rows cascade to.
JobsOf(p) == {j \in Requests : target[j] = p /\ Live(j)}

\* What enforce_analysis_limit counts: ledger rows of the current month.
UsedThisMonth == {r \in Requests : ledger[r] = month}

TypeOK ==
  /\ month \in 1..MaxMonth
  /\ clock \in Nat
  /\ subscribed \in BOOLEAN
  /\ subLock \in Requests \cup {NoRequest}
  /\ creator \in Requests \cup {NoRequest}
  /\ ledger \in [Requests -> 0..MaxMonth]
  /\ reqPc \in [Requests -> RequestPc]
  /\ target \in [Requests -> Projects \cup {NoProject}]
  /\ stamp \in [Requests -> Nat]
  /\ beganIn \in [Requests -> 0..MaxMonth]
  /\ project \in [Projects -> {"live", "archived", "deleted"}]
  /\ deleting \in SUBSET Projects
  /\ status \in [Requests -> JobStatus \cup {"none", "deleted"}]
  /\ started \in [Requests -> BOOLEAN]
  /\ cancelRequested \in [Requests -> BOOLEAN]
  /\ results \in SUBSET Requests
  /\ notices \in [Requests -> SUBSET NoticeKind]
  /\ wPc \in [Workers -> WorkerPc]
  /\ wJob \in [Workers -> Requests \cup {NoRequest}]
  /\ polls \in [Workers -> 0..MaxPolls]
  /\ cJob \in [Cancellers -> Requests \cup {NoRequest}]
  /\ cSaw \in [Cancellers -> Active \cup {"none"}]

Init ==
  /\ month = 1
  /\ clock = 0
  /\ subscribed \in BOOLEAN  \* FALSE: an organisation older than the billing tables
  /\ subLock = NoRequest
  /\ creator = NoRequest
  /\ ledger = [r \in Requests |-> 0]
  /\ reqPc = [r \in Requests |-> "idle"]
  /\ target = [r \in Requests |-> NoProject]
  /\ stamp = [r \in Requests |-> 0]
  /\ beganIn = [r \in Requests |-> 0]
  /\ project = [p \in Projects |-> "live"]
  /\ deleting = {}
  /\ status = [r \in Requests |-> "none"]
  /\ started = [r \in Requests |-> FALSE]
  /\ cancelRequested = [r \in Requests |-> FALSE]
  /\ results = {}
  /\ notices = [r \in Requests |-> {}]
  /\ wPc = [w \in Workers |-> "idle"]
  /\ wJob = [w \in Workers |-> NoRequest]
  /\ polls = [w \in Workers |-> 0]
  /\ cJob = [c \in Cancellers |-> NoRequest]
  /\ cSaw = [c \in Cancellers |-> "none"]

-----------------------------------------------------------------------------
(* POST /projects/{id}/analyze                                             *)

\* The project is visible and no job of it is queued or running; with one,
\* the handler returns that job and writes nothing.
BeginAnalyze(r, p) ==
  /\ reqPc[r] = "idle"
  /\ project[p] # "deleted"
  /\ \A j \in JobsOf(p) : status[j] \notin Active
  /\ reqPc' = [reqPc EXCEPT ![r] = "reading"]
  /\ target' = [target EXCEPT ![r] = p]
  /\ clock' = clock + 1
  /\ stamp' = [stamp EXCEPT ![r] = clock + 1]
  /\ beganIn' = [beganIn EXCEPT ![r] = month]
  /\ UNCHANGED <<month, quotaVars, projectVars, rowVars, workerVars, cancelVars>>

\* Mutation: the transaction ends and the lock stays.
FinishHoldingLock(r) ==
  /\ reqPc' = [reqPc EXCEPT ![r] = "done"]
  /\ UNCHANGED subLock

\* The end of a request's transaction: its row lock goes with it.
Finish(r) ==
  /\ reqPc' = [reqPc EXCEPT ![r] = "done"]
  /\ subLock' = IF subLock = r THEN NoRequest ELSE subLock

\* 400 without a contract, 402 for a suspended account, or a 500: the
\* transaction rolls back.
Refuse(r) ==
  /\ reqPc[r] \in InFlight
  /\ Finish(r)
  /\ UNCHANGED <<month, clock, subscribed, creator, ledger, target, stamp, beganIn,
                 projectVars, rowVars, workerVars, cancelVars>>

\* Mutation: the SELECT without FOR UPDATE.
LockSubscriptionShared(r) ==
  /\ reqPc[r] = "reading"
  /\ subscribed
  /\ reqPc' = [reqPc EXCEPT ![r] = "counting"]
  /\ UNCHANGED <<month, clock, quotaVars, target, stamp, beganIn, projectVars,
                 rowVars, workerVars, cancelVars>>

\* SELECT ... FOR UPDATE finds the row and waits until nobody else holds it.
LockSubscription(r) ==
  /\ reqPc[r] = "reading"
  /\ subscribed
  /\ subLock = NoRequest
  /\ subLock' = r
  /\ reqPc' = [reqPc EXCEPT ![r] = "counting"]
  /\ UNCHANGED <<month, clock, subscribed, creator, ledger, target, stamp,
                 beganIn, projectVars, rowVars, workerVars, cancelVars>>

\* The same SELECT finds no row: nothing is locked.
MissSubscription(r) ==
  /\ reqPc[r] = "reading"
  /\ ~subscribed
  /\ reqPc' = [reqPc EXCEPT ![r] = "creating"]
  /\ UNCHANGED <<month, clock, quotaVars, target, stamp, beganIn, projectVars,
                 rowVars, workerVars, cancelVars>>

\* INSERT the Free row and commit: no lock is held from here on.  company_id
\* is unique, so a second creator fails with a 500.
CreateSubscription(r) ==
  /\ reqPc[r] = "creating"
  /\ IF subscribed
       THEN /\ Finish(r)
            /\ UNCHANGED <<subscribed, creator>>
       ELSE /\ subscribed' = TRUE
            /\ creator' = r
            /\ reqPc' = [reqPc EXCEPT ![r] = "reopening"]
            /\ UNCHANGED subLock
  /\ UNCHANGED <<month, clock, ledger, target, stamp, beganIn, projectVars, rowVars,
                 workerVars, cancelVars>>

\* The creator's next statement starts the transaction its rows will be
\* dated by.
ReopenTransaction(r) ==
  /\ reqPc[r] = "reopening"
  /\ reqPc' = [reqPc EXCEPT ![r] = "counting"]
  /\ clock' = clock + 1
  /\ stamp' = [stamp EXCEPT ![r] = clock + 1]
  /\ beganIn' = [beganIn EXCEPT ![r] = month]
  /\ UNCHANGED <<month, quotaVars, target, projectVars, rowVars, workerVars,
                 cancelVars>>

\* Mutation: the comparison off by one.
CountUsageOffByOne(r) ==
  /\ reqPc[r] = "counting"
  /\ IF Cardinality(UsedThisMonth) > RunLimit
       THEN Finish(r)
       ELSE /\ reqPc' = [reqPc EXCEPT ![r] = "admitted"]
            /\ UNCHANGED subLock
  /\ UNCHANGED <<month, clock, subscribed, creator, ledger, target, stamp, beganIn,
                 projectVars, rowVars, workerVars, cancelVars>>

\* COUNT(analysis_usage_events) since the start of the month, against the plan.
CountUsage(r) ==
  /\ reqPc[r] = "counting"
  /\ IF Cardinality(UsedThisMonth) + 1 > RunLimit
       THEN Finish(r)
       ELSE /\ reqPc' = [reqPc EXCEPT ![r] = "admitted"]
            /\ UNCHANGED subLock
  /\ UNCHANGED <<month, clock, subscribed, creator, ledger, target, stamp, beganIn,
                 projectVars, rowVars, workerVars, cancelVars>>

\* Mutation: no foreign key from the job to its project.
EnqueueUnchecked(r) ==
  /\ reqPc[r] = "admitted"
  /\ Finish(r)
  /\ status' = [status EXCEPT ![r] = "queued"]
  /\ ledger' = [ledger EXCEPT ![r] = beganIn[r]]
  /\ UNCHANGED <<month, clock, subscribed, creator, target, stamp, beganIn,
                 projectVars, started, cancelRequested, results, notices,
                 workerVars, cancelVars>>

\* The job row and its usage event, in one commit.  Both carry the project's
\* foreign key: a project deleted meanwhile makes the INSERT fail.
Enqueue(r) ==
  /\ reqPc[r] = "admitted"
  /\ Finish(r)
  /\ IF project[target[r]] = "deleted"
       THEN UNCHANGED <<status, ledger>>
       ELSE /\ status' = [status EXCEPT ![r] = "queued"]
            /\ ledger' = [ledger EXCEPT ![r] = beganIn[r]]
  /\ UNCHANGED <<month, clock, subscribed, creator, target, stamp, beganIn,
                 projectVars, started, cancelRequested, results, notices, workerVars,
                 cancelVars>>

-----------------------------------------------------------------------------
(* POST /projects/{id}/analysis/{job}/cancel                               *)

\* An unlocked read; a terminal job is left alone.
ReadForCancel(c, j) ==
  /\ cJob[c] = NoRequest
  /\ status[j] \in Active
  /\ cJob' = [cJob EXCEPT ![c] = j]
  /\ cSaw' = [cSaw EXCEPT ![c] = status[j]]
  /\ UNCHANGED <<month, quotaVars, requestVars, projectVars, rowVars, workerVars>>

\* Mutation: the running branch sets the status as well.
WriteCancelAlways(c) ==
  /\ cJob[c] # NoRequest
  /\ IF Live(cJob[c])
       THEN /\ cancelRequested' = [cancelRequested EXCEPT ![cJob[c]] = TRUE]
            /\ status' = [status EXCEPT ![cJob[c]] = "cancelled"]
       ELSE UNCHANGED <<cancelRequested, status>>
  /\ cJob' = [cJob EXCEPT ![c] = NoRequest]
  /\ cSaw' = [cSaw EXCEPT ![c] = "none"]
  /\ UNCHANGED <<month, quotaVars, requestVars, projectVars, started, results,
                 notices, workerVars>>

\* The write the read decided on, whatever the row says by now.  The UPDATE
\* of a deleted row matches nothing and the request ends in a 500.
WriteCancel(c) ==
  /\ cJob[c] # NoRequest
  /\ IF Live(cJob[c])
       THEN /\ cancelRequested' = [cancelRequested EXCEPT ![cJob[c]] = TRUE]
            /\ status' = IF cSaw[c] = "queued"
                           THEN [status EXCEPT ![cJob[c]] = "cancelled"]
                           ELSE status
       ELSE UNCHANGED <<cancelRequested, status>>
  /\ cJob' = [cJob EXCEPT ![c] = NoRequest]
  /\ cSaw' = [cSaw EXCEPT ![c] = "none"]
  /\ UNCHANGED <<month, quotaVars, requestVars, projectVars, started, results,
                 notices, workerVars>>

-----------------------------------------------------------------------------
(* POST /archive, POST /unarchive, DELETE /projects/{id}                   *)

Archive(p) ==
  /\ project[p] = "live"
  /\ project' = [project EXCEPT ![p] = "archived"]
  /\ UNCHANGED <<month, quotaVars, requestVars, deleting, rowVars, workerVars,
                 cancelVars>>

Unarchive(p) ==
  /\ project[p] = "archived"
  /\ project' = [project EXCEPT ![p] = "live"]
  /\ UNCHANGED <<month, quotaVars, requestVars, deleting, rowVars, workerVars,
                 cancelVars>>

\* The archive-first gate, then the blobs are removed one by one.
BeginDelete(p) ==
  /\ project[p] = "archived"
  /\ p \notin deleting
  /\ deleting' = deleting \cup {p}
  /\ UNCHANGED <<month, quotaVars, requestVars, project, rowVars, workerVars,
                 cancelVars>>

\* One DELETE; the foreign keys cascade to jobs and their result rows and set
\* the usage ledger's references to NULL, so its rows stay.
DeleteProject(p) ==
  /\ p \in deleting
  /\ deleting' = deleting \ {p}
  /\ project' = [project EXCEPT ![p] = "deleted"]
  /\ status' = [j \in Requests |-> IF j \in JobsOf(p) THEN "deleted" ELSE status[j]]
  /\ results' = results \ JobsOf(p)
  /\ UNCHANGED <<month, quotaVars, requestVars, started, cancelRequested,
                 notices, workerVars, cancelVars>>

-----------------------------------------------------------------------------
(* The worker: run_forever around run_once around process_job              *)

Goto(w, pc) == wPc' = [wPc EXCEPT ![w] = pc]

\* Back to the loop: the session closes and its objects are gone.
Release(w) ==
  /\ wPc' = [wPc EXCEPT ![w] = "idle"]
  /\ wJob' = [wJob EXCEPT ![w] = NoRequest]
  /\ polls' = [polls EXCEPT ![w] = 0]

\* Mutation: the claim takes running rows too.
ClaimUnfiltered(w, j) ==
  /\ wPc[w] = "idle"
  /\ status[j] \in Active
  /\ status' = [status EXCEPT ![j] = "running"]
  /\ started' = [started EXCEPT ![j] = TRUE]
  /\ wJob' = [wJob EXCEPT ![w] = j]
  /\ Goto(w, "claimed")
  /\ UNCHANGED <<month, quotaVars, requestVars, projectVars, cancelRequested,
                 results, notices, polls, cancelVars>>

\* A cancel about to commit or a deletion may hold a job row's lock.
MayBeLocked(j) == (\E c \in Cancellers : cJob[c] = j) \/ target[j] \in deleting

\* The older queued rows a claim of j passes over (SKIP LOCKED): the others
\* lock theirs, and each other idle worker may be claiming one.
Claimable(w, j) ==
  LET older == {k \in Requests : status[k] = "queued" /\ stamp[k] < stamp[j]}
  IN  Cardinality({k \in older : ~MayBeLocked(k)})
        <= Cardinality({v \in Workers \ {w} : wPc[v] = "idle"})

\* The oldest queued row not locked by another, set running and committed in
\* one transaction.
Claim(w, j) ==
  /\ wPc[w] = "idle"
  /\ status[j] = "queued"
  /\ Claimable(w, j)
  /\ status' = [status EXCEPT ![j] = "running"]
  /\ started' = [started EXCEPT ![j] = TRUE]
  /\ wJob' = [wJob EXCEPT ![w] = j]
  /\ Goto(w, "claimed")
  /\ UNCHANGED <<month, quotaVars, requestVars, projectVars, cancelRequested,
                 results, notices, polls, cancelVars>>

\* Mutation: the polling loop without its deadline.
AfterCheckForever(w) ==
  CASE wPc[w] = "claimed"    -> "preparing"
    [] wPc[w] = "checking"   -> "polling"
    [] wPc[w] = "rechecking" -> "checking"

\* Where a check that saw no cancel signal goes on.  The last one sits after
\* a non-terminal poll and is followed by the deadline test.
AfterCheck(w) ==
  CASE wPc[w] = "claimed"    -> "preparing"
    [] wPc[w] = "checking"   -> "polling"
    [] wPc[w] = "rechecking" -> IF polls[w] = MaxPolls THEN "failing" ELSE "checking"

\* _is_cancel_requested in its own session.  A read that fails counts as "no".
CheckCancel(w) ==
  /\ wPc[w] \in {"claimed", "checking", "rechecking"}
  /\ \/ /\ Live(wJob[w])
        /\ cancelRequested[wJob[w]]
        /\ Goto(w, "cancelling")
     \/ Goto(w, AfterCheck(w))
  /\ UNCHANGED <<month, quotaVars, requestVars, projectVars, rowVars, wJob,
                 polls, cancelVars>>

\* build_request and submit; whatever they raise is classified as a failure.
Prepare(w) ==
  /\ wPc[w] = "preparing"
  /\ \E next \in {"checking", "failing"} : Goto(w, next)
  /\ UNCHANGED <<month, quotaVars, requestVars, projectVars, rowVars, wJob,
                 polls, cancelVars>>

\* One poll of the engine: still working, a result, a reported failure or an
\* error of the call.
Poll(w) ==
  /\ wPc[w] = "polling"
  /\ \E next \in {"rechecking", "ingesting", "failing"} : Goto(w, next)
  /\ polls' = [polls EXCEPT ![w] = IF @ < MaxPolls THEN @ + 1 ELSE @]
  /\ UNCHANGED <<month, quotaVars, requestVars, projectVars, rowVars, wJob,
                 cancelVars>>

\* The commit that ends a job, with its notification: it overwrites whatever
\* status the row has.  A deleted row raises and nothing is written.
Settle(w, terminal, kind) ==
  /\ IF Live(wJob[w])
       THEN /\ status' = [status EXCEPT ![wJob[w]] = terminal]
            /\ notices' = [notices EXCEPT ![wJob[w]] = @ \cup {kind}]
       ELSE UNCHANGED <<status, notices>>
  /\ Release(w)
  /\ UNCHANGED <<month, quotaVars, requestVars, projectVars, started,
                 cancelRequested, cancelVars>>

CancelJob(w) ==
  /\ wPc[w] = "cancelling"
  /\ Settle(w, "cancelled", "cancelled")
  /\ UNCHANGED results

FailJob(w) ==
  /\ wPc[w] = "failing"
  /\ Settle(w, "failed", "failed")
  /\ UNCHANGED results

\* Mutation: the status column gets the notification's name.
IngestResultMislabelled(w) ==
  /\ wPc[w] = "ingesting"
  /\ Settle(w, "complete", "complete")
  /\ results' = IF Live(wJob[w]) THEN results \cup {wJob[w]} ELSE results

\* Variations, rollups, status and notification in one commit.
IngestResult(w) ==
  /\ wPc[w] = "ingesting"
  /\ Settle(w, "succeeded", "complete")
  /\ results' = IF Live(wJob[w]) THEN results \cup {wJob[w]} ELSE results

\* Mutation: the variations already flushed are kept.
IterationFailsHalfDone(w) ==
  /\ wPc[w] \in {"claimed", "cancelling", "failing", "ingesting"}
  /\ results' = IF wPc[w] = "ingesting" /\ Live(wJob[w])
                  THEN results \cup {wJob[w]} ELSE results
  /\ Release(w)
  /\ UNCHANGED <<month, quotaVars, requestVars, projectVars, status, started,
                 cancelRequested, notices, cancelVars>>

\* Mutation: the exception ends the worker's loop.
IterationFailsForGood(w) ==
  /\ wPc[w] \in {"claimed", "cancelling", "failing", "ingesting"}
  /\ Goto(w, "dead")
  /\ UNCHANGED <<month, quotaVars, requestVars, projectVars, rowVars, wJob, polls,
                 cancelVars>>

\* An exception outside process_job's try block (a row the database refuses
\* during ingestion, an error of a settling commit, of the document count):
\* the session rolls back, run_forever logs it and loops; the row stays.
IterationFails(w) ==
  /\ wPc[w] \in {"claimed", "cancelling", "failing", "ingesting"}
  /\ Release(w)
  /\ UNCHANGED <<month, quotaVars, requestVars, projectVars, rowVars, cancelVars>>

\* Mutation: a restart puts the interrupted job back in the queue.
WorkerCrashRequeues(w) ==
  /\ MayCrash
  /\ wPc[w] # "idle"
  /\ status' = IF status[wJob[w]] = "running"
                 THEN [status EXCEPT ![wJob[w]] = "queued"] ELSE status
  /\ Release(w)
  /\ UNCHANGED <<month, quotaVars, requestVars, projectVars, started,
                 cancelRequested, results, notices, cancelVars>>

\* The process dies and is started again; nothing reclaims its job.
WorkerCrash(w) ==
  /\ MayCrash
  /\ wPc[w] # "idle"
  /\ Release(w)
  /\ UNCHANGED <<month, quotaVars, requestVars, projectVars, rowVars, cancelVars>>

-----------------------------------------------------------------------------
NextMonth ==
  /\ month < MaxMonth
  /\ month' = month + 1
  /\ UNCHANGED <<quotaVars, requestVars, projectVars, rowVars, workerVars,
                 cancelVars>>

RequestStep(r) ==
  \/ LockSubscription(r)
  \/ MissSubscription(r)
  \/ CreateSubscription(r)
  \/ ReopenTransaction(r)
  \/ CountUsage(r)
  \/ Enqueue(r)

WorkerStep(w) ==
  \/ \E j \in Requests : Claim(w, j)
  \/ CheckCancel(w)
  \/ Prepare(w)
  \/ Poll(w)
  \/ CancelJob(w)
  \/ FailJob(w)
  \/ IngestResult(w)

Next ==
  \/ \E r \in Requests, p \in Projects : BeginAnalyze(r, p)
  \/ \E r \in Requests : RequestStep(r) \/ Refuse(r)
  \/ \E c \in Cancellers, j \in Requests : ReadForCancel(c, j)
  \/ \E c \in Cancellers : WriteCancel(c)
  \/ \E p \in Projects : Archive(p) \/ Unarchive(p) \/ BeginDelete(p) \/ DeleteProject(p)
  \/ \E w \in Workers : WorkerStep(w) \/ IterationFails(w) \/ WorkerCrash(w)
  \/ NextMonth

Spec == Init /\ [][Next]_vars

\* run_forever keeps a worker stepping and every handler runs to its end;
\* nobody has to click, fail or crash.
FairSpec ==
  /\ Spec
  /\ \A w \in Workers : WF_vars(WorkerStep(w))
  /\ \A r \in Requests : WF_vars(RequestStep(r))

-----------------------------------------------------------------------------
(* Safety                                                                  *)

Busy(w) == wPc[w] # "idle"

Owned(j) == \E w \in Workers : wJob[w] = j

\* Two workers never hold the same job: SKIP LOCKED plus the status change in
\* the claiming transaction (claim_one) make a claim exclusive for ever, also
\* after a crash, because nothing puts a job back in the queue.
SingleOwner ==
  \A v, w \in Workers : wJob[v] = wJob[w] /\ wJob[v] # NoRequest => v = w

\* Status, result rows and notification of a job agree: at most one
\* notification per job; result rows exist exactly for jobs whose owner was
\* told "complete" (until deletion removes them), never under a failed
\* status; and a terminal status nobody was notified about is a cancel.
OutcomesAgree ==
  \A j \in Requests :
    /\ Cardinality(notices[j]) <= 1
    /\ j \in results <=> Live(j) /\ "complete" \in notices[j]
    /\ status[j] = "succeeded" => notices[j] = {"complete"}
    /\ status[j] = "failed" => notices[j] = {"failed"}

\* The runs a month admitted, deleted ones included.
RunsIn(m) == {r \in Requests : status[r] # "none" /\ beganIn[r] = m}

\* The one request that creates the subscription row lazily runs unlocked.
QuotaBound == IF creator = NoRequest THEN RunLimit ELSE RunLimit + 1

\* The row lock of enforce_analysis_limit, held until the job and its usage
\* event commit, keeps the runs of the current month within the plan, however
\* requests interleave and projects are deleted.  An organisation whose subscription
\* row one of them had to create can exceed the plan by one: the creator
\* holds no lock.
WithinQuota == Cardinality(RunsIn(month)) <= QuotaBound

\* No job outlives its project: neither the cascade nor the foreign key an
\* in-flight analyze request meets at its INSERT leaves a row behind.
NoOrphanJobs ==
  \A j \in Requests : Live(j) => project[target[j]] # "deleted"

\* Once a job is terminal, no worker holds it and no cancel in flight read it
\* as queued, its status is final: only deletion changes it.
SettledIsFinal ==
  [][\A j \in Requests :
       /\ status[j] \in Terminal
       /\ ~Owned(j)
       /\ \A c \in Cancellers : ~(cJob[c] = j /\ cSaw[c] = "queued")
       => status'[j] \in {status[j], "deleted"}]_vars

\* The pipeline implements the per-job promise.
Lifecycle == INSTANCE JobLifecycle WITH Jobs <- Requests
LifecycleSpec == Lifecycle!Spec

-----------------------------------------------------------------------------
(* Liveness, under FairSpec                                                *)

\* Whatever the engine, the database or a vanished row does, a worker comes
\* back to its loop: the deadline ends the polling and run_forever swallows
\* what process_job lets through.
WorkersReturn == \A w \in Workers : Busy(w) ~> ~Busy(w)

\* A queued job does not stay queued, provided some worker process exists.
QueueDrains == \A j \in Requests : (status[j] = "queued") ~> (status[j] # "queued")

\* No analyze request waits for ever on the subscription row's lock.
RequestsFinish == \A r \in Requests : (reqPc[r] \in InFlight) ~> (reqPc[r] = "done")

-----------------------------------------------------------------------------
(* What the repository says and the code does not do                       *)

\* routers/projects.py:479, "One active analysis per project."
OneActivePerProject ==
  \A p \in Projects : Cardinality({j \in JobsOf(p) : status[j] \in Active}) <= 1

\* routers/projects.py:523, a cancel of a succeeded or failed job is a no-op.
CancelLeavesOutcome ==
  [][\A j \in Requests :
       status[j] \in {"succeeded", "failed"} => status'[j] # "cancelled"]_vars

\* job_worker.py:344, "never leave a job stuck 'running'".
NeverStuckRunning ==
  \A j \in Requests : (status[j] = "running") ~> (status[j] # "running")
=============================================================================
