# Variation audit: TLA+ verification of the backend

The repository is a product in which construction companies upload a contract
and project documents, an engine finds unclaimed variations, and reviewers
decide on them. The logic that is hard to get right is in `src/backend/app`:
a FastAPI application and two worker processes that share one Postgres
database. They run at the READ COMMITTED isolation level, the ORM has no
version columns, updates go by primary key and write the columns that changed,
and only a few statements take row locks. Every model here has the same shape
because of that: **one action is one committed statement or transaction, or
the reading a request decides on**, and any other handler or worker may run
between two of them.

## The system

| Component | State | Operations | What is hard | What makes it correct |
|---|---|---|---|---|
| Analysis pipeline: `routers/projects.py`, `services/jobs.py`, `services/projects.py`, `worker/job_worker.py`, `engine/client.py` | `analysis_jobs`, `projects`, `variations`/`evidence`/`value_estimates`, `notifications`; the worker's session and poll loop | analyze, cancel, archive, unarchive, delete; claim, cancel check, build request, submit, poll, ingest, fail, cancel | unlocked reads then writes; a claim committed before the work; deletion under a running worker; worker death; engine that never answers | one owner per job, one outcome per job, no job without project, every job started at most once, the worker always comes back |
| Analysis quota: `services/billing.py`, `analysis_usage_events` | subscription row and its lock, usage ledger | lock or lazily create the row, count, insert with the job | the lock must span check and insert; the creation path commits midway; month boundaries; deletion must not refund | runs of a month within the plan |
| Progress events and stream: `worker/progress.py`, `routers/analysis_events.py`, the frontend's `useAnalysisStream` | `analysis_job_events`, the stream's cursor, the page's last event id | emit, poll, send, end, resume | events written outside the job's transaction; writes that fail silently; end-of-stream decision from two reads; reconnects | no event missed or replayed, the stream ends, "completed" is true |
| Agent job queue: `agents/worker.py`, `routers/agent_jobs.py` | `agent_analysis_jobs` with heartbeat and worker id | enqueue, claim, heartbeat, reclaim, progress, complete, fail | reclaim of a slow but alive worker, stale writes, no exception barrier | one runner per job, a truthful row, dead workers noticed, live ones left alone |
| LLM reliability: `agents/reliable_llm.py`, `circuit_breaker.py`, `provider_router.py`, `provider_health.py` | circuit rows, each process's selection, attempts and availability cache | select, call, retry, fall back, record, trip, half-open | unlocked read-modify-write of the circuit, cancellation inside a call, telemetry out of reach | failures counted, no trial before the cooldown, a tripped provider gets its trial |
| Sessions: `auth/refresh_tokens.py`, `services/password_reset.py`, `auth/router.py` | refresh and reset tokens | login, rotate, revoke, revoke all, forgot, reset | double use of one token, rotation against revoke-all, two transactions in a reset | a login has one live token, a sign-out ends every session, a link is used once |
| Billing: `services/billing.py`, `billing/provider.py`, `routers/billing.py` | subscription status and plan, Stripe event ids, invoices | checkout, cancel, resume, webhooks, grace expiry | duplicated, reordered, concurrent, half-applied deliveries; a commit in the middle of a webhook | every event applied once, none lost, the row follows Stripe |
| Organisation members: `services/orgs.py`, `services/invitations.py` | memberships, invitations | add, set role, remove, invite, revoke, accept, register | write skew between admins, accept against revoke, two invitations at once | an admin remains, an invitation is used or withdrawn, one open invitation per email |
| Offices: `services/org_profile.py` | offices, primary flag | create, update, delete | unlocked demotion and promotion | exactly one primary office |
| Review: `services/review.py` | review status, reviewer, audit rows | confirm, reject, reopen | concurrent reviewers | the audit trail tells the status |
| Documents and limits: `routers/projects.py`, `services/projects.py`, `storage.py`, `services/billing.py` | projects, contract texts, document rows, stored contents | create, archive, unarchive, upload, contract text, delete | limits checked on old readings; content and row in two systems; deletion beside an upload | within the plan's limits, a row has its content, a content its row |
| Parsing, mail, reports, dashboard, audit queries, middleware, configuration | files, third-party services | pure I/O, formats, read-only queries | – | not modelled |

The parts meet in the database: the analyze handler writes a job row and a
usage row in the transaction in which it holds the subscription's row lock; a
worker claims the row with `FOR UPDATE SKIP LOCKED`; the cancel handler talks to
the worker through one column; deleting a project cascades through foreign keys
under whatever still runs; the worker reports to the user through result rows,
a notification and event rows that a stream forwards to a page. Stripe changes
the subscription by webhooks and the users by API calls that tell Stripe first.
The agent workers share nothing but their job queue and the circuit rows.

## Modules

| Module | Models |
|---|---|
| `JobLifecycle` | what the pipeline promises about each job: started at most once, reported on at most once, then only relabelled by a late cancel or removed |
| `AnalysisJobs` | the analysis pipeline and its quota |
| `JobLease` | what the agent queue promises about each job: claimed once, and reported on at most once, by the process that claimed it, whoever else has given it up |
| `EventFeed` | what a page that watches a job is promised of its events: the next one after those it has shown, once, or all of them anew |
| `Inbox` | what Stripe and the books are promised of webhook events: applied, recorded and answered in one step by the one delivery that took it up, or no trace |
| `AgentJobs` | the agent job queue: claims, heartbeats, the staleness cutoff, late writers |
| `EventStream` | a job's event rows, the stream that polls them and the page that reconnects |
| `Providers` | selection of models, calls with retries and fallback, the circuit breaker |
| `Billing` | the subscription row between Stripe's events and the users' requests |
| `Membership` | members, invitations, seats |
| `Workspace` | offices with their primary flag; the review of a variation with its audit trail |
| `Sessions` | refresh tokens and password reset links of one user |
| `Documents` | projects, texts, documents, object storage and the plan's limits |
| `MCAnalysisJobs`, `MCBilling` | the symmetry sets of their instances |
| `MCAccounts` | `Membership`, `Workspace`, `Sessions` and `Documents` side by side |
| `MCServices` | `Providers` and `EventStream` side by side |
| `AnalysisJobsProofs`, `AgentJobsProofs`, `BillingProofs`, `SessionsProofs`, `DocumentsProofs`, `EventStreamProofs` | the theorems about them |
| `AccountsProofs` | the theorems about `Membership` and `Workspace`, and about their composition with `Sessions` and `Documents` in `MCAccounts` |
| `ServicesProofs` | the theorems about `Providers`, and about its composition with `EventStream` in `MCServices` |

`AnalysisJobs` composes the handlers, the workers and the quota because they
share a transaction. `EventStream` composes the worker's reporting, the stream
and the page, and keeps of the pipeline only the job's status and the order in
which it is committed and announced. The components of `MCAccounts` and of
`MCServices` share no state, so their product would say nothing that the
components do not: one component moves in each behaviour (`part`), and a run
checks all of them.

Four modules are abstract specifications, without processes, locks and retries; each
is implemented by a component under a refinement mapping (`INSTANCE ... WITH`), which
a run checks and a theorem proves: `JobLifecycle` by `AnalysisJobs`, `JobLease` by
`AgentJobs`, `EventFeed` by `EventStream`, `Inbox` by `Billing`.

A second idea recurs. Most of the unlocked read-then-write code is correct only
when nobody wrote in between. Such a request carries `stale`, a history
flag that is set when another request commits a change of what it had read, and
the commit of a stale request sets a second history variable (`skewed`,
`crossed`, `tangled`, `officesSkewed`). The properties say that
a bad state needs such an overlap: without one the guards in the code are
enough, and a bug in a guard breaks the property without any overlap. They do
not say that the overlap is harmless: it is not, and nothing in the code prevents
it. The notes of the hazards in PROJECT.json name what each property excuses. (A review
request needs no flag: the numbers in the audit rows tell which decisions overlapped.)

## How AnalysisJobs corresponds to the code

A request creates at most one job, so a request and its job share a name. `reqPc` is
the place of an analyze handler: `reading` (about to select the subscription `FOR
UPDATE`), `creating` (it found none), `reopening` (it has committed the row it
created), `counting`, `admitted` (about to insert), `done`. `wPc` is the place of a
worker in `run_once`, `process_job` and `run_to_completion`. `wJob` is the job object
the worker's session holds; a database read of it is `status[wJob[w]]`.

* `BeginAnalyze` is the visibility check and the unlocked query for an active
  job. `LockSubscription`, `MissSubscription` and `CreateSubscription` are the
  paths of `get_or_create_subscription(for_update=True)`; `CountUsage` the count
  and comparison; `Enqueue` the commit of job and ledger row, which fails on
  the foreign key when the project is gone. `Refuse` is every other way out
  (no contract, suspended, an error): the transaction rolls back. `Finish`
  releases the row lock.
* `stamp` and `beganIn` are `created_at`, which is the start of the transaction
  (`now()` in Postgres); the creation path commits, so its rows get the time of the
  transaction that the creator's next statement starts (`ReopenTransaction`), which may
  be much later and in another month. The claim order and the ledger's month follow from it.
* `ReadForCancel` and `WriteCancel` are the two halves of `cancel_analysis`.
* `BeginDelete` is the archive-first gate; `DeleteProject` the one DELETE with
  its cascades. `deleting` is a handler between the two, removing blobs.
* `Claim` takes the oldest queued row that nobody has locked: `SKIP LOCKED` passes over
  a row that a cancel or a deletion is about to write, and over one for each other idle
  worker, who may be claiming it (`Claimable`).
* `CheckCancel`, `Prepare`, `Poll`, `CancelJob`, `FailJob`,
  `IngestResult` are the worker's other steps; `IterationFails` is an exception that
  `run_forever` swallows; `WorkerCrash` is the death and restart of a process.
  `MaxPolls` polls fit before the 30-minute deadline: only their order matters,
  since the deadline is tested after a poll and two cancel checks.
* `Settle` overwrites the status whatever it is: the UPDATE is by primary key.
  A deleted row raises `StaleDataError`, which `fail_job` and `cancel_job` catch
  and `run_forever` swallows for `ingest_result`; nothing is written.

Abstractions: one organisation; one plan (a plan that changes while requests
are in flight is not modelled); documents, results and messages are left out;
`ingest_result` is one step because its flushes become visible with its commit;
progress events are the subject of `EventStream`; a failed read of the cancel flag
counts as "no", as in the code. `created_by` is always set by the router, so
every report notifies. The replay path of `enqueue_analysis` is not reachable,
the router passes no `request_id`.

## How AgentJobs corresponds to the code

Time is counted in ticks. `silence[j]` is the time since `heartbeat_at`, up to
the first value beyond the cutoff; `wait[w]` the time until the next attempt of the
heartbeat loop. The loop sleeps its interval after each attempt, so the next one comes
an interval and a bit later: the time an attempt takes and, on a busy event loop, the
time until the sleep is noticed to be over. `Periods` are the distances between two
attempts, `BeatEvery..BeatEvery + MaxLate`, and every one of them may be any of these;
the bound `MaxLate` is a parameter. `Tick` does not pass an attempt that is due.

* `Enqueue` is `enqueue_agent_analysis`: "pending" exists only before its commit.
* `Reclaim`, `Claim` and `FindNothing` are one `run_once`. `Reclaim` comes before
  every claim and fails the stale rows, but for those that `SKIP LOCKED` passes over
  (`Lockable`: a process that holds a job may be writing its row). `Claim` takes the oldest queued
  row, or one behind it for each other worker whose claim holds a row lock at
  the moment (`Skippable`).
* `Beat` and `MissBeat` are one turn of `_heartbeat_loop`. A worker that has lost
  its job only logs it: `Beat` then changes no row.
* `AgentDone`, `FailJob`, `Complete` write by primary key whatever the row's
  status. `FailJob` commits while the heartbeat loop is alive; on success the
  loop is cancelled first (`EndRun`), so the row ages between `EndRun` and
  `Complete`. `Complete` does not write `error_code`: a job reclaimed in between
  is completed and keeps `WORKER_STALLED`.
* `LoseRow` is the `StaleDataError` of a deleted row. `run_forever` does not catch
  it, nor any other exception of `run_once`: the process ends (`Crash`, bounded by
  `MaxCrashes`) and whatever supervises it starts a new one (`Restart`).

Agents, results, percentages between 0 and 100 and error texts are abstracted:
the last agent reports 99, so 100 is the worker's. `Restart` reuses the name of a
worker: rows keep the `worker_id` of its former life, but the code compares a
`worker_id` only with that of the job the process holds, which it claimed itself.

## How EventStream corresponds to the code

One job, its worker, and for each page an `EventSource`, a generator on the
server (`stream`) and the frames between them (`wire`).

* `Emit` is `ProgressReporter.emit`: the seq advances whether the row is written
  or the write is swallowed; a row of a deleted job is refused by its foreign key.
  `EmitStep` stands for every stage and for the heartbeats of the engine's poll.
* `EndsWell` is the commit of `ingest_result`; `EmitFinalizing` and
  `EmitCompleted` follow it. `EmitBadEnd` is `fail()`/`cancelled()`, which comes
  before the commit in `SettleJob`. `WorkerStops` is a crash or an exception.
* `Fetch` is `_fetch_after` (`FetchFails`: an error counts as no rows),
  `SendFrame` one row of the batch, `CheckJob` `_job_is_terminal` with the "end"
  frame, `CheckFails` its unguarded error, `Ceiling` the 30 minutes.
* `Connect` takes the page's `Last-Event-ID`; `Refused` is 404 or 401; `Break` a
  lost connection with the frames on their way; `Receive` the hook's handlers;
  `LeavePage` a reload, which starts from the first event.

Labels, percentages and counts of an event are left out; a row is its seq and
whether it is a step or a final event.

## How Providers corresponds to the code

A process selects (`BeginSelect`, one `Probe` per model, `Choose`), makes calls one
after the other and leaves. `Probe` is `is_open`; when the cooldown is over its
write of "half_open" is a second statement, `BeginTrial`. `ProbeFails` is a
telemetry database out of reach, which fills the availability cache;
`ProbeCached` and `CacheExpires` are that cache. `AttemptFails` is one failed
attempt: retries, then the fallback with retries of its own, then the end.
`Rejected` is an authentication error, `Cancel` a cancellation by a sibling agent.
`RecordSuccess`, `RecordOther`, `ReadCircuit` with `WriteFailure`, and
`OutcomeLost` are `record_outcome`. `final_error is None` is `Success`, which a
cancelled call satisfies. Rankings by priority, cost, context or latency are any
order of the surviving models, with the quality tag respected.

## How Billing corresponds to the code

`sub` is the row, `snap[h]` the row as a request's session loaded it, `Merge` the
UPDATE of the columns that differ from what was loaded. `Load` begins
every request; a grace period that is over comes first (`Expire`), with a commit
of its own that takes a webhook's flushed idempotency record along. `Deliver`
and `Commit` are a webhook; a second delivery of an uncommitted event waits on the
primary key, `DeliverAgain` is one of a recorded event. `found[h]` is what the SELECT by
`stripe_invoice_id` found when the request looked, long before its commit: a "voided"
that looked before an overlapping "paid" was committed is recorded without effect, and
the invoice stays paid. `Effect` and
`InvoiceEffect` are the branches of `_apply_webhook_event`. `Begin`, `Return`,
`StartCheckout`, `CallStripe`, `SetEnds` are the API's requests. `Fail` is an
exception or crash. Stripe is external: its actions send the events the code
subscribes to in the order of their causes; delivery is in any order, repeated,
and to several requests at once. (The webhook handler is a coroutine without an
await between its read and its commit, so one process handles one at a time; the
model allows several, as several processes would.)

## How Membership corresponds to the code

Each request is a `Begin…` that makes the checks of the service function on the
committed rows and a `Commit…` that writes. `Abort` is an exception, a
violated constraint included. The constraints of `models.py` are guards of the
commits: one account per email, one membership per user, and the partial unique
index of open invitations (which does not know of expiry; `create_invitation`
revokes lapsed rows first). `BeginAccept` covers `accept_for_existing_user` (with
the case of somebody who is a member already) and `register_and_accept`.

## How Workspace corresponds to the code

An office request reads in two statements. `BeginCreate` sees whether there is an
office, `BeginChange` loads the office to update or delete and remembers whether it was
primary; `PlanCreate`, `PlanPromote` and `PlanDelete` read the other offices and decide
which to demote and which inherits. `CommitEdit` is the transaction: the unique index
refuses a second primary office, the UPDATE of a deleted row fails.

`OpenReview` is the first statement of a review request (it reads the user), which
starts the transaction; `LoadReview` reads the variation and checks the transition;
`CommitReview` writes status, reviewer (only where it differs from what was read) and
the audit row. `audit_log` has one timestamp, `created_at`, which is the
transaction's start, and `list_audit` orders by it. The trail is therefore a set of
rows: `created` is the number of decisions committed when the transaction began, which
orders rows as `created_at` does unless they overlap, and `committed`, a history field,
the row's own number. Of two overlapping decisions the one begun first may be
committed last and is listed below the other: the newest row is then not the stored
status. Names, addresses and comments are left out.

## How Sessions corresponds to the code

`BeginLogin`/`CommitLogin` is `issue`; `BeginRotate`/`CommitRotate` is `rotate`;
`BeginReuse` its branch for a revoked token, which signs everybody out;
`BeginLogout`/`CommitLogout` is `revoke`; `BeginLogoutAll`/`CommitSweep` is
`revoke_all`, its SELECT and its UPDATE. `BeginReset`, `CommitReset`,
`SelectTokens`, `CommitSweep` are `reset_password` with its two transactions.
`Drop` is a crash or error before a commit. A token knows the login its chain
began with; `old` says that a sign-out was ordered since its login or refresh
began, `spared` that it was issued since that order or that the sign-out broke off.

## How Documents corresponds to the code

Creation, archiving and deletion of projects run in FastAPI's threads; an upload is
a coroutine on the event loop of the one API process (`Dockerfile:20` starts one),
so from its last await to its end (`loop`) no other upload comes between, but a
thread may. `BeginUpload` and `BeginContract` load the project and await the body,
`Admit` makes the limit checks, `PutBlob` and `InsertRow` are `add_document`
(repeated for a register of several rows), `WriteText` is `set_contract`.
`BeginDeleteProject`, `RemoveBlob`, `KeepBlob`, `DeleteProject` are the deletion.
Contents, names and formats are left out; sizes are units; months are left out of
the document limit, as a model of one month. `Unarchive` asks no limit, as in the
code.

## Runs

| Run | Instance | Shows |
|---|---|---|
| `analysis` | 3 requests, 1 project, 2 workers, 1 cancel in flight, plan of 1, 2 polls, crashes; about 2.2 million states | all safety properties and the refinement of `JobLifecycle` |
| `analysis_live` | 2 requests, 1 worker, 2 polls, 2 months, fair; about 540 000 states | workers return, the queue drains, requests finish; the quota across a month's end |
| `agents` | 2 jobs, 2 workers, interval 1, up to 1 late, cutoff 2, 1 miss, 1 crash, fair; about 1.1 million states | the safety properties of the agent queue, the refinement of `JobLease`, and that no job stays processing |
| `billing` | 2 requests in flight, 2 checkouts, 5 events, 1 failure; about 1.2 million states | events not lost, the row follows Stripe, and the refinement of `Inbox` |
| `accounts` | 2 people, 2 invitations, 2 seats; 3 offices, 2 reviewers, 4 decisions; 3 tokens, 1 link; 2 projects, 3 documents, 1 failure; 2 requests in flight each; about 2.9 million states | the properties of `Membership`, `Workspace`, `Sessions`, `Documents` |
| `services` | 2 processes, 2 models of one provider, threshold 2, 1 outage; 1 page, 5 events, 2 breaks; fair; about 430 000 states | the properties of `Providers` and `EventStream`, the refinement of `EventFeed` among them |
| `one_active` | 2 requests | a second active job of one project (finding) |
| `cancel_outcome` | 1 job, 1 cancel | an outcome relabelled as cancelled (finding) |
| `stuck_running` | 1 job, no crash, fair | a job that stays running (finding) |
| `agent_mistaken` | 1 job, 2 workers, interval 3, up to 1 late, cutoff 12, 3 misses | a live worker taken for dead (finding) |
| `early_record` | 1 request, 2 checkouts | an event recorded before its effect (finding) |
| `told_early` | 1 page | a page told of an end that is not stored (finding) |

Bounds. For `AnalysisJobs`: two requests race for the last run of the plan while a
third created the subscription or already spent a run; two workers race for one job
while a third queued job exists; one cancel in flight at a time is enough because a
cancel touches one row and may start again as often as it likes; one project makes all
requests contend. `MaxPolls = 2` has a poll before the deadline and one after it, so
the loop is left by an answer, by a cancel and by the deadline, and its back edge is
taken (`AfterCheck` goes back to the check before the next poll). Months matter only
as "this one" and "the last one".

In `agents` two workers are an owner and a reclaimer, and a second job keeps either
busy. Attempts are one or two ticks apart and the cutoff is two, so that a punctual
worker and a late one are safe as long as no attempt fails, and one miss is enough to go
past the cutoff. `agent_mistaken` has the code's own ratio, a cutoff of four intervals.
The bound the heartbeats keep depends on interval, lateness and cutoff (45 s and
3 minutes in the code, which bounds no lateness); the theorem `BeatsProtect` covers
every value of the three.

In `billing` five events are a completed checkout (two events), a failed payment, and
two more that overtake, repeat or end the subscription; two subscriptions are
the old one and the one of a second checkout; one failure is enough to lose what a
transaction had not committed.

In `accounts` two requests in flight are what it takes for one to outdate the other,
and the same request may begin again as often as there are rows left. Two people are an
admin and somebody else, who may become an admin; two invitations are a lapsed
one and its successor, or two of one email; three offices are a deleted one and
two that compete to inherit; three tokens are a login, its successor and another
login. In `Documents` the limits are set so that each is reached before the keys
run out. In `services` both models belong to one provider, so that two processes
contend for one circuit; a retry only repeats the attempt, so there are none; one
outage reaches each swallowed error. Five events are two steps, "Finalizing",
the final one and a lost write; two breaks are a loss in the middle and a reload.

Requests, events and rows are finite, so the system may stop: deadlock is not
checked. Symmetry (of requests, workers, cancels, subscriptions, interchangeable
ids) is used only where no property but invariants, action properties and refinements
is checked.

### Properties

Pipeline.

* `SingleOwner`: two workers never hold one job.
* `OutcomesAgree`: at most one notification per job; result rows exist exactly
  with the "complete" one; "succeeded" and "failed" each go with their own.
* `WithinQuota`: the runs of the current month, deleted ones included, are
  within the plan. The model shows the exact exception: an organisation older
  than the billing tables, whose subscription row one analyze request creates,
  may exceed the plan by one, because the creator commits and holds no lock.
* `NoOrphanJobs`: no job row survives its project.
* `SettledIsFinal`: a terminal status changes only by deletion once no worker
  holds the job and no cancel that read it as queued is in flight.
* `LifecycleSpec`: the pipeline implements `JobLifecycle`.
* `WorkersReturn`, `QueueDrains`, `RequestsFinish`: liveness.

Agent queue.

* `SoleRunner`: no two processes run one agent job, because a stale job is failed
  and not queued again.
* `HeartbeatsProtect`: while the loop runs, the job is not stale unless
  `(misses + 1) * (interval + MaxLate) > cutoff`. With the code's figures two failures
  in a row are harmless as long as no attempt adds more than 15 s to its 45 s. A third
  is not: the fourth attempt comes later than 4 * 45 s, which is the cutoff.
* `RowTruthful`: results and 100 % belong to completed jobs, a failed job has an
  error code, an unfinished one has none.
* `LeaseSpec`: the queue implements `JobLease`. The holds are the jobs in some
  process's hands; a reclaim is a `GiveUp`, after which the holder's late commit may
  still come; a process that dies or finds its row deleted lets go. It follows that a
  completed job, or a failed one without a holder, changes by deletion only, which
  the module also states (`LastWord`).
* `StalledRecovered`: a job does not stay processing, under fairness.

Stream.

* `FeedSpec`: the stream implements `EventFeed`. Whatever connections, reads and
  writes are lost, a page shows the first event row it has not shown, once, until it
  is told the end, is refused or is left. It follows that a page has received each row
  up to its last one, once and in order (`ResumesExactly`).
* `CompletedIsStored`: a page that shows "Completed" finds the job over.
* `StreamsEnd`: a page that watches a job that is over is told so, without the
  ceiling's help, also when the final event was never written.

Providers.

* `FailuresCounted`: a circuit counts the failures recorded since the last success
  and is closed exactly while they are below the threshold, until a row is written
  on an outdated reading, and again after the next success.
* `NoEarlyTrial`: an open circuit is tried before its cooldown is over only on a
  reading that another process has outdated.
* `OpenGetsTrial`: an open circuit does not stay open.

Billing.

* `InboxSpec`: the webhooks implement `Inbox`. `taken` are the events whose
  reservation some request has flushed; a rollback drops one, the last commit applies,
  records and answers it. It follows that the effect of an event is committed at most
  once (`AppliedOnce`), that only its own events book and void an invoice, and that a
  "voided" delivery begun after the invoice was booked (`known`) does void it.
* `NothingLost`: an event answered 2xx has had its effect (a checkout event may have
  been recorded by the early commit, see the findings).
* `PaidIsLinked`: a row on the paid plan names a subscription Stripe charges or
  charged.
* `FollowsStripe`: without overtaking and overlap, once everything sent is recorded
  the row and the invoices say what Stripe says, whatever was repeated or failed.

Accounts.

* `LockoutNeedsOverlap`: an organisation without an admin needs two overlapping
  changes of roles. Two admins who demote each other at once do produce it.
* `WithdrawnOrUsed`: an invitation is both accepted and revoked only by overlapping
  requests.
* `OneOpenInvitation`: one open invitation per email, unconditionally.
* `PrimaryOffice`: never two primary offices; none, where there is an office, only
  after overlapping requests.
* `TrailTellsStatus`: in the order of `created_at`, the newest audit row tells the stored
  status and its reviewer if no other decision overlapped it (`Alone`), and of two
  neighbouring rows nothing overlapped the later continues the earlier.
* `OneTokenPerLogin`: a login has one live token unless two requests with one of its
  tokens overlapped.
* `EverybodyOut`: when a sign-out is over, a token of a login from before it is live
  only if it was issued while the sign-out was at work, or if that broke off.
* `LinkUsedOnce`: a reset link sets a second password only for overlapping requests.
* `LimitsHold`: documents, projects and storage are within the plan, but for projects
  nobody counted (unarchived, or created beside another) and texts nobody measured.
* `ContentFollowsRows`: a row has its content until a deletion of its project begins;
  without failures, and without an upload into a project under deletion, a content
  has its row.

The type invariants (`TypeOK`, `TypesOK`) are checked in every passing run but
`analysis_live`.

### Fairness

`AnalysisJobs!FairSpec` assumes weak fairness of each worker's step and of each
request's step: `run_forever` is a loop that sleeps at most two seconds when
idle, engine calls have an HTTP timeout, and a request handler runs to its end.
Nobody is assumed to click, cancel, delete, fail or crash, and nothing is
assumed about the engine's answers: it may say "still running" for ever.

`AgentJobs!FairSpec` assumes that time passes, that due heartbeat loops run, that
an agent run ends (each model call has a timeout and a bounded number of
retries), that idle workers poll and that a dead process is started again, which
is the platform's job. It does not assume that heartbeats reach the database.

`EventStreamFairness` assumes that the generator goes on polling and sending, that
the browser connects again and that frames arrive. Nothing makes the worker go on,
nor the 30-minute ceiling come; breaks are bounded.

`ProvidersFairness` assumes that time passes (cooldowns, the cache), that a process
goes on with what it began, and that runs of the agents end and others begin. The
strong fairness of `Leave` is that a run makes finitely many calls: whenever it is
between two calls it may be through, and it does not go on for ever.

## Findings

* `one_active`. "One active analysis per project" (`routers/projects.py:479`) is
  checked without a lock and not checked again under the subscription lock.
* `cancel_outcome`. "already terminal: idempotent no-op" (`routers/projects.py:523`):
  the status is read, then written, without a lock.
* `stuck_running`. "never leave a job stuck "running"" (`job_worker.py:344`):
  `ingest_result` is outside the try block; the exception is logged, the row
  stays running, nothing reclaims it, and the project cannot be analysed again.
* `agent_mistaken`. "a slow-but-alive worker ... is never mistaken for a dead one"
  (`agents/worker.py:36`): heartbeats that fail are only logged, and the loop sleeps 45 s
  after each attempt. A worker, alive and working, that misses three in a row is
  taken for dead, since its fourth attempt comes after the cutoff of 3 minutes.
* `early_record`. The idempotency record is "not committed until
  `_apply_webhook_event` finishes without error" (`services/billing.py:569`); a
  checkout event that meets an expired grace period commits it before its effect, and
  a failure after that loses the event.
* `told_early`. The page refreshes "for persisted totals" when it is told of a
  terminal event (`analysis/page.tsx:117`); failures and cancellations are
  announced before they are stored.

Three hazards have no property. An unarchive between the archive gate of a
deletion and its DELETE does not stop it: the code promises the check only at the
request's start. The stream of a deleted project runs to its ceiling, which is all that
ends it. A cancelled model call is recorded as a success and closes the circuit: the
code nowhere says what a cancelled call is, so the model has it and `FailuresCounted`
counts from the last recorded success, true or not.

## Proofs

TLC checks the instances above; the following hold for every value of the
constants that satisfies the named assumptions.

| Module | Assumption | Theorems |
|---|---|---|
| `AnalysisJobsProofs` | `ConstantsAssumption` | `TypeCorrect`, `ExclusiveClaims` (`SingleOwner`), `OneOutcome` (`OutcomesAgree`), `QuotaHolds` (`WithinQuota`), `NoOrphans` (`NoOrphanJobs`), `SettledStays` (`SettledIsFinal`), `Refinement` (`LifecycleSpec`) |
| `AgentJobsProofs` | `AgentConstants` | `TypeCorrect`, `OneRunner` (`SoleRunner`), `BeatsProtect` (`HeartbeatsProtect`), `RowsTruthful` (`RowTruthful`), `EndIsLast` (`LastWord`), `Refinement` (`LeaseSpec`) |
| `BillingProofs` | `BillingConstants` | `TypeCorrect`, `EffectOnce` (`AppliedOnce`), `AnsweredApplied` (`NothingLost`), `PaidPlanIsCharged` (`PaidIsLinked`), `RowFollowsStripe` (`FollowsStripe`), `Refinement` (`InboxSpec`) |
| `AccountsProofs` | `MembershipConstants`, `WorkspaceConstants` | `MembershipTypes`, `AdminRemains` (`LockoutNeedsOverlap`), `UsedOrWithdrawn` (`WithdrawnOrUsed`), `OneInvitation` (`OneOpenInvitation`); `WorkspaceTypes`, `OnePrimaryOffice` (`PrimaryOffice`), `TrailIsTrue` (`TrailTellsStatus`); `AccountsComponents`, `AccountTypes` (`TypesOK`) |
| `SessionsProofs` | `SessionsConstants` | `TypeCorrect`, `OneLiveToken` (`OneTokenPerLogin`), `AllSignedOut` (`EverybodyOut`), `LinkOnce` (`LinkUsedOnce`) |
| `DocumentsProofs` | `DocumentsConstants` | `DocumentsTypes`, `WithinThePlan` (`LimitsHold`), `RowsAndContents` (`ContentFollowsRows`) |
| `ServicesProofs` | `ProvidersConstants`, `EventStreamConstants` | `ProvidersTypes`, `CountIsExact` (`FailuresCounted`), `TrialsWait` (`NoEarlyTrial`); `ServicesComponents`, `ServicesTypes` (`TypesOK`) |
| `EventStreamProofs` | `EventStreamConstants` | `TypeCorrect`, `NothingMissed` (`ResumesExactly`), `CompletedIsTrue` (`CompletedIsStored`), `Refinement` (`FeedSpec`) |

Each component has a theorem `Invariance == Spec => []IInv` from which the others
follow (`MembershipInvariance`, `WorkspaceInvariance`, `DocumentsInvariance` and
`ProvidersInvariance` where a name was taken), one lemma per kind of step or part of
the invariant, and these inductive invariants.

* `AnalysisJobs`: `RequestInv` ties a request's place to what it holds: a request
  that counts or is admitted holds the lock or created the row, a job row exists only
  for a finished request, and the ledger row has the request's month. `RowInv`
  ties a row to its worker: a held job was started and nobody has been told about
  it, a started row never becomes queued again; from that a claim is exclusive and
  a report is the first one, although the row's status may have been overwritten by a
  late cancel. `QuotaInv` is the reason for the quota: usage, plus one reserved for
  an unlocked creator still in flight, is within the bound, and strictly below it
  while the lock holder is admitted for the current month; the count and the insert
  are two steps, so `WithinQuota` alone is not inductive.
* `AgentJobs`: `HoldInv` (a held job was claimed, is not queued again and not
  completed, and has one holder), `BeatInv` and `RowInv`. `BeatInv` is the argument
  for the heartbeats: while a worker runs a job that is still processing,
  `silence + wait <= (interval + MaxLate) * (misses + 1)`. A tick moves a unit from
  `wait` to `silence`, a missed heartbeat adds a period on the left and the longest
  period on the right, a recorded one starts again.
* `Billing`: `Holding` (an event is with one request at a time, and its effect has
  not been committed while it is there), `Ledger` (what is recorded or answered was
  applied, the early commit aside), and `Links`: every row, stored or loaded, that is
  on the paid plan is linked, to a subscription that has started. The loaded rows
  matter, because a merge writes them. `Lookups` is what a request that looked for an
  invoice knows of it: only a "voided" finds one, since its "paid" event alone books it,
  and what was found stays booked. While `clean` lasts a "voided" that found none has
  none to void either (`Fresh`). `FollowsStripe` needs two more. `LogInv` is
  about Stripe alone and always holds: the last event that tells of a subscription's
  state, or of its end and its pending cancellation, tells the truth about it
  (`Truthful`), the checkout's own event comes first, and an overdue subscription was
  reported so. `CleanInv` is about the row while `clean` lasts (`Orderly`: one
  webhook at a time, on the row as it is, in the order of the log): for the linked
  subscription the row says what the last *applied* of those events says
  (`StateFollows`, `PlanFollows`), a local cancellation included as long as the event
  it caused is still to come (`Pending`). When everything is recorded the
  two last events are the same, and row and Stripe agree.
* `Membership`, `Workspace`, `Sessions`, `Providers`: what a request in flight
  still knows of the rows it read, unless another has outdated it (`RoleReading`,
  `InviteReading`; `EditReading`, `DecisionReading`; `TokenReading`, `LinkReading`;
  `Knows`, `Reads`). `SignOutReading` is the argument for `EverybodyOut`: a live token
  that is to end is in the hands of a sign-out that has selected it, or of one that
  has yet to look. In `Workspace` the trail needs more: `TrailNumbered` (each number of
  decisions belongs to one row, and a row was begun before it was committed) and
  `TrailChained` (a row committed next after it was begun continues the one before it,
  and the row committed last tells the status). `ChainTells` then goes from numbers to
  the order of `created_at`: a row nothing overlapped was committed next after it was
  begun, or some other row would have its number in between; the newest such row is the
  one committed last, and its neighbour the one committed before it.
* `Documents`: `SpaceInv` and `CountInv` are the arguments for the limits: a request on
  the event loop still has room for what it is about to add (`UploadRoom`, `TextRoom`),
  and so has a creation nobody has outdated, because whatever else happens in between
  only frees room or is excused. That nothing is uploaded beside it is the loop's;
  `TextReading` is why a text may take the room of the one it replaces. The counting
  lemmas (`FewerUnits`, `OneText`) need the set of projects to be finite, which
  `DocumentsConstants` says. `KeysKnown` keeps a row to come out of every
  deletion's keys, and `CalmWork` a deletion's keys complete, while no upload overlaps it.
* `EventStream`: `LogInv` (the log has every event row there has been, in order,
  while there is a job) and `PageInv` for each page: the frames on their way are the
  next rows after the page's last one without a gap, the stream's batch are the next
  ones after those, and "completed" is anywhere on that path only when the job is
  over. A row written later has a higher seq than all of them, which keeps both chains.

The refinements use the same invariants: each proof has one lemma `...Step` that maps
a step to a step of the abstract specification or to a stutter. For `JobLease` it is
`HoldInv` that matters: only because nobody else holds a job does letting it go free it,
and only because a held job is neither queued nor completed is its holder's late commit
a report of the abstract job. For `EventFeed` it is the chain from the page to the frame
it receives, which says that no row lies between; for `Inbox` that an event is with one
request at a time, and that a request in its grace-period branch has a checkout event.
`AccountsComponents` and `ServicesComponents` say that what is proved of a component
holds of the composition that the runs check.

The reading invariants depend on the history flags but the proofs do not rest on them
for the code's own state: the flags are written and never read by a guard.

Model-checked only: the liveness properties (fairness is outside the prover's
reach) and the findings: every invariant, action property and refinement of the passing
runs is also a theorem.

The prover reads an update of two fields at one place, `[f EXCEPT ![x].a = v, ![x].b = w]`,
as two functions that are equal, and proves anything from it. The models write
`[f EXCEPT ![x] = [@ EXCEPT !.a = v, !.b = w]]`, which it reads as what it means.

## Not modelled

* Parsers, mail, PDF reports, dashboards, audit queries, marking notifications as
  read, HTTP middleware, rate limiting, logging, configuration: pure I/O, formats or
  read-only queries, or a library.
* Access tokens, the OAuth sign-in and `deps.py`: stateless checks; a sign-in by
  Google issues tokens like a login.
* The agents' prompts, tools and review rules: data. The orchestrator is modelled as far
  as agents of a run call models, cancel each other and report progress.
* Of billing: the link to the billing portal, the number of seats told to Stripe, and
  limits that change while requests are in flight.
* Of the organisation's profile: `update_org` writes columns nothing else depends on;
  `set_logo_key` has no caller. Comments are append-only.
* The frontend, but for the page's stream hook.
