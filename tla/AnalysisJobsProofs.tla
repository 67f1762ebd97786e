------------------------- MODULE AnalysisJobsProofs -------------------------
(***************************************************************************)
(* Proofs about AnalysisJobs, for every number of requests, projects,      *)
(* workers and cancels in flight, every plan limit and every bound.        *)
(***************************************************************************)
EXTENDS AnalysisJobs, FiniteSetTheorems, TLAPS

\* A request's program counter tells what it holds and what it has written.
RequestInv ==
  \A r \in Requests :
    /\ reqPc[r] = "idle" => target[r] = NoProject /\ beganIn[r] = 0
    /\ reqPc[r] # "idle" => target[r] \in Projects /\ beganIn[r] \in 1..month
    /\ status[r] # "none" => reqPc[r] = "done"
    /\ reqPc[r] = "reopening" => creator = r
    /\ reqPc[r] \in {"counting", "admitted"} => subLock = r \/ creator = r
    /\ subLock = r => /\ reqPc[r] \in {"counting", "admitted"}
                      /\ creator # r
                      /\ subscribed
    /\ creator = r => /\ reqPc[r] \in {"reopening", "counting", "admitted", "done"}
                      /\ subscribed
    /\ ledger[r] = IF status[r] = "none" THEN 0 ELSE beganIn[r]

\* A job's row against its worker, its notification and the cancels in flight.
RowInv ==
  /\ \A j \in Requests :
       /\ started[j] => status[j] \notin {"none", "queued"}
       /\ status[j] = "running" => started[j]
       /\ ~started[j] => notices[j] = {}
       /\ notices[j] = {} \/ \E kind \in NoticeKind : notices[j] = {kind}
       /\ notices[j] = {} => status[j] \notin {"succeeded", "failed"}
       /\ notices[j] # {} => status[j] \notin {"none", "queued", "running"}
       /\ j \in results <=> Live(j) /\ "complete" \in notices[j]
       /\ status[j] = "succeeded" => notices[j] = {"complete"}
       /\ status[j] = "failed" => notices[j] = {"failed"}
  /\ \A w \in Workers :
       /\ wPc[w] = "idle" <=> wJob[w] = NoRequest
       /\ wJob[w] # NoRequest => started[wJob[w]] /\ notices[wJob[w]] = {}
  /\ SingleOwner
  /\ \A c \in Cancellers :
       cJob[c] # NoRequest => status[cJob[c]] # "none"

\* The unlocked creator's run is reserved until its request ends.
Reserved ==
  IF creator # NoRequest /\ reqPc[creator] \in InFlight THEN 1 ELSE 0

\* The lock holder that was admitted still finds room at its INSERT.
QuotaInv ==
  /\ Cardinality(UsedThisMonth) + Reserved <= QuotaBound
  /\ \A r \in Requests :
       subLock = r /\ reqPc[r] = "admitted" /\ beganIn[r] = month
         => Cardinality(UsedThisMonth) + Reserved < QuotaBound

IInv ==
  /\ TypeOK
  /\ RequestInv
  /\ RowInv
  /\ NoOrphanJobs
  /\ QuotaInv

-----------------------------------------------------------------------------
(* Splitting a step                                                        *)

\* The steps of analyze requests.
RequestAction ==
  \/ \E r \in Requests, p \in Projects : BeginAnalyze(r, p)
  \/ \E r \in Requests : RequestStep(r) \/ Refuse(r)

\* The steps of cancel requests.
CancelAction ==
  \/ \E c \in Cancellers, j \in Requests : ReadForCancel(c, j)
  \/ \E c \in Cancellers : WriteCancel(c)

\* The steps of the project handlers.
ProjectAction ==
  \E p \in Projects : Archive(p) \/ Unarchive(p) \/ BeginDelete(p) \/ DeleteProject(p)

\* The steps of the workers, failures included.
WorkerAction ==
  \E w \in Workers : WorkerStep(w) \/ IterationFails(w) \/ WorkerCrash(w)

LEMMA NextCases ==
  Next <=> RequestAction \/ CancelAction \/ ProjectAction \/ WorkerAction \/ NextMonth
BY DEF Next, RequestAction, CancelAction, ProjectAction, WorkerAction

-----------------------------------------------------------------------------
(* Type correctness                                                        *)

LEMMA TypeInit == ConstantsAssumption /\ Init => TypeOK
BY DEF ConstantsAssumption, Init, TypeOK, JobStatus, RequestPc, WorkerPc, NoticeKind, Active

LEMMA TypeRequest == TypeOK /\ RequestAction => TypeOK'
<1> SUFFICES ASSUME TypeOK, RequestAction PROVE TypeOK'
  OBVIOUS
<1> USE DEF quotaVars, requestVars, projectVars, rowVars, workerVars, cancelVars
<1>1. ASSUME NEW r \in Requests, NEW p \in Projects, BeginAnalyze(r, p) PROVE TypeOK'
  BY <1>1 DEF BeginAnalyze, TypeOK, RequestPc
<1>2. ASSUME NEW r \in Requests, Refuse(r) PROVE TypeOK'
  BY <1>2 DEF Refuse, Finish, TypeOK, RequestPc
<1>3. ASSUME NEW r \in Requests, LockSubscription(r) PROVE TypeOK'
  BY <1>3 DEF LockSubscription, TypeOK, RequestPc
<1>4. ASSUME NEW r \in Requests, MissSubscription(r) PROVE TypeOK'
  BY <1>4 DEF MissSubscription, TypeOK, RequestPc
<1>5. ASSUME NEW r \in Requests, CreateSubscription(r) PROVE TypeOK'
  <2>1. CASE subscribed
    BY <1>5, <2>1 DEF CreateSubscription, Finish, TypeOK, RequestPc
  <2>2. CASE ~subscribed
    BY <1>5, <2>2 DEF CreateSubscription, TypeOK, RequestPc
  <2>3. QED
    BY <2>1, <2>2
<1>6. ASSUME NEW r \in Requests, CountUsage(r) PROVE TypeOK'
  BY <1>6 DEF CountUsage, Finish, TypeOK, RequestPc
<1>7. ASSUME NEW r \in Requests, Enqueue(r) PROVE TypeOK'
  BY <1>7 DEF Enqueue, Finish, TypeOK, RequestPc, JobStatus
<1>8. ASSUME NEW r \in Requests, ReopenTransaction(r) PROVE TypeOK'
  BY <1>8 DEF ReopenTransaction, TypeOK, RequestPc
<1>9. QED
  BY <1>1, <1>2, <1>3, <1>4, <1>5, <1>6, <1>7, <1>8 DEF RequestAction, RequestStep

LEMMA TypeWorker == TypeOK /\ RowInv /\ WorkerAction => TypeOK'
<1> SUFFICES ASSUME TypeOK, RowInv, NEW w \in Workers,
                    WorkerStep(w) \/ IterationFails(w) \/ WorkerCrash(w)
             PROVE  TypeOK'
  BY DEF WorkerAction
<1> USE DEF quotaVars, requestVars, projectVars, rowVars, workerVars, cancelVars
<1>0. MaxPolls \in Nat
  BY ConstantsAssumption DEF ConstantsAssumption
<1>1. ASSUME NEW j \in Requests, Claim(w, j) PROVE TypeOK'
  BY <1>1 DEF Claim, Goto, TypeOK, JobStatus, WorkerPc
<1>2. CASE CheckCancel(w)
  <2>1. wPc' \in [Workers -> WorkerPc]
    BY <1>2 DEF CheckCancel, AfterCheck, Goto, TypeOK, WorkerPc
  <2>2. QED
    BY <1>2, <2>1 DEF CheckCancel, TypeOK
<1>3. CASE Prepare(w)
  BY <1>3 DEF Prepare, Goto, TypeOK, WorkerPc
<1>4. CASE Poll(w)
  BY <1>0, <1>4 DEF Poll, Goto, TypeOK, WorkerPc
<1>5. CASE CancelJob(w)
  BY <1>0, <1>5 DEF CancelJob, Settle, Release, TypeOK, JobStatus, WorkerPc, NoticeKind, Live
<1>6. CASE FailJob(w)
  BY <1>0, <1>6 DEF FailJob, Settle, Release, TypeOK, JobStatus, WorkerPc, NoticeKind, Live
<1>7. CASE IngestResult(w)
  <2>1. results' \in SUBSET Requests
    BY <1>7 DEF IngestResult, RowInv, TypeOK
  <2>2. QED
    BY <1>0, <1>7, <2>1 DEF IngestResult, Settle, Release, TypeOK, JobStatus, WorkerPc,
                            NoticeKind, Live
<1>8. CASE IterationFails(w)
  BY <1>0, <1>8 DEF IterationFails, Release, TypeOK, WorkerPc
<1>9. CASE WorkerCrash(w)
  BY <1>0, <1>9 DEF WorkerCrash, Release, TypeOK, WorkerPc
<1>10. QED
  BY <1>1, <1>2, <1>3, <1>4, <1>5, <1>6, <1>7, <1>8, <1>9 DEF WorkerStep

LEMMA TypeOther == TypeOK /\ (CancelAction \/ ProjectAction \/ NextMonth) => TypeOK'
<1> SUFFICES ASSUME TypeOK, CancelAction \/ ProjectAction \/ NextMonth PROVE TypeOK'
  OBVIOUS
<1> USE DEF quotaVars, requestVars, projectVars, rowVars, workerVars, cancelVars
<1>1. ASSUME NEW c \in Cancellers, NEW j \in Requests, ReadForCancel(c, j) PROVE TypeOK'
  BY <1>1 DEF ReadForCancel, TypeOK, Active
<1>2. ASSUME NEW c \in Cancellers, WriteCancel(c) PROVE TypeOK'
  BY <1>2 DEF WriteCancel, TypeOK, Active, JobStatus, Live
<1>3. ASSUME NEW p \in Projects, Archive(p) \/ Unarchive(p) \/ BeginDelete(p) PROVE TypeOK'
  BY <1>3 DEF Archive, Unarchive, BeginDelete, TypeOK
<1>4. ASSUME NEW p \in Projects, DeleteProject(p) PROVE TypeOK'
  BY <1>4 DEF DeleteProject, TypeOK, JobsOf, Live, JobStatus
<1>5. CASE NextMonth
  BY <1>5, ConstantsAssumption DEF ConstantsAssumption, NextMonth, TypeOK
<1>6. QED
  BY <1>1, <1>2, <1>3, <1>4, <1>5 DEF CancelAction, ProjectAction

-----------------------------------------------------------------------------
(* Requests                                                                *)

LEMMA RequestInvRequest ==
  TypeOK /\ RequestInv /\ RequestAction => RequestInv'
<1> SUFFICES ASSUME TypeOK, RequestInv, RequestAction PROVE RequestInv'
  OBVIOUS
<1> USE ConstantsAssumption DEF ConstantsAssumption, RequestInv, projectVars, rowVars,
        quotaVars
<1>1. ASSUME NEW r \in Requests, NEW p \in Projects, BeginAnalyze(r, p) PROVE RequestInv'
  BY <1>1 DEF BeginAnalyze, TypeOK
<1>2. ASSUME NEW r \in Requests, Refuse(r) PROVE RequestInv'
  BY <1>2 DEF Refuse, Finish, TypeOK, InFlight
<1>3. ASSUME NEW r \in Requests, LockSubscription(r) PROVE RequestInv'
  BY <1>3 DEF LockSubscription, TypeOK
<1>4. ASSUME NEW r \in Requests, MissSubscription(r) PROVE RequestInv'
  BY <1>4 DEF MissSubscription, TypeOK
<1>5. ASSUME NEW r \in Requests, CreateSubscription(r) PROVE RequestInv'
  <2>1. CASE subscribed
    BY <1>5, <2>1 DEF CreateSubscription, Finish, TypeOK
  <2>2. CASE ~subscribed
    BY <1>5, <2>2 DEF CreateSubscription, TypeOK
  <2>3. QED
    BY <2>1, <2>2
<1>6. ASSUME NEW r \in Requests, CountUsage(r) PROVE RequestInv'
  BY <1>6 DEF CountUsage, Finish, TypeOK
<1>7. ASSUME NEW r \in Requests, Enqueue(r) PROVE RequestInv'
  BY <1>7 DEF Enqueue, Finish, TypeOK
<1>8. ASSUME NEW r \in Requests, ReopenTransaction(r) PROVE RequestInv'
  BY <1>8 DEF ReopenTransaction, TypeOK
<1>9. QED
  BY <1>1, <1>2, <1>3, <1>4, <1>5, <1>6, <1>7, <1>8 DEF RequestAction, RequestStep

\* Outside the analyze handler a row is neither created nor un-created.
LEMMA RowsStay ==
  ASSUME TypeOK, RowInv, CancelAction \/ ProjectAction \/ WorkerAction \/ NextMonth
  PROVE  /\ \A j \in Requests : status'[j] = "none" <=> status[j] = "none"
         /\ UNCHANGED <<quotaVars, requestVars>>
<1> USE DEF rowVars, TypeOK, Live, JobStatus
<1>1. ASSUME NEW c \in Cancellers, NEW j \in Requests, ReadForCancel(c, j) \/ WriteCancel(c)
      PROVE  /\ \A k \in Requests : status'[k] = "none" <=> status[k] = "none"
             /\ UNCHANGED <<quotaVars, requestVars>>
  BY <1>1 DEF ReadForCancel, WriteCancel
<1>2. ASSUME NEW p \in Projects, Archive(p) \/ Unarchive(p) \/ BeginDelete(p) \/ DeleteProject(p)
      PROVE  /\ \A k \in Requests : status'[k] = "none" <=> status[k] = "none"
             /\ UNCHANGED <<quotaVars, requestVars>>
  BY <1>2 DEF Archive, Unarchive, BeginDelete, DeleteProject, JobsOf
<1>3. ASSUME NEW w \in Workers, WorkerStep(w) \/ IterationFails(w) \/ WorkerCrash(w)
      PROVE  /\ \A k \in Requests : status'[k] = "none" <=> status[k] = "none"
             /\ UNCHANGED <<quotaVars, requestVars>>
  BY <1>3 DEF WorkerStep, Claim, CheckCancel, Prepare, Poll, CancelJob, FailJob, IngestResult,
              Settle, IterationFails, WorkerCrash
<1>4. ASSUME NextMonth
      PROVE  /\ \A k \in Requests : status'[k] = "none" <=> status[k] = "none"
             /\ UNCHANGED <<quotaVars, requestVars>>
  BY <1>4 DEF NextMonth
<1>5. ASSUME NEW c \in Cancellers, WriteCancel(c)
      PROVE  /\ \A k \in Requests : status'[k] = "none" <=> status[k] = "none"
             /\ UNCHANGED <<quotaVars, requestVars>>
  BY <1>5 DEF WriteCancel
<1>6. QED
  BY <1>1, <1>2, <1>3, <1>4, <1>5 DEF CancelAction, ProjectAction, WorkerAction

LEMMA RequestInvOther ==
  ASSUME TypeOK, RequestInv, RowInv,
         CancelAction \/ ProjectAction \/ WorkerAction \/ NextMonth
  PROVE  RequestInv'
<1>1. /\ \A j \in Requests : status'[j] = "none" <=> status[j] = "none"
      /\ UNCHANGED <<quotaVars, requestVars>>
  BY RowsStay
<1>2. month' \in Nat /\ month <= month'
  BY DEF CancelAction, ProjectAction, WorkerAction, NextMonth, ReadForCancel, WriteCancel,
         Archive, Unarchive, BeginDelete, DeleteProject, WorkerStep, Claim, CheckCancel,
         Prepare, Poll, CancelJob, FailJob, IngestResult, Settle, IterationFails,
         WorkerCrash, TypeOK
<1>3. QED
  BY <1>1, <1>2 DEF RequestInv, quotaVars, requestVars, TypeOK

-----------------------------------------------------------------------------
(* Rows                                                                    *)

LEMMA RowInvRequest ==
  TypeOK /\ RequestInv /\ RowInv /\ RequestAction => RowInv'
<1> SUFFICES ASSUME TypeOK, RequestInv, RowInv, RequestAction PROVE RowInv'
  OBVIOUS
<1>1. ASSUME rowVars' = rowVars, workerVars' = workerVars, cancelVars' = cancelVars
      PROVE  RowInv'
  BY <1>1 DEF RowInv, SingleOwner, Live, rowVars, workerVars, cancelVars
<1>2. ASSUME NEW r \in Requests, Enqueue(r) PROVE RowInv'
  <2>1. CASE project[target[r]] = "deleted"
    BY <1>1, <1>2, <2>1 DEF Enqueue, rowVars
  <2>2. CASE project[target[r]] # "deleted"
    <3>1. status[r] = "none"
      BY <1>2 DEF Enqueue, RequestInv
    <3>2. /\ status' = [status EXCEPT ![r] = "queued"]
          /\ UNCHANGED <<started, results, notices, workerVars, cancelVars>>
      BY <1>2, <2>2 DEF Enqueue
    <3>3. QED
      BY <3>1, <3>2 DEF TypeOK, RowInv, SingleOwner, Live, JobStatus, workerVars, cancelVars
  <2>3. QED
    BY <2>1, <2>2
<1>3. QED
  BY <1>1, <1>2 DEF RequestAction, RequestStep, BeginAnalyze, Refuse, LockSubscription,
                    MissSubscription, CreateSubscription, ReopenTransaction, CountUsage

LEMMA RowInvCancel == TypeOK /\ RowInv /\ CancelAction => RowInv'
<1> SUFFICES ASSUME TypeOK, RowInv, CancelAction PROVE RowInv'
  OBVIOUS
<1>1. ASSUME NEW c \in Cancellers, NEW j \in Requests, ReadForCancel(c, j) PROVE RowInv'
  BY <1>1 DEF ReadForCancel, RowInv, SingleOwner, Live, rowVars, workerVars, TypeOK, Active
<1>2. ASSUME NEW c \in Cancellers, WriteCancel(c) PROVE RowInv'
  <2>1. CASE Live(cJob[c]) /\ cSaw[c] = "queued"
    <3> DEFINE j == cJob[c]
    <3>1. /\ status' = [status EXCEPT ![j] = "cancelled"]
          /\ cJob' = [cJob EXCEPT ![c] = NoRequest]
          /\ UNCHANGED <<started, results, notices, workerVars>>
      BY <1>2, <2>1 DEF WriteCancel
    <3>2. j \in Requests /\ status[j] # "none"
      BY <1>2 DEF WriteCancel, TypeOK, RowInv
    <3>3. QED
      BY <2>1, <3>1, <3>2 DEF TypeOK, RowInv, SingleOwner, Live, JobStatus, workerVars
  <2>2. CASE ~(Live(cJob[c]) /\ cSaw[c] = "queued")
    <3>1. /\ status' = status
          /\ cJob' = [cJob EXCEPT ![c] = NoRequest]
          /\ UNCHANGED <<started, results, notices, workerVars>>
      BY <1>2, <2>2 DEF WriteCancel
    <3>2. QED
      BY <3>1 DEF TypeOK, RowInv, SingleOwner, Live, workerVars
  <2>3. QED
    BY <2>1, <2>2
<1>3. QED
  BY <1>1, <1>2 DEF CancelAction

LEMMA RowInvProject == TypeOK /\ RowInv /\ (ProjectAction \/ NextMonth) => RowInv'
<1> SUFFICES ASSUME TypeOK, RowInv, ProjectAction \/ NextMonth PROVE RowInv'
  OBVIOUS
<1>1. ASSUME NEW p \in Projects, DeleteProject(p) PROVE RowInv'
  BY <1>1 DEF DeleteProject, TypeOK, RowInv, SingleOwner, JobsOf, Live, JobStatus, workerVars,
              cancelVars
<1>2. ASSUME rowVars' = rowVars, workerVars' = workerVars, cancelVars' = cancelVars
      PROVE  RowInv'
  BY <1>2 DEF RowInv, SingleOwner, Live, rowVars, workerVars, cancelVars
<1>3. QED
  BY <1>1, <1>2 DEF ProjectAction, NextMonth, Archive, Unarchive, BeginDelete

\* The worker gives its job up and leaves the row as it is.
LEMMA RowInvRelease ==
  ASSUME TypeOK, RowInv, NEW w \in Workers, Release(w), UNCHANGED <<rowVars, cancelVars>>
  PROVE  RowInv'
<1> USE ConstantsAssumption DEF ConstantsAssumption
<1>1. SingleOwner'
  BY DEF Release, TypeOK, RowInv, SingleOwner
<1>2. QED
  BY <1>1 DEF Release, TypeOK, RowInv, Live, rowVars, cancelVars

\* The worker moves on with its job.
LEMMA RowInvGoto ==
  ASSUME TypeOK, RowInv, NEW w \in Workers, wPc[w] # "idle",
         NEW pc \in WorkerPc \ {"idle"}, Goto(w, pc),
         wJob' = wJob, UNCHANGED <<rowVars, cancelVars>>
  PROVE  RowInv'
BY DEF Goto, TypeOK, RowInv, SingleOwner, Live, rowVars, cancelVars

\* The worker reports on its job: the first report, and the row is no longer
\* none or queued.
LEMMA RowInvSettle ==
  ASSUME TypeOK, RowInv, NEW w \in Workers, wPc[w] # "idle",
         NEW terminal, NEW kind, Settle(w, terminal, kind),
         \/ terminal = "cancelled" /\ kind = "cancelled" /\ results' = results
         \/ terminal = "failed" /\ kind = "failed" /\ results' = results
         \/ /\ terminal = "succeeded" /\ kind = "complete"
            /\ results' = IF Live(wJob[w]) THEN results \cup {wJob[w]} ELSE results
  PROVE  RowInv'
<1> DEFINE j == wJob[w]
<1>1. j \in Requests /\ started[j] /\ notices[j] = {} /\ j # NoRequest
  BY ConstantsAssumption DEF ConstantsAssumption, TypeOK, RowInv
<1>2. CASE ~Live(j)
  BY <1>2, RowInvRelease DEF Settle, rowVars
<1>3. CASE Live(j)
  <2>1. /\ status' = [status EXCEPT ![j] = terminal]
        /\ notices' = [notices EXCEPT ![j] = {kind}]
        /\ UNCHANGED <<started, cancelVars>>
        /\ Release(w)
    BY <1>1, <1>3 DEF Settle, TypeOK
  <2>2. results' = IF terminal = "succeeded" THEN results \cup {j} ELSE results
    BY <1>3
  <2>3. SingleOwner'
    BY <2>1 DEF Release, TypeOK, RowInv, SingleOwner
  <2>4. \A i \in Requests :
          /\ started'[i] => status'[i] \notin {"none", "queued"}
          /\ status'[i] = "running" => started'[i]
          /\ ~started'[i] => notices'[i] = {}
          /\ notices'[i] = {} \/ \E k \in NoticeKind : notices'[i] = {k}
          /\ notices'[i] = {} => status'[i] \notin {"succeeded", "failed"}
          /\ notices'[i] # {} => status'[i] \notin {"none", "queued", "running"}
          /\ i \in results' <=> Live(i)' /\ "complete" \in notices'[i]
          /\ status'[i] = "succeeded" => notices'[i] = {"complete"}
          /\ status'[i] = "failed" => notices'[i] = {"failed"}
    BY <1>1, <1>3, <2>1, <2>2 DEF TypeOK, RowInv, Live, JobStatus, NoticeKind
  <2>5. \A v \in Workers :
          /\ wPc'[v] = "idle" <=> wJob'[v] = NoRequest
          /\ wJob'[v] # NoRequest => started'[wJob'[v]] /\ notices'[wJob'[v]] = {}
    BY <1>1, <2>1 DEF Release, TypeOK, RowInv, SingleOwner
  <2>6. \A c \in Cancellers : cJob'[c] # NoRequest => status'[cJob'[c]] # "none"
    BY <2>1 DEF TypeOK, RowInv, cancelVars
  <2>7. QED
    BY <2>3, <2>4, <2>5, <2>6 DEF RowInv
<1>4. QED
  BY <1>2, <1>3

LEMMA RowInvWorker == TypeOK /\ RowInv /\ WorkerAction => RowInv'
<1> SUFFICES ASSUME TypeOK, RowInv, NEW w \in Workers,
                    WorkerStep(w) \/ IterationFails(w) \/ WorkerCrash(w)
             PROVE  RowInv'
  BY DEF WorkerAction
<1>1. ASSUME NEW j \in Requests, Claim(w, j) PROVE RowInv'
  <2>1. /\ status[j] = "queued" /\ ~started[j] /\ notices[j] = {} /\ j # NoRequest
        /\ \A v \in Workers : wJob[v] # j
    BY <1>1, ConstantsAssumption DEF ConstantsAssumption, Claim, RowInv, TypeOK
  <2>2. SingleOwner'
    BY <1>1, <2>1 DEF Claim, RowInv, SingleOwner, TypeOK
  <2>3. QED
    BY <1>1, <2>1, <2>2 DEF Claim, Goto, RowInv, TypeOK, Live, JobStatus, NoticeKind, cancelVars
<1>2. CASE CheckCancel(w)
  <2>1. wPc[w] \in {"claimed", "checking", "rechecking"}
    BY <1>2 DEF CheckCancel
  <2>2. AfterCheck(w) \in WorkerPc \ {"idle"}
    BY <2>1 DEF AfterCheck, WorkerPc
  <2>3. \E pc \in WorkerPc \ {"idle"} : Goto(w, pc)
    BY <1>2, <2>2 DEF CheckCancel, WorkerPc
  <2>4. QED
    BY <1>2, <2>1, <2>3, RowInvGoto DEF CheckCancel
<1>3. CASE Prepare(w) \/ Poll(w)
  <2>1. wPc[w] # "idle" /\ \E pc \in WorkerPc \ {"idle"} : Goto(w, pc)
    BY <1>3 DEF Prepare, Poll, WorkerPc
  <2>2. QED
    BY <1>3, <2>1, RowInvGoto DEF Prepare, Poll
<1>4. CASE CancelJob(w) \/ FailJob(w) \/ IngestResult(w)
  BY <1>4, RowInvSettle DEF CancelJob, FailJob, IngestResult
<1>5. CASE IterationFails(w) \/ WorkerCrash(w)
  BY <1>5, RowInvRelease DEF IterationFails, WorkerCrash
<1>6. QED
  BY <1>1, <1>2, <1>3, <1>4, <1>5 DEF WorkerStep

-----------------------------------------------------------------------------
(* Projects                                                                *)

LEMMA NoOrphanRequest ==
  TypeOK /\ RequestInv /\ NoOrphanJobs /\ RequestAction => NoOrphanJobs'
<1> SUFFICES ASSUME TypeOK, RequestInv, NoOrphanJobs, RequestAction PROVE NoOrphanJobs'
  OBVIOUS
<1>1. ASSUME NEW r \in Requests, NEW p \in Projects, BeginAnalyze(r, p) PROVE NoOrphanJobs'
  BY <1>1 DEF BeginAnalyze, NoOrphanJobs, Live, TypeOK, RequestInv, JobStatus, rowVars,
              projectVars
<1>2. ASSUME NEW r \in Requests, Enqueue(r) PROVE NoOrphanJobs'
  BY <1>2 DEF Enqueue, NoOrphanJobs, Live, TypeOK, JobStatus, projectVars
<1>3. ASSUME UNCHANGED <<status, target, project>> PROVE NoOrphanJobs'
  BY <1>3 DEF NoOrphanJobs, Live
<1>4. QED
  BY <1>1, <1>2, <1>3 DEF RequestAction, RequestStep, Refuse, LockSubscription,
     MissSubscription, CreateSubscription, ReopenTransaction, CountUsage, rowVars, projectVars

LEMMA NoOrphanOther ==
  ASSUME TypeOK, RequestInv, RowInv, NoOrphanJobs,
         CancelAction \/ ProjectAction \/ WorkerAction \/ NextMonth
  PROVE  NoOrphanJobs'
<1>0. \A j \in Requests : Live(j) => target[j] \in Projects
  BY DEF RequestInv, Live, JobStatus, TypeOK, RequestPc
<1>1. ASSUME NEW p \in Projects, DeleteProject(p) PROVE NoOrphanJobs'
  BY <1>1, <1>0 DEF DeleteProject, NoOrphanJobs, JobsOf, Live, TypeOK, JobStatus, requestVars
<1>2. ASSUME NEW p \in Projects, Archive(p) \/ Unarchive(p) \/ BeginDelete(p)
      PROVE  NoOrphanJobs'
  BY <1>2, <1>0 DEF Archive, Unarchive, BeginDelete, NoOrphanJobs, Live, TypeOK, requestVars,
                    rowVars
<1>3. ASSUME \A j \in Requests : Live(j)' => Live(j), UNCHANGED <<target, project>>
      PROVE  NoOrphanJobs'
  BY <1>3 DEF NoOrphanJobs
<1>4. ASSUME CancelAction \/ WorkerAction \/ NextMonth
      PROVE  \A j \in Requests : Live(j)' => Live(j)
  BY <1>4 DEF CancelAction, WorkerAction, NextMonth, ReadForCancel, WriteCancel, WorkerStep,
     Claim, CheckCancel, Prepare, Poll, CancelJob, FailJob, IngestResult, Settle,
     IterationFails, WorkerCrash, Live, TypeOK, rowVars, JobStatus
<1>5. ASSUME CancelAction \/ WorkerAction \/ NextMonth PROVE UNCHANGED <<target, project>>
  BY <1>5 DEF CancelAction, WorkerAction, NextMonth, ReadForCancel, WriteCancel, WorkerStep,
     Claim, CheckCancel, Prepare, Poll, CancelJob, FailJob, IngestResult, Settle,
     IterationFails, WorkerCrash, requestVars, projectVars
<1>6. QED
  BY <1>1, <1>2, <1>3, <1>4, <1>5 DEF ProjectAction

-----------------------------------------------------------------------------
(* The quota                                                               *)

LEMMA UsedFinite ==
  /\ IsFiniteSet(UsedThisMonth)
  /\ Cardinality(UsedThisMonth) \in Nat
BY ConstantsAssumption, FS_Subset, FS_CardinalityType DEF ConstantsAssumption, UsedThisMonth

\* A step that charges nothing, admits nobody and creates no subscription.
LEMMA QuotaKept ==
  ASSUME QuotaInv, UsedThisMonth' = UsedThisMonth, creator' = creator,
         Reserved' \in {0, Reserved},
         \A r \in Requests :
           subLock' = r /\ reqPc'[r] = "admitted" /\ beganIn'[r] = month'
             => subLock = r /\ reqPc[r] = "admitted" /\ beganIn[r] = month
  PROVE  QuotaInv'
<1>1. Cardinality(UsedThisMonth) \in Nat /\ Reserved \in 0..1
  BY UsedFinite DEF Reserved
<1>2. QuotaBound' = QuotaBound /\ QuotaBound \in Nat
  BY ConstantsAssumption DEF QuotaBound, ConstantsAssumption
<1>3. Cardinality(UsedThisMonth)' + Reserved' <= Cardinality(UsedThisMonth) + Reserved
  BY <1>1
<1>4. QED
  BY <1>1, <1>2, <1>3 DEF QuotaInv

\* The end of one request's transaction admits no other.
LEMMA FinishAdmitsNobody ==
  ASSUME TypeOK, NEW r \in Requests, Finish(r), UNCHANGED <<month, beganIn>>,
         NEW s \in Requests, subLock' = s, reqPc'[s] = "admitted", beganIn'[s] = month'
  PROVE  subLock = s /\ reqPc[s] = "admitted" /\ beganIn[s] = month
BY ConstantsAssumption DEF ConstantsAssumption, Finish, TypeOK

LEMMA QuotaInvRequest ==
  TypeOK /\ RequestInv /\ QuotaInv /\ RequestAction => QuotaInv'
<1> SUFFICES ASSUME TypeOK, RequestInv, QuotaInv, RequestAction PROVE QuotaInv'
  OBVIOUS
<1> DEFINE used == Cardinality(UsedThisMonth)
<1>0. used \in Nat /\ IsFiniteSet(UsedThisMonth) /\ RunLimit \in Nat
  BY UsedFinite, ConstantsAssumption DEF ConstantsAssumption
<1>1. ASSUME NEW r \in Requests, NEW p \in Projects, BeginAnalyze(r, p) PROVE QuotaInv'
  <2>1. UsedThisMonth' = UsedThisMonth /\ creator' = creator
    BY <1>1 DEF BeginAnalyze, UsedThisMonth, quotaVars
  <2>2. Reserved' = Reserved
    BY <1>1 DEF BeginAnalyze, Reserved, quotaVars, TypeOK, RequestInv, InFlight
  <2>3. QED
    BY <1>1, <2>1, <2>2, QuotaKept DEF BeginAnalyze, quotaVars, TypeOK
\* The request's transaction ends without a charge.
<1>2. ASSUME NEW r \in Requests, Finish(r), UNCHANGED <<month, creator, ledger, beganIn>>
      PROVE  QuotaInv'
  <2>1. UsedThisMonth' = UsedThisMonth
    BY <1>2 DEF UsedThisMonth
  <2>2. Reserved' \in {0, Reserved}
    BY <1>2 DEF Finish, Reserved, TypeOK, InFlight
  <2>3. QED
    BY <1>2, <2>1, <2>2, QuotaKept, FinishAdmitsNobody
<1>3. ASSUME NEW r \in Requests, LockSubscription(r) \/ MissSubscription(r) PROVE QuotaInv'
  <2>1. UsedThisMonth' = UsedThisMonth
    BY <1>3 DEF LockSubscription, MissSubscription, UsedThisMonth, quotaVars
  <2>2. Reserved' = Reserved
    BY <1>3 DEF LockSubscription, MissSubscription, quotaVars, Reserved, TypeOK, InFlight
  <2>3. QED
    BY <1>3, <2>1, <2>2, QuotaKept DEF LockSubscription, MissSubscription, quotaVars, TypeOK
<1>4. ASSUME NEW r \in Requests, CreateSubscription(r) PROVE QuotaInv'
  <2>1. CASE subscribed
    BY <1>2, <1>4, <2>1 DEF CreateSubscription
  <2>2. CASE ~subscribed
    <3>1. creator = NoRequest /\ \A s \in Requests : subLock # s
      BY <2>2 DEF TypeOK, RequestInv
    <3>2. /\ creator' = r /\ r # NoRequest
          /\ subLock' = subLock
          /\ UsedThisMonth' = UsedThisMonth
      BY <1>4, <2>2, ConstantsAssumption DEF CreateSubscription, UsedThisMonth,
         ConstantsAssumption
    <3>3. used <= RunLimit
      BY <1>0, <3>1 DEF QuotaInv, Reserved, QuotaBound
    <3>4. QuotaBound' = RunLimit + 1 /\ Reserved' \in 0..1 /\ used' = used
      BY <3>2 DEF QuotaBound, Reserved
    <3>5. used' + Reserved' <= QuotaBound'
      BY <1>0, <3>3, <3>4
    <3>6. QED
      BY <3>1, <3>2, <3>5 DEF QuotaInv
  <2>3. QED
    BY <2>1, <2>2
<1>5. ASSUME NEW r \in Requests, CountUsage(r) PROVE QuotaInv'
  <2>1. CASE used + 1 > RunLimit
    BY <1>2, <1>5, <2>1 DEF CountUsage
  <2>2. CASE ~(used + 1 > RunLimit)
    <3>1. /\ reqPc[r] = "counting"
          /\ reqPc' = [reqPc EXCEPT ![r] = "admitted"]
          /\ UNCHANGED <<month, creator, ledger, beganIn, subLock>>
      BY <1>5, <2>2 DEF CountUsage
    <3>2. UsedThisMonth' = UsedThisMonth /\ used' = used /\ QuotaBound' = QuotaBound
      BY <3>1 DEF UsedThisMonth, QuotaBound
    <3>3. Reserved' = Reserved
      BY <3>1 DEF Reserved, TypeOK, InFlight
    <3>4. used + Reserved < QuotaBound
      BY <1>0, <2>2 DEF Reserved, QuotaBound
    <3>5. used' + Reserved' < QuotaBound'
      BY <3>2, <3>3, <3>4
    <3>6. QED
      BY <1>0, <3>2, <3>3, <3>4, <3>5 DEF QuotaInv, Reserved, QuotaBound
  <2>3. QED
    BY <2>1, <2>2
<1>6. ASSUME NEW r \in Requests, Enqueue(r) PROVE QuotaInv'
  <2>0. /\ Finish(r) /\ reqPc[r] = "admitted" /\ ledger[r] = 0
        /\ status[r] = "none"
        /\ UNCHANGED <<month, creator, beganIn>>
        /\ month \in Nat /\ month > 0
    BY <1>6, ConstantsAssumption DEF Enqueue, RequestInv, TypeOK, ConstantsAssumption
  <2>1. CASE ledger' = ledger
    BY <1>2, <2>0, <2>1
  <2>2. CASE ledger' = [ledger EXCEPT ![r] = beganIn[r]] /\ beganIn[r] # month
    <3>1. UsedThisMonth' = UsedThisMonth
      BY <2>0, <2>2 DEF UsedThisMonth, TypeOK
    <3>2. Reserved' \in {0, Reserved}
      BY <2>0 DEF Finish, Reserved, TypeOK, InFlight
    <3>3. QED
      BY <2>0, <3>1, <3>2, QuotaKept, FinishAdmitsNobody
  <2>3. CASE ledger' = [ledger EXCEPT ![r] = beganIn[r]] /\ beganIn[r] = month
    <3>1. UsedThisMonth' = UsedThisMonth \cup {r} /\ r \notin UsedThisMonth
      BY <2>0, <2>3 DEF UsedThisMonth, TypeOK
    <3>2. used' = used + 1
      BY <1>0, <3>1, FS_AddElement
    <3>3. QuotaBound' = QuotaBound /\ QuotaBound \in Nat
      BY <1>0, <2>0 DEF QuotaBound
    <3>4. CASE creator = r
      <4>1. Reserved = 1 /\ Reserved' = 0
        BY <2>0, <3>4, ConstantsAssumption DEF Reserved, Finish, TypeOK, InFlight,
           ConstantsAssumption
      <4>2. \A s \in Requests :
              subLock' = s /\ reqPc'[s] = "admitted" /\ beganIn'[s] = month'
                => subLock = s /\ reqPc[s] = "admitted" /\ beganIn[s] = month
        BY <2>0, FinishAdmitsNobody
      <4>3. QED
        BY <1>0, <3>2, <3>3, <4>1, <4>2 DEF QuotaInv
    <3>5. CASE creator # r
      <4>1. subLock = r
        BY <2>0, <3>5 DEF RequestInv
      <4>2. \A s \in Requests : subLock' # s
        BY <2>0, <4>1, ConstantsAssumption DEF Finish, ConstantsAssumption
      <4>3. Reserved' = Reserved /\ Reserved \in 0..1
        BY <2>0, <3>5 DEF Reserved, Finish, TypeOK
      <4>4. used + Reserved < QuotaBound
        BY <2>0, <2>3, <4>1 DEF QuotaInv
      <4>5. used' + Reserved' <= QuotaBound'
        BY <1>0, <3>2, <3>3, <4>3, <4>4
      <4>6. QED
        BY <4>2, <4>5 DEF QuotaInv
    <3>6. QED
      BY <3>4, <3>5
  <2>4. QED
    BY <1>6, <2>1, <2>2, <2>3 DEF Enqueue
<1>7. ASSUME NEW r \in Requests, ReopenTransaction(r) PROVE QuotaInv'
  <2>1. UsedThisMonth' = UsedThisMonth
    BY <1>7 DEF ReopenTransaction, UsedThisMonth, quotaVars
  <2>2. Reserved' = Reserved
    BY <1>7 DEF ReopenTransaction, quotaVars, Reserved, TypeOK, InFlight
  <2>3. QED
    BY <1>7, <2>1, <2>2, QuotaKept DEF ReopenTransaction, quotaVars, TypeOK
<1>8. QED
  BY <1>1, <1>2, <1>3, <1>4, <1>5, <1>6, <1>7 DEF RequestAction, RequestStep, Refuse

LEMMA QuotaInvOther ==
  ASSUME TypeOK, RequestInv, RowInv, QuotaInv,
         CancelAction \/ ProjectAction \/ WorkerAction \/ NextMonth
  PROVE  QuotaInv'
<1>1. UNCHANGED <<quotaVars, requestVars>>
  BY RowsStay
<1>2. Reserved' = Reserved /\ QuotaBound' = QuotaBound
  BY <1>1 DEF Reserved, QuotaBound, quotaVars, requestVars
<1>3. CASE month' = month
  <2>1. UsedThisMonth' = UsedThisMonth
    BY <1>1, <1>3 DEF UsedThisMonth, quotaVars
  <2>2. QED
    BY <1>1, <1>2, <1>3, <2>1, QuotaKept DEF quotaVars, requestVars
<1>4. CASE NextMonth
  <2>1. month' = month + 1 /\ month \in Nat /\ month > 0
    BY <1>4, ConstantsAssumption DEF NextMonth, TypeOK, ConstantsAssumption
  <2>2. \A r \in Requests : ledger'[r] # month' /\ beganIn'[r] # month'
    BY <1>1, <2>1 DEF RequestInv, TypeOK, quotaVars, requestVars, RequestPc
  <2>3. UsedThisMonth' = {}
    BY <2>2 DEF UsedThisMonth
  <2>4. Cardinality(UsedThisMonth') = 0
    BY <2>3, FS_EmptySet
  <2>5. Reserved <= QuotaBound /\ Reserved \in Nat
    BY ConstantsAssumption DEF Reserved, QuotaBound, ConstantsAssumption
  <2>6. QED
    BY <1>2, <2>2, <2>4, <2>5 DEF QuotaInv
<1>5. QED
  BY <1>3, <1>4 DEF CancelAction, ProjectAction, WorkerAction, ReadForCancel, WriteCancel,
     Archive, Unarchive, BeginDelete, DeleteProject, WorkerStep, Claim, CheckCancel, Prepare,
     Poll, CancelJob, FailJob, IngestResult, Settle, IterationFails, WorkerCrash

-----------------------------------------------------------------------------
(* The inductive invariant                                                 *)

LEMMA InitIInv == Init => IInv
<1> SUFFICES ASSUME Init PROVE IInv
  OBVIOUS
<1>1. TypeOK
  BY TypeInit, ConstantsAssumption
<1>2. RequestInv
  BY ConstantsAssumption DEF ConstantsAssumption, Init, RequestInv
<1>3. RowInv
  BY ConstantsAssumption DEF ConstantsAssumption, Init, RowInv, SingleOwner, Live, JobStatus
<1>4. NoOrphanJobs
  BY DEF Init, NoOrphanJobs, Live, JobStatus
<1>5. QuotaInv
  <2>1. UsedThisMonth = {}
    BY DEF Init, UsedThisMonth
  <2>2. Cardinality(UsedThisMonth) = 0
    BY <2>1, FS_EmptySet
  <2>3. QED
    BY <2>2, ConstantsAssumption DEF ConstantsAssumption, Init, QuotaInv, Reserved, QuotaBound
<1>6. QED
  BY <1>1, <1>2, <1>3, <1>4, <1>5 DEF IInv

LEMMA NextIInv == IInv /\ [Next]_vars => IInv'
<1> SUFFICES ASSUME IInv, [Next]_vars PROVE IInv'
  OBVIOUS
<1> USE DEF IInv
<1>1. CASE RequestAction
  BY <1>1, TypeRequest, RequestInvRequest, RowInvRequest, NoOrphanRequest, QuotaInvRequest
<1>2. CASE CancelAction \/ ProjectAction \/ NextMonth
  BY <1>2, TypeOther, RequestInvOther, RowInvCancel, RowInvProject, NoOrphanOther,
     QuotaInvOther
<1>3. CASE WorkerAction
  BY <1>3, TypeWorker, RequestInvOther, RowInvWorker, NoOrphanOther, QuotaInvOther
<1>4. CASE UNCHANGED vars
  BY <1>4 DEF vars, quotaVars, requestVars, projectVars, rowVars, workerVars, cancelVars,
     TypeOK, RequestInv, RowInv, SingleOwner, NoOrphanJobs, Live, QuotaInv, Reserved,
     QuotaBound, UsedThisMonth
<1>5. QED
  BY <1>1, <1>2, <1>3, <1>4, NextCases

\* The invariant behind every result below.
THEOREM Invariance == Spec => []IInv
<1>1. QED
  BY InitIInv, NextIInv, PTL DEF Spec

\* TypeOK holds in every reachable state: each handler and worker step writes
\* values of the columns' types only.
THEOREM TypeCorrect == Spec => []TypeOK
<1>1. IInv => TypeOK
  BY DEF IInv
<1>2. QED
  BY <1>1, Invariance, PTL

\* Whatever crashes, cancels and deletions happen, claim_one never gives two
\* worker processes the same job.
THEOREM ExclusiveClaims == Spec => []SingleOwner
<1>1. IInv => SingleOwner
  BY DEF IInv, RowInv
<1>2. QED
  BY <1>1, Invariance, PTL

\* A job's status, its result rows and its notification agree in every
\* reachable state: ingest_result, fail_job and cancel_job report once and
\* store results exactly with the "complete" notification.
THEOREM OneOutcome == Spec => []OutcomesAgree
<1>1. IInv => OutcomesAgree
  <2> SUFFICES ASSUME IInv, NEW j \in Requests PROVE Cardinality(notices[j]) <= 1
    BY DEF IInv, RowInv, OutcomesAgree
  <2>1. CASE notices[j] = {}
    <3>1. Cardinality(notices[j]) = 0
      BY <2>1, FS_EmptySet
    <3>2. QED
      BY <3>1
  <2>2. ASSUME NEW kind, notices[j] = {kind} PROVE Cardinality(notices[j]) <= 1
    <3>1. Cardinality({kind}) = 1
      BY FS_Singleton
    <3>2. Cardinality(notices[j]) = 1
      BY <2>2, <3>1
    <3>3. QED
      BY <3>2
  <2>3. notices[j] = {} \/ \E kind \in NoticeKind : notices[j] = {kind}
    BY DEF IInv, RowInv
  <2>4. QED
    BY <2>1, <2>2, <2>3
<1>2. QED
  BY <1>1, Invariance, PTL

\* enforce_analysis_limit bounds the runs of every month by the plan, plus one
\* if an analyze request had to create the subscription row.
THEOREM QuotaHolds == Spec => []WithinQuota
<1>1. IInv => WithinQuota
  <2> SUFFICES ASSUME IInv PROVE WithinQuota
    OBVIOUS
  <2>1. RunsIn(month) = UsedThisMonth
    BY ConstantsAssumption DEF ConstantsAssumption, IInv, TypeOK, RequestInv, RunsIn,
       UsedThisMonth
  <2>2. /\ Cardinality(UsedThisMonth) \in Nat
        /\ Cardinality(UsedThisMonth) + Reserved <= QuotaBound
    BY UsedFinite DEF IInv, QuotaInv
  <2>3. QuotaBound \in Nat
    BY ConstantsAssumption DEF ConstantsAssumption, QuotaBound
  <2>4. QED
    BY <2>1, <2>2, <2>3 DEF WithinQuota, Reserved
<1>2. QED
  BY <1>1, Invariance, PTL

\* No job row survives its project: DELETE cascades, and the INSERT of an
\* analyze request still in flight meets the foreign key.
THEOREM NoOrphans == Spec => []NoOrphanJobs
<1>1. IInv => NoOrphanJobs
  BY DEF IInv
<1>2. QED
  BY <1>1, Invariance, PTL

\* The UPDATEs of handlers and workers change a terminal status only while a
\* worker still holds the job or a cancel that read it as queued is in flight.
THEOREM SettledStays == Spec => SettledIsFinal
<1> DEFINE Settled(j) == /\ status[j] \in Terminal
                         /\ ~Owned(j)
                         /\ \A c \in Cancellers : ~(cJob[c] = j /\ cSaw[c] = "queued")
           Stays(j) == status'[j] \in {status[j], "deleted"}
<1>1. ASSUME IInv, Next, NEW j \in Requests, Settled(j) PROVE Stays(j)
  <2> USE DEF IInv, TypeOK, Live, JobStatus, Terminal
  <2>1. CASE RequestAction
    BY <1>1, <2>1 DEF RequestAction, RequestStep, BeginAnalyze, Refuse, LockSubscription,
       MissSubscription, CreateSubscription, ReopenTransaction, CountUsage, Enqueue,
       RequestInv, rowVars
  <2>2. CASE CancelAction
    BY <1>1, <2>2 DEF CancelAction, ReadForCancel, WriteCancel, rowVars
  <2>3. CASE ProjectAction \/ NextMonth
    BY <1>1, <2>3 DEF ProjectAction, NextMonth, Archive, Unarchive, BeginDelete,
       DeleteProject, rowVars
  <2>4. CASE WorkerAction
    <3>1. ASSUME NEW w \in Workers, NEW t, NEW k, Settle(w, t, k) PROVE Stays(j)
      BY <1>1, <3>1 DEF Settle, Owned
    <3>2. ASSUME NEW w \in Workers, NEW i \in Requests, Claim(w, i) PROVE Stays(j)
      BY <1>1, <3>2 DEF Claim
    <3>3. CASE UNCHANGED rowVars
      BY <3>3 DEF rowVars
    <3>4. QED
      BY <2>4, <3>1, <3>2, <3>3 DEF WorkerAction, WorkerStep, CheckCancel, Prepare, Poll,
         CancelJob, FailJob, IngestResult, IterationFails, WorkerCrash
  <2>5. QED
    BY <1>1, <2>1, <2>2, <2>3, <2>4, NextCases
<1>2. IInv /\ [Next]_vars => [\A j \in Requests : Settled(j) => Stays(j)]_vars
  BY <1>1
<1>3. QED
  BY <1>2, Invariance, PTL DEF Spec, SettledIsFinal

\* Every step of a handler or worker is a step of the per-job promise, or
\* leaves the rows users see alone.
LEMMA StepRefines == IInv /\ [Next]_vars => [Lifecycle!Next]_(Lifecycle!vars)
<1> SUFFICES ASSUME IInv, [Next]_vars PROVE [Lifecycle!Next]_(Lifecycle!vars)
  OBVIOUS
<1> USE DEF IInv, Live, JobStatus, Lifecycle!Stored, Lifecycle!vars
<1>1. ASSUME UNCHANGED <<status, started, results, notices>>
      PROVE  [Lifecycle!Next]_(Lifecycle!vars)
  BY <1>1
<1>2. ASSUME NEW r \in Requests, Enqueue(r) PROVE [Lifecycle!Next]_(Lifecycle!vars)
  <2>1. Lifecycle!Enqueue(r) \/ UNCHANGED <<status, started, results, notices>>
    BY <1>2 DEF Enqueue, RequestInv, Lifecycle!Enqueue
  <2>2. QED
    BY <1>1, <2>1 DEF Lifecycle!Next
<1>3. ASSUME NEW c \in Cancellers, WriteCancel(c) PROVE [Lifecycle!Next]_(Lifecycle!vars)
  <2>1. cJob[c] \in Requests
    BY <1>3 DEF WriteCancel, TypeOK
  <2>2. Lifecycle!Relabel(cJob[c]) \/ UNCHANGED <<status, started, results, notices>>
    BY <1>3, <2>1 DEF WriteCancel, Lifecycle!Relabel
  <2>3. QED
    BY <1>1, <2>1, <2>2 DEF Lifecycle!Next
<1>4. ASSUME NEW p \in Projects, DeleteProject(p) PROVE [Lifecycle!Next]_(Lifecycle!vars)
  <2>1. JobsOf(p) \in SUBSET Requests /\ Lifecycle!Remove(JobsOf(p))
    BY <1>4 DEF DeleteProject, JobsOf, Lifecycle!Remove
  <2>2. QED
    BY <2>1 DEF Lifecycle!Next
<1>5. ASSUME NEW w \in Workers, NEW j \in Requests, Claim(w, j)
      PROVE  [Lifecycle!Next]_(Lifecycle!vars)
  <2>1. Lifecycle!Start(j)
    BY <1>5 DEF Claim, RowInv, Lifecycle!Start, TypeOK
  <2>2. QED
    BY <2>1 DEF Lifecycle!Next
<1>6. ASSUME NEW w \in Workers, CancelJob(w) \/ FailJob(w) \/ IngestResult(w)
      PROVE  [Lifecycle!Next]_(Lifecycle!vars)
  <2> DEFINE j == wJob[w]
  <2>1. j \in Requests /\ started[j] /\ notices[j] = {}
    BY <1>6 DEF CancelJob, FailJob, IngestResult, TypeOK, RowInv
  <2>2. CASE ~Live(j)
    BY <1>1, <1>6, <2>2 DEF CancelJob, FailJob, IngestResult, Settle
  <2>3. CASE Live(j)
    <3>1. status[j] \in {"running", "cancelled"}
      BY <2>1, <2>3 DEF RowInv
    <3>2. \E kind \in {"complete", "failed", "cancelled"} :
            /\ status' = [status EXCEPT ![j] = Lifecycle!StatusOf[kind]]
            /\ notices' = [notices EXCEPT ![j] = {kind}]
            /\ results' = IF kind = "complete" THEN results \cup {j} ELSE results
            /\ UNCHANGED started
      BY <1>6, <2>1, <2>3 DEF CancelJob, FailJob, IngestResult, Settle, TypeOK,
         Lifecycle!StatusOf
    <3>3. \E kind \in DOMAIN Lifecycle!StatusOf : Lifecycle!Report(j, kind)
      BY <2>1, <3>1, <3>2 DEF Lifecycle!Report, Lifecycle!StatusOf
    <3>4. QED
      BY <2>1, <3>3 DEF Lifecycle!Next
  <2>4. QED
    BY <2>2, <2>3
<1>7. QED
  BY <1>1, <1>2, <1>3, <1>4, <1>5, <1>6 DEF Next, RequestStep, WorkerStep, BeginAnalyze, Refuse,
     LockSubscription, MissSubscription, CreateSubscription, ReopenTransaction, CountUsage,
     ReadForCancel, Archive, Unarchive, BeginDelete, CheckCancel, Prepare, Poll, IterationFails,
     WorkerCrash, NextMonth, rowVars, vars

\* The handlers, workers and row locks implement the per-job promise: one
\* start, at most one report, and then only a relabel or removal.
THEOREM Refinement == Spec => LifecycleSpec
<1>1. Init => Lifecycle!Init
  BY DEF Init, Lifecycle!Init
<1>2. QED
  BY <1>1, StepRefines, Invariance, PTL DEF Spec, LifecycleSpec, Lifecycle!Spec
=============================================================================
