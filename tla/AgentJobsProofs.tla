-------------------------- MODULE AgentJobsProofs --------------------------
(***************************************************************************)
(* Proofs about AgentJobs, for every set of jobs and workers and every     *)
(* ratio of heartbeat interval and cutoff.                                 *)
(***************************************************************************)
EXTENDS AgentJobs, FiniteSetTheorems, TLAPS

\* A held job was claimed, by its holder alone, and is not completed yet.
HoldInv ==
  /\ \A w \in Workers : wJob[w] # NoJob <=> wPc[w] \in {"running", "settling"}
  /\ \A w \in Workers :
       wJob[w] # NoJob => status[wJob[w]] \notin {"none", "queued", "completed"}
  /\ SoleRunner

\* Silence never outgrows the heartbeats missed: it is what has passed since the
\* last one that reached the row, or since the claim.
BeatInv ==
  \A w \in Workers :
    wPc[w] = "running" /\ status[wJob[w]] = "processing"
      => /\ owner[wJob[w]] = w
         /\ silence[wJob[w]] + wait[w] <= LongestPeriod * (misses[w] + 1)

\* What the API shows, with the columns of a row nobody has touched yet.
RowInv ==
  /\ RowTruthful
  /\ \A j \in Jobs : status[j] = "none" => error[j] = "none" /\ progress[j] = "zero"

IInv == TypeOK /\ HoldInv /\ BeatInv /\ RowInv

-----------------------------------------------------------------------------
\* An attempt comes after the interval at the earliest, and not later than the
\* longest period.
LEMMA PeriodFacts ==
  /\ LongestPeriod \in Nat \ {0}
  /\ \A p \in Periods : p \in 1..LongestPeriod
BY AgentConstants DEF LongestPeriod, Periods

\* The claim starts the clock of a row that nobody held.
LEMMA ClaimIInv ==
  ASSUME IInv, NEW w \in Workers, NEW j \in Jobs, Claim(w, j)
  PROVE  IInv'
  <1> USE AgentConstants, PeriodFacts
  <1>1. TypeOK'
    BY DEF IInv, TypeOK, Claim, Goto, Stored, WorkerPc
  <1>2. HoldInv'
    BY DEF IInv, TypeOK, HoldInv, SoleRunner, Claim, Goto, Stored, WorkerPc
  <1>3. BeatInv'
    BY DEF IInv, TypeOK, HoldInv, SoleRunner, BeatInv, Claim, Goto, Stored, WorkerPc
  <1>4. RowInv'
    BY DEF IInv, TypeOK, RowInv, RowTruthful, Claim, Exists, Stored
  <1> QED BY <1>1, <1>2, <1>3, <1>4 DEF IInv

\* A heartbeat that reaches its row restarts the count.
LEMMA BeatIInv ==
  ASSUME IInv, NEW w \in Workers, Beat(w)
  PROVE  IInv'
  <1> USE AgentConstants, PeriodFacts
  <1>1. TypeOK'
    BY DEF IInv, TypeOK, Beat, Owns
  <1>2. HoldInv'
    BY DEF IInv, HoldInv, SoleRunner, Beat
  <1>3. BeatInv'
    BY DEF IInv, TypeOK, HoldInv, SoleRunner, BeatInv, Beat, Owns
  <1>4. RowInv'
    BY DEF IInv, RowInv, RowTruthful, Beat, Exists
  <1> QED BY <1>1, <1>2, <1>3, <1>4 DEF IInv

\* A missed heartbeat allows one interval more of silence.
LEMMA MissBeatIInv ==
  ASSUME IInv, NEW w \in Workers, MissBeat(w)
  PROVE  IInv'
  <1> USE AgentConstants, PeriodFacts
  <1>1. TypeOK'
    BY DEF IInv, TypeOK, MissBeat, rowVars
  <1>2. HoldInv'
    BY DEF IInv, HoldInv, SoleRunner, MissBeat, rowVars
  <1>3. BeatInv'
    <2> SUFFICES ASSUME NEW v \in Workers, (wPc[v] = "running")',
                        (status[wJob[v]] = "processing")'
                 PROVE  /\ (owner[wJob[v]] = v)'
                        /\ (silence[wJob[v]] + wait[v] <= LongestPeriod * (misses[v] + 1))'
      BY DEF BeatInv
    <2>1. CASE v # w
      BY <2>1 DEF IInv, TypeOK, BeatInv, MissBeat, rowVars
    <2>2. CASE v = w
      <3>1. owner[wJob[w]] = w /\ silence[wJob[w]] <= LongestPeriod * (misses[w] + 1)
        BY <2>2 DEF IInv, TypeOK, HoldInv, BeatInv, MissBeat, rowVars
      <3>2. LongestPeriod * ((misses[w] + 1) + 1) = LongestPeriod * (misses[w] + 1) + LongestPeriod
        BY DEF IInv, TypeOK
      <3> QED BY <2>2, <3>1, <3>2 DEF IInv, TypeOK, HoldInv, MissBeat, rowVars
    <2> QED BY <2>1, <2>2
  <1>4. RowInv'
    BY DEF IInv, RowInv, RowTruthful, MissBeat, rowVars, Exists
  <1> QED BY <1>1, <1>2, <1>3, <1>4 DEF IInv

\* A tick moves one unit from a running worker's wait to its row's silence.
LEMMA TickIInv ==
  ASSUME IInv, Tick
  PROVE  IInv'
  <1> USE AgentConstants, PeriodFacts
  <1>1. TypeOK'
    <2>1. wait' \in [Workers -> 0..LongestPeriod]
      BY DEF IInv, TypeOK, Tick
    <2>2. silence' \in [Jobs -> 0..(StaleAfter + 1)]
      BY DEF IInv, TypeOK, Tick
    <2> QED BY <2>1, <2>2 DEF IInv, TypeOK, Tick
  <1>2. HoldInv'
    BY DEF IInv, HoldInv, SoleRunner, Tick
  <1>3. BeatInv'
    BY DEF IInv, TypeOK, HoldInv, BeatInv, Tick
  <1>4. RowInv'
    BY DEF IInv, RowInv, RowTruthful, Tick, Exists
  <1> QED BY <1>1, <1>2, <1>3, <1>4 DEF IInv

\* The worker's other commits.
LEMMA WorkerIInv ==
  ASSUME IInv, NEW w \in Workers,
         Reclaim(w) \/ AgentDone(w) \/ FailJob(w) \/ EndRun(w) \/ Complete(w)
  PROVE  IInv'
  <1> USE AgentConstants, PeriodFacts DEF IInv, TypeOK
  <1>1. CASE Reclaim(w)
    <2>1. TypeOK'
      BY <1>1 DEF Reclaim, Goto, Stored, WorkerPc
    <2>2. HoldInv'
      BY <1>1 DEF HoldInv, SoleRunner, Reclaim, Goto, Stale, WorkerPc
    <2>3. BeatInv'
      BY <1>1 DEF HoldInv, BeatInv, Reclaim, Goto, Stale, WorkerPc
    <2>4. RowInv'
      BY <1>1 DEF RowInv, RowTruthful, Reclaim, Stale, Exists, Stored
    <2> QED BY <2>1, <2>2, <2>3, <2>4
  <1>2. CASE AgentDone(w)
    <2>1. TypeOK'
      BY <1>2 DEF AgentDone, workerVars
    <2>2. HoldInv'
      BY <1>2 DEF HoldInv, SoleRunner, AgentDone, workerVars
    <2>3. BeatInv'
      BY <1>2 DEF BeatInv, AgentDone, workerVars
    <2>4. RowInv'
      BY <1>2 DEF HoldInv, RowInv, RowTruthful, AgentDone, workerVars, Exists, Stored
    <2> QED BY <2>1, <2>2, <2>3, <2>4
  <1>3. CASE FailJob(w)
    <2>1. TypeOK'
      BY <1>3 DEF HoldInv, FailJob, LeaveJob, Goto, Stored, WorkerPc
    <2>2. HoldInv'
      BY <1>3 DEF HoldInv, SoleRunner, FailJob, LeaveJob, Goto, WorkerPc
    <2>3. BeatInv'
      BY <1>3 DEF HoldInv, SoleRunner, BeatInv, FailJob, LeaveJob, Goto, WorkerPc
    <2>4. RowInv'
      BY <1>3 DEF HoldInv, RowInv, RowTruthful, FailJob, Exists, Stored
    <2> QED BY <2>1, <2>2, <2>3, <2>4
  <1>4. CASE EndRun(w)
    <2>1. TypeOK'
      BY <1>4 DEF EndRun, Goto, rowVars, WorkerPc
    <2>2. HoldInv'
      BY <1>4 DEF HoldInv, SoleRunner, EndRun, Goto, rowVars, WorkerPc
    <2>3. BeatInv'
      BY <1>4 DEF BeatInv, EndRun, Goto, rowVars, WorkerPc
    <2>4. RowInv'
      BY <1>4 DEF RowInv, RowTruthful, EndRun, rowVars, Exists
    <2> QED BY <2>1, <2>2, <2>3, <2>4
  <1>5. CASE Complete(w)
    <2>1. TypeOK'
      BY <1>5 DEF HoldInv, Complete, LeaveJob, Goto, Stored, WorkerPc
    <2>2. HoldInv'
      BY <1>5 DEF HoldInv, SoleRunner, Complete, LeaveJob, Goto, WorkerPc
    <2>3. BeatInv'
      BY <1>5 DEF HoldInv, SoleRunner, BeatInv, Complete, LeaveJob, Goto, WorkerPc
    <2>4. RowInv'
      BY <1>5 DEF HoldInv, RowInv, RowTruthful, Complete, Exists, Stored
    <2> QED BY <2>1, <2>2, <2>3, <2>4
  <1> QED BY <1>1, <1>2, <1>3, <1>4, <1>5

\* Steps that leave the rows alone and hold nothing afterwards.
LEMMA IdleIInv ==
  ASSUME IInv, NEW w \in Workers,
         FindNothing(w) \/ LoseRow(w) \/ Crash(w) \/ Restart(w)
  PROVE  IInv'
  <1> USE AgentConstants, PeriodFacts
  <1>1. UNCHANGED rowVars
    BY DEF FindNothing, LoseRow, Crash, Restart
  <1>2. TypeOK'
    BY <1>1 DEF IInv, TypeOK, FindNothing, LoseRow, Crash, Restart, LeaveJob, Goto,
                rowVars, WorkerPc
  <1>3. HoldInv'
    BY <1>1 DEF IInv, TypeOK, HoldInv, SoleRunner, FindNothing, LoseRow, Crash, Restart,
                LeaveJob, Goto, rowVars, WorkerPc
  <1>4. BeatInv'
    BY <1>1 DEF IInv, TypeOK, BeatInv, FindNothing, LoseRow, Crash, Restart, LeaveJob,
                Goto, rowVars, WorkerPc
  <1>5. RowInv'
    BY <1>1 DEF IInv, RowInv, RowTruthful, Exists, rowVars
  <1> QED BY <1>2, <1>3, <1>4, <1>5 DEF IInv

\* The API's steps; the ranks are numbers because the jobs are finitely many.
LEMMA ApiIInv ==
  ASSUME IInv,
         \/ \E j \in Jobs : Enqueue(j)
         \/ \E S \in SUBSET Jobs : DeleteProject(S)
  PROVE  IInv'
  <1> USE AgentConstants, PeriodFacts DEF IInv, TypeOK
  <1>1. ASSUME NEW j \in Jobs, Enqueue(j)
        PROVE  IInv'
    <2>1. Cardinality({k \in Jobs : status[k] # "none"}) \in Nat
      BY FS_Subset, FS_CardinalityType
    <2>2. TypeOK'
      BY <1>1, <2>1 DEF Enqueue, workerVars, Stored
    <2>3. HoldInv'
      BY <1>1 DEF HoldInv, SoleRunner, Enqueue, workerVars
    <2>4. BeatInv'
      BY <1>1 DEF HoldInv, BeatInv, Enqueue, workerVars
    <2>5. RowInv'
      BY <1>1 DEF RowInv, RowTruthful, Enqueue, Exists, Stored
    <2> QED BY <2>2, <2>3, <2>4, <2>5
  <1>2. ASSUME NEW S \in SUBSET Jobs, DeleteProject(S)
        PROVE  IInv'
    <2>1. TypeOK'
      BY <1>2 DEF DeleteProject, workerVars
    <2>2. HoldInv'
      BY <1>2 DEF HoldInv, SoleRunner, DeleteProject, workerVars
    <2>3. BeatInv'
      BY <1>2 DEF HoldInv, BeatInv, DeleteProject, workerVars
    <2>4. RowInv'
      BY <1>2 DEF RowInv, RowTruthful, DeleteProject, Exists, Stored
    <2> QED BY <2>1, <2>2, <2>3, <2>4
  <1> QED BY <1>1, <1>2

-----------------------------------------------------------------------------
\* The inductive invariant holds in every reachable state.
THEOREM Invariance == Spec => []IInv
<1>1. Init => IInv
  BY AgentConstants, PeriodFacts DEF Init, IInv, TypeOK, HoldInv, SoleRunner, BeatInv, RowInv, RowTruthful,
                        Exists, Stored, WorkerPc
<1>2. IInv /\ [Next]_vars => IInv'
  <2> SUFFICES ASSUME IInv, [Next]_vars
               PROVE  IInv'
    OBVIOUS
  <2>1. CASE UNCHANGED vars
    BY <2>1 DEF IInv, TypeOK, HoldInv, SoleRunner, BeatInv, RowInv, RowTruthful, Exists,
                vars, rowVars, workerVars
  <2>2. CASE Next
    BY <2>2, ApiIInv, ClaimIInv, BeatIInv, MissBeatIInv, WorkerIInv, IdleIInv, TickIInv
       DEF Next, WorkerStep
  <2> QED BY <2>1, <2>2
<1> QED BY <1>1, <1>2, PTL DEF Spec

\* Every commit and every timer step writes values of the columns' types.
THEOREM TypeCorrect == Spec => []TypeOK
<1>1. IInv => TypeOK
  BY DEF IInv
<1> QED BY <1>1, Invariance, PTL

\* A job is run by at most one process, whatever is reclaimed, deleted or crashes.
THEOREM OneRunner == Spec => []SoleRunner
<1>1. IInv => SoleRunner
  BY DEF IInv, HoldInv
<1> QED BY <1>1, Invariance, PTL

\* No live worker loses its job before it has missed enough heartbeats in a row
\* to cover the cutoff, for every interval and cutoff.
THEOREM BeatsProtect == Spec => []HeartbeatsProtect
<1>1. IInv => HeartbeatsProtect
  <2> SUFFICES ASSUME IInv, NEW w \in Workers, wPc[w] = "running", Stale(wJob[w])
               PROVE  LongestPeriod * (misses[w] + 1) > StaleAfter
    BY DEF HeartbeatsProtect
  <2>1. /\ wJob[w] \in Jobs
        /\ silence[wJob[w]] > StaleAfter
        /\ silence[wJob[w]] + wait[w] <= LongestPeriod * (misses[w] + 1)
    BY DEF IInv, TypeOK, HoldInv, BeatInv, Stale
  <2>2. silence[wJob[w]] \in Nat /\ wait[w] \in Nat /\ misses[w] \in Nat
    BY <2>1, AgentConstants DEF IInv, TypeOK
  <2>3. LongestPeriod * (misses[w] + 1) \in Nat
    BY <2>2, PeriodFacts
  <2> QED BY <2>1, <2>2, <2>3, AgentConstants
<1> QED BY <1>1, Invariance, PTL

\* Status, progress, result and error code of a job agree in every state.
THEOREM RowsTruthful == Spec => []RowTruthful
<1>1. IInv => RowTruthful
  BY DEF IInv, RowInv
<1> QED BY <1>1, Invariance, PTL

\* A completed job changes only by deletion, and so does a failed one that no
\* process holds: its late owner is the only one that may still write it.
THEOREM EndIsLast == Spec => LastWord
<1> DEFINE Ended(j) == \/ status[j] = "completed"
                       \/ status[j] = "failed" /\ \A w \in Workers : wJob[w] # j
           Kept(j) == \/ status'[j] = "deleted"
                      \/ /\ status'[j] = status[j] /\ error'[j] = error[j]
                         /\ progress'[j] = progress[j]
<1>1. IInv /\ [Next]_vars => [\A j \in Jobs : Ended(j) => Kept(j)]_vars
  <2> SUFFICES ASSUME IInv, Next, NEW j \in Jobs, Ended(j)
               PROVE  Kept(j)
    OBVIOUS
  <2>1. \A w \in Workers : wJob[w] # j
    BY AgentConstants DEF IInv, HoldInv
  <2>2. ASSUME NEW k \in Jobs, Enqueue(k)
        PROVE  Kept(j)
    BY <2>2 DEF IInv, TypeOK, Enqueue
  <2>3. ASSUME NEW S \in SUBSET Jobs, DeleteProject(S)
        PROVE  Kept(j)
    BY <2>3 DEF DeleteProject
  <2>4. ASSUME NEW w \in Workers,
               WorkerStep(w) \/ Beat(w) \/ MissBeat(w) \/ AgentDone(w) \/ Crash(w) \/ Restart(w)
        PROVE  Kept(j)
    <3>1. CASE Reclaim(w)
      BY <3>1 DEF Reclaim, Stale
    <3>2. ASSUME NEW k \in Jobs, Claim(w, k)
          PROVE  Kept(j)
      BY <3>2 DEF IInv, TypeOK, Claim
    <3>3. CASE FailJob(w) \/ Complete(w) \/ AgentDone(w)
      BY <2>1, <3>3 DEF IInv, TypeOK, FailJob, Complete, AgentDone
    <3>4. CASE FindNothing(w) \/ EndRun(w) \/ LoseRow(w) \/ Beat(w) \/ MissBeat(w) \/ Crash(w)
               \/ Restart(w)
      BY <3>4 DEF FindNothing, EndRun, LoseRow, Beat, MissBeat, Crash, Restart, rowVars
    <3> QED BY <2>4, <3>1, <3>2, <3>3, <3>4 DEF WorkerStep
  <2>5. CASE Tick
    BY <2>5 DEF Tick
  <2> QED BY <2>2, <2>3, <2>4, <2>5 DEF Next
<1> QED BY <1>1, Invariance, PTL DEF Spec, LastWord

-----------------------------------------------------------------------------
(* The refinement of JobLease                                              *)

\* The jobs some process has claimed and not let go of.
Held == {j \in Jobs : \E w \in Workers : wJob[w] = j}

\* What a step makes of the jobs held: a claim adds one, and a process that leaves
\* its job takes it away, since nobody else holds it.
LEMMA HeldAfter ==
  ASSUME IInv, NEW w \in Workers
  PROVE  /\ wJob' = wJob => Held' = Held
         /\ \A j \in Jobs : wPc[w] = "claiming" /\ wJob' = [wJob EXCEPT ![w] = j] => Held' = Held \cup {j}
         /\ wJob' = [wJob EXCEPT ![w] = NoJob] => Held' = Held \ {wJob[w]}
<1>1. wJob' = wJob => Held' = Held
  BY DEF Held
<1>2. ASSUME NEW j \in Jobs, wPc[w] = "claiming", wJob' = [wJob EXCEPT ![w] = j]
      PROVE  Held' = Held \cup {j}
  <2>1. wJob[w] = NoJob
    BY <1>2 DEF IInv, HoldInv
  <2> QED BY <1>2, <2>1, AgentConstants DEF Held, IInv, TypeOK
<1>3. ASSUME wJob' = [wJob EXCEPT ![w] = NoJob] PROVE Held' = Held \ {wJob[w]}
  <2>1. \A v \in Workers : wJob'[v] = IF v = w THEN NoJob ELSE wJob[v]
    BY <1>3 DEF IInv, TypeOK
  <2>2. \A v \in Workers : v # w /\ wJob[v] \in Jobs => wJob[v] # wJob[w]
    BY AgentConstants DEF IInv, HoldInv, SoleRunner
  <2> QED BY <2>1, <2>2, AgentConstants DEF Held
<1> QED BY <1>1, <1>2, <1>3

\* Every step is a step of the promise, or none.
LEMMA StepRefines == IInv /\ [Next]_vars => [Lease!Next]_(Lease!vars)
<1> SUFFICES ASSUME IInv, [Next]_vars PROVE [Lease!Next]_(Lease!vars)
  OBVIOUS
<1> USE DEF Lease!vars, Held
<1>1. ASSUME UNCHANGED <<status, error, progress, results>>, Held' = Held
      PROVE  [Lease!Next]_(Lease!vars)
  BY <1>1
<1>2. ASSUME NEW j \in Jobs, Enqueue(j) PROVE [Lease!Next]_(Lease!vars)
  <2>1. Lease!Enqueue(j)
    BY <1>2 DEF Enqueue, workerVars, Lease!Enqueue
  <2> QED BY <2>1 DEF Lease!Next
<1>3. ASSUME NEW S \in SUBSET Jobs, DeleteProject(S) PROVE [Lease!Next]_(Lease!vars)
  <2>1. Lease!Remove(S)
    BY <1>3 DEF DeleteProject, workerVars, Lease!Remove, Exists, Stored, Lease!Stored
  <2> QED BY <2>1 DEF Lease!Next
<1>4. ASSUME NEW w \in Workers, Reclaim(w) PROVE [Lease!Next]_(Lease!vars)
  <2>1. PICK locked \in SUBSET Lockable :
          /\ status' = [j \in Jobs |-> IF Stale(j) /\ j \notin locked THEN "failed" ELSE status[j]]
          /\ error' = [j \in Jobs |-> IF Stale(j) /\ j \notin locked THEN "stalled" ELSE error[j]]
    BY <1>4 DEF Reclaim
  <2> DEFINE S == {j \in Jobs : Stale(j) /\ j \notin locked}
  <2>2. Lease!GiveUp(S)
    BY <1>4, <2>1 DEF Reclaim, Stale, Lease!GiveUp
  <2> QED BY <2>2 DEF Lease!Next
<1>5. ASSUME NEW w \in Workers, NEW j \in Jobs, Claim(w, j) PROVE [Lease!Next]_(Lease!vars)
  <2>1. Held' = Held \cup {j}
    BY <1>5, HeldAfter DEF Claim
  <2>2. j \notin Held
    BY <1>5, AgentConstants DEF Claim, IInv, HoldInv
  <2>3. Lease!Claim(j)
    BY <1>5, <2>1, <2>2 DEF Claim, Lease!Claim
  <2> QED BY <2>3 DEF Lease!Next
<1>6. ASSUME NEW w \in Workers, AgentDone(w) \/ FailJob(w) \/ Complete(w)
      PROVE  [Lease!Next]_(Lease!vars)
  <2>1. PICK j \in Jobs : j = wJob[w] /\ j \in Held /\ status[j] \in {"processing", "failed"}
    BY <1>6, AgentConstants DEF AgentDone, FailJob, Complete, Exists, Stored, IInv, TypeOK, HoldInv
  <2>2. Lease!Reports(j)
    BY <2>1 DEF Lease!Reports
  <2>3. CASE AgentDone(w)
    <3>1. Lease!Advance(j)
      BY <2>1, <2>2, <2>3 DEF AgentDone, workerVars, Lease!Advance
    <3> QED BY <3>1 DEF Lease!Next
  <2>4. CASE FailJob(w) \/ Complete(w)
    <3>1. Held' = Held \ {j}
      BY <2>1, <2>4, HeldAfter DEF FailJob, Complete, LeaveJob
    <3>2. Lease!Fail(j) \/ Lease!Complete(j)
      BY <2>1, <2>2, <2>4, <3>1 DEF FailJob, Complete, Lease!Fail, Lease!Complete
    <3> QED BY <3>2 DEF Lease!Next
  <2> QED BY <1>6, <2>3, <2>4
<1>7. ASSUME NEW w \in Workers, LoseRow(w) \/ Crash(w) PROVE [Lease!Next]_(Lease!vars)
  <2>1. UNCHANGED <<status, error, progress, results>> /\ Held' = Held \ {wJob[w]}
    BY <1>7, HeldAfter DEF LoseRow, Crash, LeaveJob, rowVars
  <2>2. CASE wJob[w] \in Jobs
    <3>1. PICK j \in Jobs : j = wJob[w] /\ j \in Held
      BY <2>2
    <3>2. Lease!LetGo(j)
      BY <2>1, <3>1 DEF Lease!LetGo
    <3> QED BY <3>2 DEF Lease!Next
  <2>3. CASE wJob[w] \notin Jobs
    BY <1>1, <2>1, <2>3
  <2> QED BY <2>2, <2>3
<1>8. ASSUME NEW w \in Workers, FindNothing(w) \/ EndRun(w) \/ Beat(w) \/ MissBeat(w) \/ Restart(w)
      PROVE  [Lease!Next]_(Lease!vars)
  BY <1>1, <1>8 DEF FindNothing, EndRun, Beat, MissBeat, Restart, rowVars
<1>9. CASE Tick \/ UNCHANGED vars
  BY <1>1, <1>9 DEF Tick, vars, rowVars, workerVars
<1> QED
  BY <1>2, <1>3, <1>4, <1>5, <1>6, <1>7, <1>8, <1>9 DEF Next, WorkerStep

\* The rows and the holds implement the promise of JobLease: one claim and one report
\* for each job, by its holder, whoever else has given it up.
THEOREM Refinement == Spec => LeaseSpec
<1>1. Init => Lease!Init
  BY AgentConstants DEF Init, Lease!Init
<1> QED
  BY <1>1, StepRefines, Invariance, PTL DEF Spec, LeaseSpec, Lease!Spec
=============================================================================
