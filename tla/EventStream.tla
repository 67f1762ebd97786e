---------------------------- MODULE EventStream ----------------------------
(***************************************************************************)
(* The live progress of one analysis job: the worker's ProgressReporter    *)
(* writes event rows in transactions of their own, beside the job's; every *)
(* stream polls the rows after the last one it sent and sends them to a    *)
(* page, which reconnects after the last one it received.                  *)
(***************************************************************************)
EXTENDS Naturals, Sequences, FiniteSets

CONSTANTS
  Pages,     \* pages that watch the job, an EventSource each
  MaxSeq,    \* bound: events of the job
  MaxBreaks  \* bound: lost connections, reloads and failed reads

ASSUME EventStreamConstants == MaxSeq \in Nat /\ MaxBreaks \in Nat

VARIABLES
  job,         \* analysis_jobs.status; "gone" when the project was deleted
  cancelling,  \* a cancel request that found the job queued and has not written yet
  worker,      \* where process_job is, and the reporter's seq
  log,         \* analysis_job_events of the job, ordered by seq
  written,     \* history: the seqs of every event row there has been
  stream,      \* the generator that serves each page
  wire,        \* frames sent to each page and not yet received
  page,        \* what each page knows
  breaks

jobVars == <<job, cancelling, worker>>
clientVars == <<stream, wire, page>>
streamVars == <<jobVars, log, written, clientVars, breaks>>

Terminal == {"succeeded", "failed", "cancelled"}   \* job status
Final == {"completed", "failed", "cancelled"}      \* _is_terminal_event
Kinds == {"step"} \cup Final
Rows == [seq : 1..MaxSeq, kind : Kinds]
Frames == Rows \cup {[seq |-> 0, kind |-> "end"]}

StreamOff == [at |-> "off", last |-> 0, batch |-> <<>>]
PageAway == [at |-> "away", last |-> 0, seen |-> <<>>]

EventStreamTypeOK ==
  /\ job \in {"queued", "running", "gone"} \cup Terminal
  /\ cancelling \in BOOLEAN
  /\ worker \in [at : {"idle", "work", "settle", "finalizing", "completed", "over"},
                 seq : 0..MaxSeq, outcome : {"failed", "cancelled"}]
  /\ log \in Seq(Rows)
  /\ written \in SUBSET (1..MaxSeq)
  /\ stream \in [Pages -> [at : {"off", "fetch", "send", "check"}, last : 0..MaxSeq,
                           batch : Seq(Rows)]]
  /\ wire \in [Pages -> Seq(Frames)]
  /\ page \in [Pages -> [at : {"away", "open", "closed"} \cup Final, last : 0..MaxSeq,
                         seen : Seq(1..MaxSeq)]]
  /\ breaks \in 0..MaxBreaks

EventStreamInit ==
  /\ job = "queued"
  /\ cancelling = FALSE
  /\ worker = [at |-> "idle", seq |-> 0, outcome |-> "failed"]
  /\ log = <<>>
  /\ written = {}
  /\ stream = [p \in Pages |-> StreamOff]
  /\ wire = [p \in Pages |-> <<>>]
  /\ page = [p \in Pages |-> PageAway]
  /\ breaks = 0

-----------------------------------------------------------------------------
(* The job and its worker                                                  *)

\* The worker goes on to "at" with the next seq; the row is written, or the write
\* fails and is swallowed, as it does when the job is gone.
Emit(kind, at) ==
  LET n == worker.seq + 1
  IN  /\ n <= MaxSeq
      /\ worker' = [worker EXCEPT !.at = at, !.seq = n]
      /\ \/ /\ job # "gone"
            /\ log' = Append(log, [seq |-> n, kind |-> kind])
            /\ written' = written \cup {n}
         \/ UNCHANGED <<log, written>>

ClaimJob ==
  /\ worker.at = "idle" /\ job = "queued"
  /\ job' = "running"
  /\ worker' = [worker EXCEPT !.at = "work"]
  /\ UNCHANGED <<cancelling, log, written, clientVars, breaks>>

\* A stage or a heartbeat of the engine's poll; three seqs are left for the end.
EmitStep ==
  /\ worker.at = "work" /\ worker.seq + 3 <= MaxSeq
  /\ Emit("step", "work")
  /\ UNCHANGED <<job, cancelling, clientVars, breaks>>

\* Mutation: Completed is announced before the results are committed.
EndsWellEarly ==
  \/ /\ worker.at = "work"
     /\ Emit("completed", "completed")
     /\ UNCHANGED <<job, cancelling, clientVars, breaks>>
  \/ /\ worker.at = "completed"
     /\ job' = IF job = "gone" THEN job ELSE "succeeded"
     /\ worker' = [worker EXCEPT !.at = "over"]
     /\ UNCHANGED <<cancelling, log, written, clientVars, breaks>>

\* ingest_result: the commit; a job that is gone makes it raise.
EndsWell ==
  /\ worker.at = "work"
  /\ job' = IF job = "gone" THEN job ELSE "succeeded"
  /\ worker' = [worker EXCEPT !.at = IF job = "gone" THEN "over" ELSE "finalizing"]
  /\ UNCHANGED <<cancelling, log, written, clientVars, breaks>>

EmitFinalizing ==
  /\ worker.at = "finalizing"
  /\ Emit("step", "completed")
  /\ UNCHANGED <<job, cancelling, clientVars, breaks>>

EmitCompleted ==
  /\ worker.at = "completed"
  /\ Emit("completed", "over")
  /\ UNCHANGED <<job, cancelling, clientVars, breaks>>

\* reporter.fail(), reporter.cancelled()
EmitBadEnd(outcome) ==
  /\ worker.at = "work"
  /\ LET n == worker.seq + 1
     IN  /\ n <= MaxSeq
         /\ worker' = [at |-> "settle", seq |-> n, outcome |-> outcome]
         /\ \/ /\ job # "gone"
               /\ log' = Append(log, [seq |-> n, kind |-> outcome])
               /\ written' = written \cup {n}
            \/ UNCHANGED <<log, written>>
  /\ UNCHANGED <<job, cancelling, clientVars, breaks>>

\* fail_job, cancel_job
SettleJob ==
  /\ worker.at = "settle"
  /\ job' = IF job = "gone" THEN job ELSE worker.outcome
  /\ worker' = [worker EXCEPT !.at = "over"]
  /\ UNCHANGED <<cancelling, log, written, clientVars, breaks>>

\* A crash, or an exception outside process_job's try.
WorkerStops ==
  /\ worker.at \notin {"idle", "over"}
  /\ worker' = [worker EXCEPT !.at = "over"]
  /\ UNCHANGED <<job, cancelling, log, written, clientVars, breaks>>

\* cancel_analysis, its read, of a job that is queued.
ReadToCancel ==
  /\ job = "queued"
  /\ cancelling' = TRUE
  /\ UNCHANGED <<job, worker, log, written, clientVars, breaks>>

WriteCancelled ==
  /\ cancelling
  /\ cancelling' = FALSE
  /\ job' = IF job = "gone" THEN job ELSE "cancelled"
  /\ UNCHANGED <<worker, log, written, clientVars, breaks>>

\* The rows go with the job.
ProjectDeleted ==
  /\ job # "gone"
  /\ job' = "gone"
  /\ log' = <<>>
  /\ UNCHANGED <<cancelling, worker, written, clientVars, breaks>>

-----------------------------------------------------------------------------
(* The stream of page p                                                    *)

Streaming(p, r) == stream' = [stream EXCEPT ![p] = r]

Watching(p) == page[p].at = "open"

OpenPage(p) ==
  /\ page[p].at = "away"
  /\ page' = [page EXCEPT ![p].at = "open"]
  /\ UNCHANGED <<jobVars, log, written, stream, wire, breaks>>

\* The EventSource connects, or connects again with its Last-Event-ID.
Disconnected(p) == Watching(p) /\ stream[p].at = "off" /\ wire[p] = <<>>

Connect(p) ==
  /\ Disconnected(p) /\ job # "gone"
  /\ Streaming(p, [at |-> "fetch", last |-> page[p].last, batch |-> <<>>])
  /\ UNCHANGED <<jobVars, log, written, wire, page, breaks>>

\* 404 when the job is gone, 401 when the access token in the URL has expired: the
\* EventSource closes for good.
Refused(p) ==
  /\ Disconnected(p)
  /\ page' = [page EXCEPT ![p].at = "closed"]
  /\ UNCHANGED <<jobVars, log, written, stream, wire, breaks>>

Fetched(p, rows) ==
  Streaming(p, [stream[p] EXCEPT !.at = IF rows = <<>> THEN "check" ELSE "send",
                                 !.batch = rows])

\* The rows of the log after the first k, in the order of seq.
RowsAfter(k) == SubSeq(log, k + 1, Len(log))

\* Mutation: the rows from the last one on.
FetchInclusive(p) ==
  /\ stream[p].at = "fetch"
  /\ \E k \in 0..Len(log) :
       /\ \A i \in 1..Len(log) : i <= k <=> log[i].seq < stream[p].last
       /\ Fetched(p, RowsAfter(k))
  /\ UNCHANGED <<jobVars, log, written, wire, page, breaks>>

\* _fetch_after
Fetch(p) ==
  /\ stream[p].at = "fetch"
  /\ \E k \in 0..Len(log) :
       /\ \A i \in 1..Len(log) : i <= k <=> log[i].seq <= stream[p].last
       /\ Fetched(p, RowsAfter(k))
  /\ UNCHANGED <<jobVars, log, written, wire, page, breaks>>

\* A read hiccup counts as "no new events".
FetchFails(p) ==
  /\ stream[p].at = "fetch" /\ breaks < MaxBreaks
  /\ Fetched(p, <<>>)
  /\ breaks' = breaks + 1
  /\ UNCHANGED <<jobVars, log, written, wire, page>>

SendFrame(p) ==
  LET row == Head(stream[p].batch)
      rest == Tail(stream[p].batch)
  IN  /\ stream[p].at = "send"
      /\ wire' = [wire EXCEPT ![p] = Append(@, row)]
      /\ Streaming(p, IF row.kind \in Final THEN StreamOff
                      ELSE [at |-> IF rest = <<>> THEN "fetch" ELSE "send",
                            last |-> row.seq, batch |-> rest])
      /\ UNCHANGED <<jobVars, log, written, page, breaks>>

SendEnd(p) ==
  /\ wire' = [wire EXCEPT ![p] = Append(@, [seq |-> 0, kind |-> "end"])]
  /\ Streaming(p, StreamOff)
  /\ UNCHANGED <<jobVars, log, written, page, breaks>>

\* Mutation: only the final event ends a stream.
CheckJobNever(p) ==
  /\ stream[p].at = "check"
  /\ Streaming(p, [stream[p] EXCEPT !.at = "fetch"])
  /\ UNCHANGED <<jobVars, log, written, wire, page, breaks>>

\* _job_is_terminal
CheckJob(p) ==
  /\ stream[p].at = "check"
  /\ IF job \in Terminal
       THEN SendEnd(p)
       ELSE /\ Streaming(p, [stream[p] EXCEPT !.at = "fetch"])
            /\ UNCHANGED <<jobVars, log, written, wire, page, breaks>>

\* The read of the job is not guarded: its error ends the generator.
CheckFails(p) ==
  /\ stream[p].at = "check" /\ breaks < MaxBreaks
  /\ Streaming(p, StreamOff)
  /\ breaks' = breaks + 1
  /\ UNCHANGED <<jobVars, log, written, wire, page>>

\* _MAX_STREAM_SECONDS have passed.
Ceiling(p) == stream[p].at = "fetch" /\ SendEnd(p)

\* The connection is lost, with what was on its way.
Break(p) ==
  /\ Watching(p) /\ (stream[p].at # "off" \/ wire[p] # <<>>) /\ breaks < MaxBreaks
  /\ Streaming(p, StreamOff)
  /\ wire' = [wire EXCEPT ![p] = <<>>]
  /\ breaks' = breaks + 1
  /\ UNCHANGED <<jobVars, log, written, page>>

-----------------------------------------------------------------------------
(* The page: useAnalysisStream                                             *)

\* "progress" and "end" frames.  finish() closes the EventSource.
Receive(p) ==
  LET frame == Head(wire[p])
  IN  /\ Watching(p) /\ wire[p] # <<>>
      /\ page' = [page EXCEPT ![p] =
                    IF frame.kind = "end" THEN [@ EXCEPT !.at = "closed"]
                    ELSE [at |-> IF frame.kind \in Final THEN frame.kind ELSE "open",
                          last |-> frame.seq, seen |-> Append(@.seen, frame.seq)]]
      /\ IF frame.kind = "step"
           THEN wire' = [wire EXCEPT ![p] = Tail(@)] /\ UNCHANGED stream
           ELSE wire' = [wire EXCEPT ![p] = <<>>] /\ Streaming(p, StreamOff)
      /\ UNCHANGED <<jobVars, log, written, breaks>>

\* The page is left or reloaded: the next one begins with the first event.
LeavePage(p) ==
  /\ page[p].at # "away" /\ breaks < MaxBreaks
  /\ page' = [page EXCEPT ![p] = PageAway]
  /\ Streaming(p, StreamOff)
  /\ wire' = [wire EXCEPT ![p] = <<>>]
  /\ breaks' = breaks + 1
  /\ UNCHANGED <<jobVars, log, written>>

-----------------------------------------------------------------------------
EventStreamNext ==
  \/ ClaimJob \/ EmitStep \/ EndsWell \/ EmitFinalizing \/ EmitCompleted \/ SettleJob
  \/ WorkerStops \/ ReadToCancel \/ WriteCancelled \/ ProjectDeleted
  \/ \E outcome \in {"failed", "cancelled"} : EmitBadEnd(outcome)
  \/ \E p \in Pages :
       \/ OpenPage(p) \/ Connect(p) \/ Refused(p) \/ Fetch(p) \/ FetchFails(p) \/ SendFrame(p)
       \/ CheckJob(p) \/ CheckFails(p) \/ Ceiling(p) \/ Break(p) \/ Receive(p) \/ LeavePage(p)

EventStreamSpec == EventStreamInit /\ [][EventStreamNext]_streamVars

\* The generator goes on polling and sending, the network and the browser deliver
\* and reconnect.  Nothing makes the worker go on, nor the ceiling come.
EventStreamFairness ==
  \A p \in Pages :
    /\ WF_streamVars(Fetch(p) \/ FetchFails(p))
    /\ WF_streamVars(SendFrame(p))
    /\ WF_streamVars(CheckJob(p) \/ CheckFails(p))
    /\ WF_streamVars(Connect(p) \/ Refused(p))
    /\ WF_streamVars(Receive(p))

-----------------------------------------------------------------------------
(* Properties                                                              *)

\* analysis_events.py "never replay or miss an event": whatever connections it
\* lost, a page has received each event row up to its last one, once and in order.
ResumesExactly ==
  \A p \in Pages :
    LET seen == page[p].seen
    IN  /\ \A i, j \in 1..Len(seen) : i < j => seen[i] < seen[j]
        /\ {seen[i] : i \in 1..Len(seen)} = {n \in written : n <= page[p].last}

\* A page that is shown "Completed" finds the job stored as over when it loads the
\* dashboard: ingest_result commits before it emits.
CompletedIsStored ==
  \A p \in Pages : page[p].at = "completed" => job \notin {"queued", "running"}

\* page.tsx "onEnd fires once when the run reaches a terminal event so the caller
\* can refresh the dashboard for persisted totals": the same for every final event.
ToldIsStored ==
  \A p \in Pages : page[p].at \in Final => job \notin {"queued", "running"}

\* The rows, streams and connections implement the promise of EventFeed: a page shows
\* the next event after those it has shown, or begins anew.
Feed == INSTANCE EventFeed WITH
  events <- written, over <- job \notin {"queued", "running"},
  seen <- [p \in Pages |-> page[p].seen], shown <- [p \in Pages |-> page[p].at]
FeedSpec == Feed!Spec

\* _job_is_terminal "the stream ends shortly after, even if the final progress
\* event was lost": a page that watches a job that is over is told so, the 30-minute
\* ceiling aside, unless the project is deleted meanwhile.
StreamsEnd ==
  \A p \in Pages : (Watching(p) /\ job \in Terminal) ~> (~Watching(p) \/ job = "gone")
=============================================================================
