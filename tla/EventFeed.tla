----------------------------- MODULE EventFeed -----------------------------
(***************************************************************************)
(* What a page that watches a job is promised of its events, without       *)
(* streams, polls, frames and connections: it shows the next event after   *)
(* those it has shown, or begins anew because the user reloads it; an      *)
(* event that was never written is not waited for, and "completed" is      *)
(* shown when the job is over, which it then stays.                        *)
(***************************************************************************)
EXTENDS Naturals, Sequences

CONSTANTS Pages, MaxSeq

VARIABLES
  events,  \* the seqs of the event rows there have been
  over,    \* the job is neither queued nor running
  seen,    \* the seqs each page has shown, in this order
  shown    \* what each page says of the job

vars == <<events, over, seen, shown>>

Init ==
  /\ events = {}
  /\ over = FALSE
  /\ seen = [p \in Pages |-> <<>>]
  /\ shown = [p \in Pages |-> "away"]

Publish(n) ==
  /\ \A m \in events : m < n
  /\ events' = events \cup {n}
  /\ UNCHANGED <<over, seen, shown>>

End ==
  /\ over' = TRUE
  /\ UNCHANGED <<events, seen, shown>>

Open(p) ==
  /\ shown[p] = "away"
  /\ shown' = [shown EXCEPT ![p] = "open"]
  /\ UNCHANGED <<events, over, seen>>

\* n is the first event page p has not shown; the page goes on, or n is final.
Show(p, n) ==
  /\ shown[p] = "open" /\ n \in events
  /\ \A m \in events : m < n <=> \E i \in 1..Len(seen[p]) : seen[p][i] = m
  /\ seen' = [seen EXCEPT ![p] = Append(@, n)]
  /\ \E says \in {"open", "failed", "cancelled"} \cup (IF over THEN {"completed"} ELSE {}) :
       shown' = [shown EXCEPT ![p] = says]
  /\ UNCHANGED <<events, over>>

\* The stream ends without a final event, or is refused.
Close(p) ==
  /\ shown[p] = "open"
  /\ shown' = [shown EXCEPT ![p] = "closed"]
  /\ UNCHANGED <<events, over, seen>>

Leave(p) ==
  /\ shown[p] # "away"
  /\ shown' = [shown EXCEPT ![p] = "away"]
  /\ seen' = [seen EXCEPT ![p] = <<>>]
  /\ UNCHANGED <<events, over>>

Next ==
  \/ \E n \in 1..MaxSeq : Publish(n) \/ \E p \in Pages : Show(p, n)
  \/ End
  \/ \E p \in Pages : Open(p) \/ Close(p) \/ Leave(p)

Spec == Init /\ [][Next]_vars
=============================================================================
