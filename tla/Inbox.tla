------------------------------- MODULE Inbox -------------------------------
(***************************************************************************)
(* What Stripe and the organisation's books are promised of the events,    *)
(* without requests, sessions and the subscription's row: one delivery at  *)
(* a time takes an event up, and applies, records and answers it in one    *)
(* step or leaves no trace; a recorded event is not taken up again.  Only  *)
(* that of a checkout may be recorded before it is applied, and is lost    *)
(* when its delivery then fails.  An invoice is booked by its own event    *)
(* alone, and voided by a delivery that began after it was booked.         *)
(***************************************************************************)
EXTENDS Naturals, Sequences

CONSTANT MaxEvents

VARIABLES
  log,       \* the events sent; an event's id is its index
  taken,     \* the events a delivery has taken up
  known,     \* those among them whose invoice was booked by then
  recorded,  \* the events that will not be taken up again
  applied,   \* the events that have had their effect
  answered,  \* the events Stripe need not send again
  invoice    \* by the event that announced it

vars == <<log, taken, known, recorded, applied, answered, invoice>>

Init ==
  /\ log = <<>>
  /\ taken = {} /\ known = {} /\ recorded = {} /\ applied = {} /\ answered = {}
  /\ invoice = [i \in 1..MaxEvents |-> "none"]

Send ==
  /\ Len(log) <= Len(log')
  /\ \A k \in 1..Len(log) : log'[k] = log[k]
  /\ UNCHANGED <<taken, known, recorded, applied, answered, invoice>>

Booked(e) == e.kind \in {"paid", "voided"} /\ invoice[e.inv] # "none"

Take(i) ==
  /\ i <= Len(log) /\ i \notin recorded \cup taken
  /\ taken' = taken \cup {i}
  /\ known' = IF Booked(log[i]) THEN known \cup {i} ELSE known
  /\ UNCHANGED <<log, recorded, applied, answered, invoice>>

Drop(i) ==
  /\ i \in taken
  /\ taken' = taken \ {i} /\ known' = known \ {i}
  /\ UNCHANGED <<log, recorded, applied, answered, invoice>>

RecordEarly(i) ==
  /\ i \in taken /\ log[i].kind = "completed"
  /\ recorded' = recorded \cup {i}
  /\ UNCHANGED <<log, taken, known, applied, answered, invoice>>

\* Only an event of the organisation's own subscription books its invoice.
Book(i) ==
  LET e == log[i]
  IN  \/ e.kind # "voided" /\ UNCHANGED invoice
      \/ e.kind = "paid" /\ invoice[e.inv] = "none" /\ invoice' = [invoice EXCEPT ![e.inv] = "paid"]
      \/ e.kind = "voided" /\ i \notin known /\ UNCHANGED invoice
      \/ e.kind = "voided" /\ i \in known /\ invoice' = [invoice EXCEPT ![e.inv] = "void"]

Apply(i) ==
  /\ i \in taken \ applied
  /\ taken' = taken \ {i} /\ known' = known \ {i}
  /\ recorded' = recorded \cup {i}
  /\ applied' = applied \cup {i}
  /\ answered' = answered \cup {i}
  /\ Book(i)
  /\ UNCHANGED log

\* It is delivered again.
Answer(i) ==
  /\ i \in recorded
  /\ answered' = answered \cup {i}
  /\ UNCHANGED <<log, taken, known, recorded, applied, invoice>>

Next ==
  \/ Send
  \/ \E i \in 1..MaxEvents : Take(i) \/ Drop(i) \/ RecordEarly(i) \/ Apply(i) \/ Answer(i)

Spec == Init /\ [][Next]_vars
=============================================================================
