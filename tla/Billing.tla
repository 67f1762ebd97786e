------------------------------ MODULE Billing ------------------------------
(***************************************************************************)
(* The subscription of one organisation: Stripe's subscriptions, the       *)
(* webhook events they cause, delivered at least once and in any order,    *)
(* and the requests that read and write the local row.  The row is read    *)
(* without a lock and written, by primary key, in the columns that differ  *)
(* from what was read.  Each action is one transaction or one statement of *)
(* it that another request can tell.                                       *)
(***************************************************************************)
EXTENDS Naturals, Sequences, FiniteSets

CONSTANTS
  Handlers,      \* requests that can be in flight together
  Subs,          \* Stripe subscription ids
  NoSub,
  MaxEvents,     \* bound: events Stripe sends
  MaxFailures    \* bound: requests that die before their last commit

ASSUME BillingConstants ==
  /\ NoSub \notin Subs
  /\ MaxEvents \in Nat
  /\ MaxFailures \in Nat

VARIABLES
  sub,        \* the subscriptions row
  invoice,    \* invoices, by the event that announced them
  recorded,   \* stripe_events, committed
  op,         \* what each request does: "none", "webhook" or an API operation
  pc,         \* where it is
  ev,         \* the event of a webhook request, 0 without
  snap,       \* the row as its session loaded it
  found,      \* its lookup of the event's invoice found a row
  stripe,     \* external: Stripe's own subscriptions
  log,        \* external: the events Stripe has sent; an event's id is its index
  acked,      \* external: the events answered with 2xx
  handled,    \* history: how often the effect of each event was committed
  clean,      \* history: no reordering, no overlap with a webhook so far
  failures

reqVars    == <<op, pc, ev, snap, found>>
stripeVars == <<stripe, log>>
vars == <<sub, invoice, recorded, reqVars, stripeVars, acked, handled, clean, failures>>

EventId == 1..MaxEvents
Row == [plan : {"free", "pro"},
        status : {"active", "past_due", "suspended", "canceled"},
        grace : {"none", "running", "over"},
        link : Subs \cup {NoSub},
        ends : BOOLEAN]
Event == [kind : {"completed", "updated", "deleted", "paid", "failed", "voided"},
          sub : Subs, status : {"active", "past_due", "canceled"}, ends : BOOLEAN,
          inv : EventId \cup {0}]
ApiOp == {"read", "checkout", "cancel", "resume"}
Stripe == [state : {"none", "open", "active", "past_due", "canceled"}, ends : BOOLEAN]

TypeOK ==
  /\ sub \in Row
  /\ invoice \in [EventId -> {"none", "paid", "void"}]
  /\ recorded \in SUBSET EventId
  /\ op \in [Handlers -> ApiOp \cup {"none", "webhook"}]
  /\ pc \in [Handlers -> {"idle", "expiring", "loaded", "called"}]
  /\ ev \in [Handlers -> EventId \cup {0}]
  /\ snap \in [Handlers -> Row]
  /\ found \in [Handlers -> BOOLEAN]
  /\ stripe \in [Subs -> Stripe]
  /\ log \in Seq(Event) /\ Len(log) <= MaxEvents
  /\ acked \in SUBSET EventId
  /\ handled \in [EventId -> Nat]
  /\ clean \in BOOLEAN
  /\ failures \in 0..MaxFailures

\* The row as it is created, lazily, before the first checkout.
FreeRow == [plan |-> "free", status |-> "active", grace |-> "none", link |-> NoSub,
            ends |-> FALSE]

Init ==
  /\ sub = FreeRow
  /\ invoice = [i \in EventId |-> "none"]
  /\ recorded = {}
  /\ op = [h \in Handlers |-> "none"]
  /\ pc = [h \in Handlers |-> "idle"]
  /\ ev = [h \in Handlers |-> 0]
  /\ snap = [h \in Handlers |-> FreeRow]
  /\ found = [h \in Handlers |-> FALSE]
  /\ stripe = [s \in Subs |-> [state |-> "none", ends |-> FALSE]]
  /\ log = <<>>
  /\ acked = {}
  /\ handled = [i \in EventId |-> 0]
  /\ clean = TRUE
  /\ failures = 0

-----------------------------------------------------------------------------
(* Stripe, as the code relies on it                                        *)

Alive(s) == stripe[s].state \in {"active", "past_due"}

Note(k, s, st, e, i) == [kind |-> k, sub |-> s, status |-> st, ends |-> e, inv |-> i]

Send(events) ==
  /\ Len(log) + Len(events) <= MaxEvents
  /\ log' = log \o events

\* The customer pays in an open Checkout Session.
StripeCompletes(s) ==
  /\ stripe[s].state = "open"
  /\ stripe' = [stripe EXCEPT ![s].state = "active"]
  /\ Send(<<Note("completed", s, "active", FALSE, 0), Note("updated", s, "active", FALSE, 0)>>)
  /\ UNCHANGED <<sub, invoice, recorded, reqVars, acked, handled, clean, failures>>

\* A recurring payment fails.
StripeFails(s) ==
  /\ stripe[s].state = "active"
  /\ stripe' = [stripe EXCEPT ![s].state = "past_due"]
  /\ Send(<<Note("failed", s, "past_due", stripe[s].ends, 0)>>)
  /\ UNCHANGED <<sub, invoice, recorded, reqVars, acked, handled, clean, failures>>

\* A payment succeeds, with an invoice; an overdue subscription is active again.
StripePays(s) ==
  /\ Alive(s)
  /\ stripe' = [stripe EXCEPT ![s].state = "active"]
  /\ Send(<<Note("paid", s, "active", stripe[s].ends, Len(log) + 1)>>)
  /\ UNCHANGED <<sub, invoice, recorded, reqVars, acked, handled, clean, failures>>

\* Any change of a subscription is also reported as such, sooner or later.
StripeReports(s) ==
  /\ Alive(s)
  /\ Send(<<Note("updated", s, stripe[s].state, stripe[s].ends, 0)>>)
  /\ UNCHANGED <<sub, invoice, recorded, reqVars, stripe, acked, handled, clean, failures>>

\* A subscription ends.
StripeEnds(s) ==
  /\ Alive(s)
  /\ stripe' = [stripe EXCEPT ![s] = [state |-> "canceled", ends |-> FALSE]]
  /\ Send(<<Note("deleted", s, "canceled", FALSE, 0)>>)
  /\ UNCHANGED <<sub, invoice, recorded, reqVars, acked, handled, clean, failures>>

\* An invoice is voided, once.
StripeVoids(i) ==
  /\ i <= Len(log)
  /\ log[i].kind = "paid"
  /\ \A k \in 1..Len(log) : ~(log[k].kind = "voided" /\ log[k].inv = i)
  /\ Send(<<Note("voided", log[i].sub, "active", FALSE, i)>>)
  /\ UNCHANGED <<sub, invoice, recorded, reqVars, stripe, acked, handled, clean, failures>>

-----------------------------------------------------------------------------
(* The row                                                                 *)

Busy(h) == op[h] # "none"

\* get_or_create_subscription found a grace period that is over.
Expired(row) == row.status = "past_due" /\ row.grace = "over"

\* The UPDATE of a session: the columns whose value differs from the loaded one.
Merge(loaded, new) ==
  [c \in DOMAIN sub |-> IF new[c] # loaded[c] THEN new[c] ELSE sub[c]]

Release(h) ==
  /\ op' = [op EXCEPT ![h] = "none"]
  /\ pc' = [pc EXCEPT ![h] = "idle"]
  /\ ev' = [ev EXCEPT ![h] = 0]
  /\ snap' = [snap EXCEPT ![h] = FreeRow]
  /\ found' = [found EXCEPT ![h] = FALSE]

\* What the SELECT by stripe_invoice_id finds for an event about an invoice.
Booked(i) == log[i].kind \in {"paid", "voided"} /\ invoice[log[i].inv] # "none"

\* The session loads the row, a webhook's also the invoice; a grace period that is
\* over comes first.
Load(h, what, i, expires) ==
  /\ op' = [op EXCEPT ![h] = what]
  /\ pc' = [pc EXCEPT ![h] = IF expires /\ Expired(sub) THEN "expiring" ELSE "loaded"]
  /\ ev' = [ev EXCEPT ![h] = i]
  /\ snap' = [snap EXCEPT ![h] = sub]
  /\ found' = [found EXCEPT ![h] = i # 0 /\ Booked(i)]

\* The grace period of a failed payment runs out.
GraceElapses ==
  /\ sub.grace = "running"
  /\ sub' = [sub EXCEPT !.grace = "over"]
  /\ snap' = [h \in Handlers |->
                IF snap[h].grace = "running" THEN [snap[h] EXCEPT !.grace = "over"] ELSE snap[h]]
  /\ UNCHANGED <<invoice, recorded, op, pc, ev, found, stripeVars, acked, handled, clean, failures>>

\* Mutation: the status is a name the column's type does not have.
ExpireMisnamed(h) ==
  /\ pc[h] = "expiring"
  /\ sub' = Merge(snap[h], [snap[h] EXCEPT !.status = "expired"])
  /\ pc' = [pc EXCEPT ![h] = "loaded"]
  /\ UNCHANGED <<invoice, recorded, op, ev, snap, found, stripeVars, acked, handled, clean, failures>>

\* _apply_grace_period_expiry: its commit takes a webhook's reservation with it.
Expire(h) ==
  /\ pc[h] = "expiring"
  /\ sub' = Merge(snap[h], [snap[h] EXCEPT !.status = "suspended"])
  /\ snap' = [snap EXCEPT ![h].status = "suspended"]
  /\ pc' = [pc EXCEPT ![h] = "loaded"]
  /\ recorded' = IF op[h] = "webhook" THEN recorded \cup {ev[h]} ELSE recorded
  /\ UNCHANGED <<invoice, op, ev, found, stripeVars, acked, handled, clean, failures>>

-----------------------------------------------------------------------------
(* Webhooks                                                                *)

\* Mutation: the check for a recorded event is left to the primary key, whose
\* violation is not caught any more: a repeated event is processed again.
DeliverUnchecked(h, i) ==
  /\ ~Busy(h)
  /\ i <= Len(log)
  /\ \A g \in Handlers : ev[g] # i
  /\ Load(h, "webhook", i, log[i].kind = "completed")
  /\ UNCHANGED <<sub, invoice, recorded, stripeVars, acked, handled, clean, failures>>

\* The reservation is flushed and the row loaded.  A delivery that finds another
\* request's uncommitted reservation waits until that one ends.
Deliver(h, i) ==
  /\ ~Busy(h)
  /\ i <= Len(log)
  /\ i \notin recorded
  /\ \A g \in Handlers : ev[g] # i
  /\ Load(h, "webhook", i, log[i].kind = "completed")
  /\ clean' = (clean /\ 1..(i - 1) \subseteq recorded /\ \A g \in Handlers : ~Busy(g))
  /\ UNCHANGED <<sub, invoice, recorded, stripeVars, acked, handled, failures>>

\* A repeated delivery of a recorded event changes nothing and is answered 2xx.
DeliverAgain(i) ==
  /\ i \in recorded
  /\ acked' = acked \cup {i}
  /\ UNCHANGED <<sub, invoice, recorded, reqVars, stripeVars, handled, clean, failures>>

\* customer.subscription.updated and .created
OnUpdated(e, row) ==
  [row EXCEPT !.plan = "pro", !.status = e.status, !.ends = e.ends,
              !.grace = IF e.status = "past_due" THEN @ ELSE "none"]

\* Mutation: the pending cancellation outlives the subscription.
OnDeletedKeepingFlag(row) ==
  [row EXCEPT !.plan = "free", !.status = "canceled", !.grace = "none"]

\* customer.subscription.deleted
OnDeleted(row) ==
  [row EXCEPT !.plan = "free", !.status = "canceled", !.ends = FALSE, !.grace = "none"]

\* Mutation: the organisation's row is taken, whatever subscription it is linked to.
EffectUnmatched(e, row) ==
  IF e.kind = "completed" THEN [row EXCEPT !.link = e.sub]
  ELSE IF e.kind = "updated" THEN OnUpdated(e, row)
  ELSE row

\* What _apply_webhook_event makes of the row it loaded.  A subscription the row
\* is not linked to is logged and ignored.
Effect(e, row) ==
  IF e.kind = "completed" THEN [row EXCEPT !.link = e.sub]
  ELSE IF row.link # e.sub \/ e.kind = "voided" THEN row
  ELSE IF e.kind = "updated" THEN OnUpdated(e, row)
  ELSE IF e.kind = "deleted" THEN OnDeleted(row)
  ELSE IF e.kind = "paid" THEN [row EXCEPT !.status = "active", !.grace = "none"]
  ELSE [row EXCEPT !.status = "past_due", !.grace = "running"]

\* An invoice row is added for a linked subscription; one that was found is voided.
\* A webhook that looked before the invoice was committed leaves it as it is.
InvoiceEffect(h) ==
  LET e == log[ev[h]]
  IN  IF e.kind = "paid" /\ ~found[h] /\ snap[h].link = e.sub
        THEN [invoice EXCEPT ![e.inv] = "paid"]
      ELSE IF e.kind = "voided" /\ found[h] THEN [invoice EXCEPT ![e.inv] = "void"]
      ELSE invoice

\* A payment already recorded changes nothing.  The new deadline of a failed payment
\* is always written: it is a new date.
Apply(h) ==
  LET e == log[ev[h]]
      row == Merge(snap[h], Effect(e, snap[h]))
  IN  IF e.kind = "paid" /\ found[h] THEN sub
      ELSE IF e.kind = "failed" /\ snap[h].link = e.sub THEN [row EXCEPT !.grace = "running"]
      ELSE row

\* Mutation: the event is answered and recorded, the changes are not committed.
CommitRecordOnly(h) ==
  /\ op[h] = "webhook" /\ pc[h] = "loaded"
  /\ recorded' = recorded \cup {ev[h]}
  /\ acked' = acked \cup {ev[h]}
  /\ Release(h)
  /\ UNCHANGED <<sub, invoice, stripeVars, handled, clean, failures>>

\* The effect and the reservation are committed together and the answer is 2xx.
Commit(h) ==
  /\ op[h] = "webhook" /\ pc[h] = "loaded"
  /\ sub' = Apply(h)
  /\ invoice' = InvoiceEffect(h)
  /\ recorded' = recorded \cup {ev[h]}
  /\ acked' = acked \cup {ev[h]}
  /\ handled' = [handled EXCEPT ![ev[h]] = @ + 1]
  /\ Release(h)
  /\ UNCHANGED <<stripeVars, clean, failures>>

\* An exception or a crash: what was not committed is rolled back, the answer is
\* not 2xx.  Only an event recorded by Expire is lost to later deliveries.
Fail(h) ==
  /\ Busy(h)
  /\ failures < MaxFailures
  /\ failures' = failures + 1
  /\ clean' = (clean /\ (op[h] = "webhook" => ev[h] \notin recorded))
  /\ Release(h)
  /\ UNCHANGED <<sub, invoice, recorded, stripeVars, acked, handled>>

-----------------------------------------------------------------------------
(* Requests of the organisation's admins                                   *)

\* What each operation asks of the row before it does anything.
Accepts(what, row) ==
  \/ what = "checkout" /\ (row.link = NoSub \/ row.plan = "free")
  \/ what = "cancel" /\ row.plan # "free"
  \/ what = "resume" /\ row.ends

\* Every other request begins with get_or_create_subscription.  One that only
\* reads, or is refused, changes nothing unless a grace period is over.
Begin(h, what) ==
  /\ ~Busy(h)
  /\ Expired(sub) \/ Accepts(what, sub)
  /\ Load(h, what, 0, TRUE)
  /\ clean' = (clean /\ \A g \in Handlers : op[g] # "webhook")
  /\ UNCHANGED <<sub, invoice, recorded, stripeVars, acked, handled, failures>>

\* The subscription, usage, seats or features are returned, or a refusal.
Return(h) ==
  /\ op[h] \in ApiOp /\ pc[h] = "loaded"
  /\ ~Accepts(op[h], snap[h])
  /\ Release(h)
  /\ UNCHANGED <<sub, invoice, recorded, stripeVars, acked, handled, clean, failures>>

\* start_checkout: a new Checkout Session, or the one of the same half minute.
StartCheckout(h, s) ==
  /\ op[h] = "checkout" /\ pc[h] = "loaded"
  /\ Accepts("checkout", snap[h])
  /\ stripe[s].state \in {"none", "open"}
  /\ stripe' = [stripe EXCEPT ![s].state = "open"]
  /\ Release(h)
  /\ UNCHANGED <<sub, invoice, recorded, log, acked, handled, clean, failures>>

\* cancel_subscription and resume_subscription, first half: Stripe is told.  It
\* refuses for a subscription that has ended, and the request fails.
CallStripe(h) ==
  /\ op[h] \in {"cancel", "resume"} /\ pc[h] = "loaded"
  /\ Accepts(op[h], snap[h])
  /\ LET s == snap[h].link
     IN  /\ s # NoSub
         /\ IF Alive(s)
              THEN /\ stripe' = [stripe EXCEPT ![s].ends = (op[h] = "cancel")]
                   /\ Send(<<Note("updated", s, stripe[s].state, op[h] = "cancel", 0)>>)
                   /\ pc' = [pc EXCEPT ![h] = "called"]
                   /\ UNCHANGED <<op, ev, snap, found>>
              ELSE Release(h) /\ UNCHANGED stripeVars
  /\ UNCHANGED <<sub, invoice, recorded, acked, handled, clean, failures>>

\* Second half: the local flag.
SetEnds(h) ==
  /\ pc[h] = "called"
  /\ sub' = Merge(snap[h], [snap[h] EXCEPT !.ends = (op[h] = "cancel")])
  /\ Release(h)
  /\ UNCHANGED <<invoice, recorded, stripeVars, acked, handled, clean, failures>>

-----------------------------------------------------------------------------
Next ==
  \/ \E s \in Subs : StripeCompletes(s) \/ StripeFails(s) \/ StripePays(s)
                    \/ StripeReports(s) \/ StripeEnds(s)
  \/ \E i \in EventId : StripeVoids(i) \/ DeliverAgain(i)
  \/ \E h \in Handlers, i \in EventId : Deliver(h, i)
  \/ \E h \in Handlers, what \in ApiOp : Begin(h, what)
  \/ \E h \in Handlers, s \in Subs : StartCheckout(h, s)
  \/ \E h \in Handlers : Expire(h) \/ Commit(h) \/ Return(h) \/ CallStripe(h) \/ SetEnds(h)
  \/ \E h \in Handlers : Fail(h)
  \/ GraceElapses

Spec == Init /\ [][Next]_vars

-----------------------------------------------------------------------------
(* Properties                                                              *)

\* However often an event is delivered, and to however many requests at once,
\* its effect is committed at most once.
AppliedOnce == \A i \in EventId : handled[i] <= 1

\* Stripe stops delivering what was answered 2xx: such an event has had its
\* effect.  (A checkout event may have been recorded by an early commit.)
NothingLost ==
  \A i \in acked : log[i].kind # "completed" => handled[i] = 1

\* The reservations, the row's early commit and the last commits implement the promise
\* of Inbox: an event is applied, recorded and answered by one delivery in one step.
\* A voided invoice stays paid only when its delivery began before it was booked.
EventInbox == INSTANCE Inbox WITH
  taken <- {ev[h] : h \in Handlers} \ {0}, answered <- acked,
  applied <- {i \in EventId : handled[i] = 1},
  known <- {ev[h] : h \in {g \in Handlers : found[g]}}
InboxSpec == EventInbox!Spec

\* Nobody is on a paid plan without a subscription at Stripe to be charged for,
\* and cancelled by: a late or foreign event never upgrades an unlinked row.
PaidIsLinked ==
  sub.plan = "pro" => sub.link # NoSub /\ stripe[sub.link].state \notin {"none", "open"}

\* Duplicates, retries and failures do no harm: if no event overtook another and
\* no request overlapped a webhook, then once everything sent is recorded the
\* row says what Stripe says.
FollowsStripe ==
  clean /\ recorded = 1..Len(log) /\ (\A h \in Handlers : ~Busy(h)) =>
    /\ sub.link = NoSub <=> \A s \in Subs : stripe[s].state \in {"none", "open"}
    /\ sub.link # NoSub =>
         /\ sub.plan = "pro" <=> Alive(sub.link)
         /\ stripe[sub.link].state = "past_due" <=> sub.status \in {"past_due", "suspended"}
         /\ stripe[sub.link].state = "active" <=> sub.status = "active"
         /\ sub.ends = stripe[sub.link].ends
         /\ sub.status = "past_due" => sub.grace # "none"
    /\ \A i \in EventId :
         (\E k \in 1..Len(log) : log[k].kind = "voided" /\ log[k].inv = i) /\ invoice[i] # "none"
           => invoice[i] = "void"

\* services/billing.py:567, the reservation is "not committed until
\* _apply_webhook_event finishes without error".
RecordedWithEffect == \A i \in recorded : handled[i] = 1
=============================================================================
