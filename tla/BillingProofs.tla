--------------------------- MODULE BillingProofs ---------------------------
(***************************************************************************)
(* Proofs about Billing, for every number of requests, subscriptions,      *)
(* events and failures.                                                    *)
(***************************************************************************)
EXTENDS Billing, SequenceTheorems, TLAPS

\* Who holds which event: an event is in one request at most.
Holding ==
  /\ \A h \in Handlers :
       /\ op[h] = "webhook" <=> ev[h] # 0
       /\ ev[h] <= Len(log)
       /\ op[h] = "webhook" /\ pc[h] = "expiring" => log[ev[h]].kind = "completed"
       /\ pc[h] # "idle" <=> op[h] # "none"
       /\ pc[h] = "called" => op[h] # "webhook"
  /\ \A g, h \in Handlers : ev[g] = ev[h] /\ ev[g] # 0 => g = h

\* What the ledger says of each event.
Ledger ==
  /\ recorded \subseteq 1..Len(log)
  /\ acked \subseteq recorded
  /\ \A i \in EventId : handled[i] \in {0, 1} /\ (i \notin recorded => handled[i] = 0)
  /\ \A h \in Handlers : ev[h] # 0 => handled[ev[h]] = 0
  /\ \A i \in recorded :
       \/ log[i].kind = "completed"
       \/ handled[i] = 1

Started(s) == stripe[s].state \notin {"none", "open"}

\* What a row, stored or loaded, says of its link.
LinkSound(row) ==
  /\ row.plan = "pro" => row.link # NoSub
  /\ row.link # NoSub => Started(row.link)

Links ==
  /\ LinkSound(sub)
  /\ \A h \in Handlers : LinkSound(snap[h]) /\ (snap[h].link # NoSub => sub.link # NoSub)
  /\ \A k \in 1..Len(log) : Started(log[k].sub)

\* An event about an invoice names one, a payment its own.
Numbered ==
  \A k \in 1..Len(log) :
    /\ log[k].kind \in {"paid", "voided"} => log[k].inv # 0
    /\ log[k].kind = "paid" => log[k].inv = k

\* Only its payment books an invoice, so only a voiding can have found one.
Lookups ==
  /\ \A i \in EventId : invoice[i] # "none" => handled[i] = 1
  /\ \A h \in Handlers :
       found[h] => /\ ev[h] # 0 /\ log[ev[h]].kind = "voided"
                   /\ invoice[log[ev[h]].inv] # "none"

IInv == TypeOK /\ Numbered /\ Holding /\ Ledger /\ Links /\ Lookups

USE BillingConstants

-----------------------------------------------------------------------------
(* Lemmas about the operators                                              *)

LEMMA SendProps ==
  ASSUME TypeOK, NEW n \in Seq(Event), Send(n)
  PROVE  /\ log' \in Seq(Event) /\ Len(log') <= MaxEvents
         /\ Len(log') = Len(log) + Len(n)
         /\ \A k \in 1..Len(log) : log'[k] = log[k]
         /\ \A k \in 1..Len(n) : log'[Len(log) + k] = n[k]
         /\ \A k \in 1..Len(log') :
              k \in 1..Len(log) \/ \E j \in 1..Len(n) : k = Len(log) + j
<1>1. log \in Seq(Event) /\ Len(log) + Len(n) <= MaxEvents /\ log' = log \o n
  BY DEF TypeOK, Send
<1>2. /\ Len(log') = Len(log) + Len(n)
      /\ \A k \in 1..(Len(log) + Len(n)) :
           log'[k] = IF k <= Len(log) THEN log[k] ELSE n[k - Len(log)]
      /\ log' \in Seq(Event)
  BY <1>1
<1>3. Len(log) \in Nat /\ Len(n) \in Nat
  BY <1>1
<1>4. ASSUME NEW k \in 1..Len(log'), k \notin 1..Len(log)
      PROVE  \E j \in 1..Len(n) : k = Len(log) + j
  <2>1. k - Len(log) \in 1..Len(n) /\ k = Len(log) + (k - Len(log))
    BY <1>2, <1>3, <1>4
  <2> QED BY <2>1
<1> QED BY <1>1, <1>2, <1>3, <1>4

LEMMA MergeIs ==
  ASSUME sub \in Row, NEW loaded \in Row, NEW new \in Row
  PROVE  /\ Merge(loaded, new) \in Row
         /\ Merge(loaded, new).plan = IF new.plan # loaded.plan THEN new.plan ELSE sub.plan
         /\ Merge(loaded, new).link = IF new.link # loaded.link THEN new.link ELSE sub.link
BY DEF Merge, Row

LEMMA EffectType ==
  ASSUME NEW e \in Event, NEW row \in Row
  PROVE  Effect(e, row) \in Row
BY DEF Effect, Event, Row, OnUpdated, OnDeleted

LEMMA EffectLinks ==
  ASSUME NEW e \in Event, NEW row \in Row
  PROVE  /\ Effect(e, row).link \in {row.link, e.sub}
         /\ Effect(e, row).plan = "pro" => row.plan = "pro" \/ row.link = e.sub
BY DEF Effect, Event, Row, OnUpdated, OnDeleted

LEMMA InvoiceType ==
  ASSUME TypeOK, NEW h \in Handlers, log[ev[h]] \in Event,
         log[ev[h]].inv # 0 \/ log[ev[h]].kind \notin {"paid", "voided"}
  PROVE  InvoiceEffect(h) \in [EventId -> {"none", "paid", "void"}]
BY DEF TypeOK, InvoiceEffect, Event

\* Releasing a request keeps its types.
LEMMA ReleaseType ==
  ASSUME TypeOK, NEW h \in Handlers, Release(h)
  PROVE  /\ op' \in [Handlers -> ApiOp \cup {"none", "webhook"}]
         /\ pc' \in [Handlers -> {"idle", "expiring", "loaded", "called"}]
         /\ ev' \in [Handlers -> EventId \cup {0}]
         /\ snap' \in [Handlers -> Row]
         /\ found' \in [Handlers -> BOOLEAN]
BY DEF TypeOK, Release, FreeRow, Row, ApiOp, EventId

LEMMA LoadType ==
  ASSUME TypeOK, NEW h \in Handlers, NEW what \in ApiOp \cup {"webhook"},
         NEW i \in EventId \cup {0}, NEW x \in BOOLEAN, Load(h, what, i, x)
  PROVE  /\ op' \in [Handlers -> ApiOp \cup {"none", "webhook"}]
         /\ pc' \in [Handlers -> {"idle", "expiring", "loaded", "called"}]
         /\ ev' \in [Handlers -> EventId \cup {0}]
         /\ snap' \in [Handlers -> Row]
         /\ found' \in [Handlers -> BOOLEAN]
<1>1. (i # 0 /\ Booked(i)) \in BOOLEAN
  BY DEF Booked
<1> QED BY <1>1 DEF TypeOK, Load

-----------------------------------------------------------------------------
(* The log of events                                                       *)

\* What a step makes of the log of events.
Grows ==
  /\ log' \in Seq(Event) /\ Len(log') <= MaxEvents
  /\ Len(log) <= Len(log')
  /\ \A k \in 1..Len(log) : log'[k] = log[k]
  /\ \A k \in 1..Len(log') :
       k \notin 1..Len(log) =>
         /\ log'[k].kind \in {"paid", "voided"} => log'[k].inv # 0
         /\ log'[k].kind = "paid" => log'[k].inv = k
         /\ stripe'[log'[k].sub].state \notin {"none", "open"}

LEMMA Sent ==
  ASSUME TypeOK, NEW n \in Seq(Event), Send(n),
         \A j \in 1..Len(n) : /\ n[j].kind \in {"paid", "voided"} => n[j].inv # 0
                              /\ n[j].kind = "paid" => n[j].inv = Len(log) + j
                              /\ stripe'[n[j].sub].state \notin {"none", "open"}
  PROVE  Grows
<1>1. /\ log' \in Seq(Event) /\ Len(log') <= MaxEvents
      /\ \A k \in 1..Len(log) : log'[k] = log[k]
  BY SendProps
<1>2. Len(log) <= Len(log')
  <2>1. Len(log) \in Nat /\ Len(n) \in Nat
    BY DEF TypeOK
  <2>2. Len(log') = Len(log) + Len(n)
    BY SendProps
  <2> QED BY <2>1, <2>2
<1>3. ASSUME NEW k \in 1..Len(log'), k \notin 1..Len(log)
      PROVE  /\ log'[k].kind \in {"paid", "voided"} => log'[k].inv # 0
             /\ log'[k].kind = "paid" => log'[k].inv = k
             /\ stripe'[log'[k].sub].state \notin {"none", "open"}
  <2>1. PICK j \in 1..Len(n) : k = Len(log) + j
    BY <1>3, SendProps
  <2>2. log'[k] = n[j]
    BY <2>1, SendProps
  <2> QED BY <2>1, <2>2
<1> QED BY <1>1, <1>2, <1>3 DEF Grows

LEMMA OneSent ==
  ASSUME TypeOK, NEW e \in Event, Send(<<e>>),
         e.kind \in {"paid", "voided"} => e.inv # 0,
         e.kind = "paid" => e.inv = Len(log) + 1,
         stripe'[e.sub].state \notin {"none", "open"}
  PROVE  Grows
<1> DEFINE n == <<e>>
<1>1. n \in Seq(Event) /\ Len(n) = 1 /\ n[1] = e /\ Send(n)
  OBVIOUS
<1>2. \A j \in 1..Len(n) : j = 1
  BY <1>1
<1> HIDE DEF n
<1> QED BY <1>1, <1>2, Sent

LEMMA TwoSent ==
  ASSUME TypeOK, NEW e \in Event, NEW f \in Event, Send(<<e, f>>),
         e.kind \notin {"paid", "voided"}, f.kind \notin {"paid", "voided"},
         stripe'[e.sub].state \notin {"none", "open"},
         stripe'[f.sub].state \notin {"none", "open"}
  PROVE  Grows
<1> DEFINE n == <<e, f>>
<1>1. n \in Seq(Event) /\ Len(n) = 2 /\ n[1] = e /\ n[2] = f /\ Send(n)
  OBVIOUS
<1>2. \A j \in 1..Len(n) : j = 1 \/ j = 2
  BY <1>1
<1> HIDE DEF n
<1> QED BY <1>1, <1>2, Sent

LEMMA LogKept == ASSUME TypeOK, log' = log PROVE Grows
BY DEF TypeOK, Grows

\* Every step keeps the log and may add well-formed events to it.
LEMMA LogGrows ==
  ASSUME TypeOK, Links, [Next]_vars
  PROVE  Grows
<1>1. ASSUME NEW s \in Subs, StripeCompletes(s) PROVE Grows
  <2> DEFINE e == Note("completed", s, "active", FALSE, 0)
             f == Note("updated", s, "active", FALSE, 0)
  <2>1. e \in Event /\ f \in Event /\ Send(<<e, f>>)
    BY <1>1 DEF StripeCompletes, Note, Event
  <2>2. stripe' \in [Subs -> Stripe] /\ stripe'[s].state = "active"
    BY <1>1 DEF StripeCompletes, TypeOK, Stripe
  <2>3. e.kind = "completed" /\ e.sub = s /\ f.kind = "updated" /\ f.sub = s
    BY DEF Note
  <2> HIDE DEF e, f
  <2> QED BY <2>1, <2>2, <2>3, TwoSent
<1>2. ASSUME NEW s \in Subs, StripeFails(s) PROVE Grows
  <2> DEFINE e == Note("failed", s, "past_due", stripe[s].ends, 0)
  <2>1. e \in Event /\ Send(<<e>>)
    BY <1>2 DEF StripeFails, Note, Event, TypeOK, Stripe, EventId, Alive, Send
  <2>2. stripe' \in [Subs -> Stripe] /\ stripe'[s].state \notin {"none", "open"}
    BY <1>2 DEF StripeFails, TypeOK, Stripe, Alive
  <2>3. /\ e.sub = s /\ (e.kind \in {"paid", "voided"} => e.inv # 0)
        /\ e.kind = "paid" => e.inv = Len(log) + 1
    BY DEF Note, TypeOK
  <2> HIDE DEF e
  <2> QED BY <2>1, <2>2, <2>3, OneSent
<1>3. ASSUME NEW s \in Subs, StripePays(s) PROVE Grows
  <2> DEFINE e == Note("paid", s, "active", stripe[s].ends, Len(log) + 1)
  <2>1. e \in Event /\ Send(<<e>>)
    BY <1>3 DEF StripePays, Note, Event, TypeOK, Stripe, EventId, Alive, Send
  <2>2. stripe' \in [Subs -> Stripe] /\ stripe'[s].state \notin {"none", "open"}
    BY <1>3 DEF StripePays, TypeOK, Stripe, Alive
  <2>3. /\ e.sub = s /\ (e.kind \in {"paid", "voided"} => e.inv # 0)
        /\ e.kind = "paid" => e.inv = Len(log) + 1
    BY DEF Note, TypeOK
  <2> HIDE DEF e
  <2> QED BY <2>1, <2>2, <2>3, OneSent
<1>4. ASSUME NEW s \in Subs, StripeReports(s) PROVE Grows
  <2> DEFINE e == Note("updated", s, stripe[s].state, stripe[s].ends, 0)
  <2>1. e \in Event /\ Send(<<e>>)
    BY <1>4 DEF StripeReports, Note, Event, TypeOK, Stripe, EventId, Alive, Send
  <2>2. stripe' \in [Subs -> Stripe] /\ stripe'[s].state \notin {"none", "open"}
    BY <1>4 DEF StripeReports, TypeOK, Stripe, Alive
  <2>3. /\ e.sub = s /\ (e.kind \in {"paid", "voided"} => e.inv # 0)
        /\ e.kind = "paid" => e.inv = Len(log) + 1
    BY DEF Note, TypeOK
  <2> HIDE DEF e
  <2> QED BY <2>1, <2>2, <2>3, OneSent
<1>5. ASSUME NEW s \in Subs, StripeEnds(s) PROVE Grows
  <2> DEFINE e == Note("deleted", s, "canceled", FALSE, 0)
  <2>1. e \in Event /\ Send(<<e>>)
    BY <1>5 DEF StripeEnds, Note, Event, TypeOK, Stripe, EventId, Alive, Send
  <2>2. stripe' \in [Subs -> Stripe] /\ stripe'[s].state \notin {"none", "open"}
    BY <1>5 DEF StripeEnds, TypeOK, Stripe, Alive
  <2>3. /\ e.sub = s /\ (e.kind \in {"paid", "voided"} => e.inv # 0)
        /\ e.kind = "paid" => e.inv = Len(log) + 1
    BY DEF Note, TypeOK
  <2> HIDE DEF e
  <2> QED BY <2>1, <2>2, <2>3, OneSent
<1>6. ASSUME NEW i \in EventId, StripeVoids(i) PROVE Grows
  <2> DEFINE e == Note("voided", log[i].sub, "active", FALSE, i)
  <2>1. i \in 1..Len(log) /\ i # 0 /\ log[i] \in Event /\ Started(log[i].sub)
    BY <1>6 DEF StripeVoids, TypeOK, EventId, Links
  <2>2. e \in Event /\ Send(<<e>>)
    BY <1>6, <2>1 DEF StripeVoids, Note, Event
  <2>3. e.sub = log[i].sub /\ e.inv = i /\ e.kind = "voided" /\ stripe' = stripe
    BY <1>6 DEF StripeVoids, Note
  <2> HIDE DEF e
  <2> QED BY <2>1, <2>2, <2>3, OneSent DEF Started
<1>7. ASSUME NEW i \in EventId, DeliverAgain(i) PROVE Grows
  BY <1>7, LogKept DEF DeliverAgain, stripeVars
<1>8. ASSUME NEW h \in Handlers, NEW i \in EventId, Deliver(h, i) PROVE Grows
  BY <1>8, LogKept DEF Deliver, stripeVars
<1>9. ASSUME NEW h \in Handlers, NEW what \in ApiOp, Begin(h, what) PROVE Grows
  BY <1>9, LogKept DEF Begin, stripeVars
<1>10. ASSUME NEW h \in Handlers, NEW s \in Subs, StartCheckout(h, s) PROVE Grows
  BY <1>10, LogKept DEF StartCheckout, stripeVars
<1>11. ASSUME NEW h \in Handlers, Expire(h) PROVE Grows
  BY <1>11, LogKept DEF Expire, stripeVars
<1>12. ASSUME NEW h \in Handlers, Commit(h) PROVE Grows
  BY <1>12, LogKept DEF Commit, stripeVars
<1>13. ASSUME NEW h \in Handlers, Return(h) PROVE Grows
  BY <1>13, LogKept DEF Return, stripeVars
<1>14. ASSUME NEW h \in Handlers, CallStripe(h) PROVE Grows
  <2> DEFINE b == (op[h] = "cancel")
             s == snap[h].link
             e == Note("updated", s, stripe[s].state, b, 0)
  <2>1. s \in Subs /\ b \in BOOLEAN
    BY <1>14 DEF CallStripe, TypeOK, Row
  <2>2. CASE Alive(s)
    <3>1. Send(<<e>>) /\ stripe' = [stripe EXCEPT ![s].ends = b]
      BY <1>14, <2>2 DEF CallStripe
    <3> HIDE DEF b, s
    <3>2. e \in Event
      BY <2>1, <2>2 DEF Note, Event, Alive
    <3>3. stripe'[s].state = stripe[s].state
      BY <2>1, <3>1 DEF TypeOK, Stripe
    <3>4. e.sub = s /\ e.kind = "updated"
      BY DEF Note
    <3> HIDE DEF e
    <3> QED BY <2>2, <3>1, <3>2, <3>3, <3>4, OneSent DEF Alive
  <2>3. CASE ~Alive(s)
    BY <1>14, <2>3, LogKept DEF CallStripe, stripeVars
  <2> QED BY <2>2, <2>3
<1>15. ASSUME NEW h \in Handlers, SetEnds(h) PROVE Grows
  BY <1>15, LogKept DEF SetEnds, stripeVars
<1>16. ASSUME NEW h \in Handlers, Fail(h) PROVE Grows
  BY <1>16, LogKept DEF Fail, stripeVars
<1>17. ASSUME GraceElapses PROVE Grows
  BY <1>17, LogKept DEF GraceElapses, stripeVars
<1>18. CASE UNCHANGED vars
  BY <1>18, LogKept DEF vars, stripeVars
<1> QED
  BY <1>1, <1>2, <1>3, <1>4, <1>5, <1>6, <1>7, <1>8, <1>9,
     <1>10, <1>11, <1>12, <1>13, <1>14, <1>15, <1>16, <1>17, <1>18 DEF Next

LEMMA NumberedStep ==
  ASSUME TypeOK, Numbered, Grows
  PROVE  Numbered'
BY DEF Numbered, Grows

-----------------------------------------------------------------------------
(* The steps of the inductive invariant, one part at a time                *)

\* Every step keeps the columns' types.
LEMMA TypeStep ==
  ASSUME TypeOK, Numbered, Holding, Links, [Next]_vars
  PROVE  TypeOK'
<1>1. ASSUME NEW s \in Subs, StripeCompletes(s) PROVE TypeOK'
  <2>1. stripe' \in [Subs -> Stripe]
    BY <1>1 DEF StripeCompletes, TypeOK, Stripe, Alive
  <2> QED BY <1>1, <2>1, LogGrows DEF StripeCompletes, TypeOK, reqVars, Grows
<1>2. ASSUME NEW s \in Subs, StripeFails(s) PROVE TypeOK'
  <2>1. stripe' \in [Subs -> Stripe]
    BY <1>2 DEF StripeFails, TypeOK, Stripe, Alive
  <2> QED BY <1>2, <2>1, LogGrows DEF StripeFails, TypeOK, reqVars, Grows
<1>3. ASSUME NEW s \in Subs, StripePays(s) PROVE TypeOK'
  <2>1. stripe' \in [Subs -> Stripe]
    BY <1>3 DEF StripePays, TypeOK, Stripe, Alive
  <2> QED BY <1>3, <2>1, LogGrows DEF StripePays, TypeOK, reqVars, Grows
<1>4. ASSUME NEW s \in Subs, StripeReports(s) PROVE TypeOK'
  <2>1. stripe' \in [Subs -> Stripe]
    BY <1>4 DEF StripeReports, TypeOK, Stripe, Alive
  <2> QED BY <1>4, <2>1, LogGrows DEF StripeReports, TypeOK, reqVars, Grows
<1>5. ASSUME NEW s \in Subs, StripeEnds(s) PROVE TypeOK'
  <2>1. stripe' \in [Subs -> Stripe]
    BY <1>5 DEF StripeEnds, TypeOK, Stripe, Alive
  <2> QED BY <1>5, <2>1, LogGrows DEF StripeEnds, TypeOK, reqVars, Grows
<1>6. ASSUME NEW i \in EventId, StripeVoids(i) PROVE TypeOK'
  BY <1>6, LogGrows DEF StripeVoids, TypeOK, reqVars, Grows
<1>7. ASSUME NEW i \in EventId, DeliverAgain(i) PROVE TypeOK'
  BY <1>7 DEF DeliverAgain, TypeOK, reqVars, stripeVars
<1>8. ASSUME NEW h \in Handlers, NEW i \in EventId, Deliver(h, i) PROVE TypeOK'
  BY <1>8, LoadType DEF Deliver, TypeOK, reqVars, stripeVars
<1>9. ASSUME NEW h \in Handlers, NEW what \in ApiOp, Begin(h, what) PROVE TypeOK'
  BY <1>9, LoadType DEF Begin, TypeOK, reqVars, stripeVars
<1>10. ASSUME NEW h \in Handlers, NEW s \in Subs, StartCheckout(h, s) PROVE TypeOK'
  <2>1. stripe' \in [Subs -> Stripe]
    BY <1>10 DEF StartCheckout, TypeOK, Stripe
  <2> QED BY <1>10, <2>1, ReleaseType DEF StartCheckout, TypeOK
<1>11. ASSUME NEW h \in Handlers, Expire(h) PROVE TypeOK'
  <2> DEFINE new == [snap[h] EXCEPT !.status = "suspended"]
  <2>1. sub \in Row /\ snap[h] \in Row /\ new \in Row
    BY DEF TypeOK, Row
  <2>2. sub' \in Row
    BY <1>11, <2>1, MergeIs DEF Expire
  <2>3. recorded' \in SUBSET EventId
    BY <1>11 DEF Expire, TypeOK, Holding
  <2>4. snap' \in [Handlers -> Row]
    BY <1>11, <2>1 DEF Expire, TypeOK, Row
  <2> QED BY <1>11, <2>2, <2>3, <2>4 DEF Expire, TypeOK, stripeVars
<1>12. ASSUME NEW h \in Handlers, Commit(h) PROVE TypeOK'
  <2> DEFINE e == log[ev[h]]
  <2>1. ev[h] \in 1..Len(log) /\ ev[h] \in EventId /\ e \in Event
    BY <1>12 DEF Commit, TypeOK, Holding, EventId
  <2>2. sub \in Row /\ snap[h] \in Row /\ Effect(e, snap[h]) \in Row
    BY <2>1, EffectType DEF TypeOK
  <2> DEFINE row == Merge(snap[h], Effect(e, snap[h]))
  <2>3. row \in Row
    BY <2>2, MergeIs
  <2>4. sub' \in {sub, row, [row EXCEPT !.grace = "running"]}
    BY <1>12 DEF Commit, Apply
  <2>5. sub' \in Row
    <3> HIDE DEF row
    <3> QED BY <2>2, <2>3, <2>4 DEF Row
  <2>6. invoice' \in [EventId -> {"none", "paid", "void"}]
    BY <1>12, <2>1, InvoiceType DEF Commit, Numbered
  <2>7. handled' \in [EventId -> Nat] /\ recorded' \in SUBSET EventId /\ acked' \in SUBSET EventId
    BY <1>12, <2>1 DEF Commit, TypeOK
  <2> QED BY <1>12, <2>5, <2>6, <2>7, ReleaseType DEF Commit, TypeOK, stripeVars
<1>13. ASSUME NEW h \in Handlers, Return(h) PROVE TypeOK'
  BY <1>13, ReleaseType DEF Return, TypeOK, reqVars, stripeVars
<1>14. ASSUME NEW h \in Handlers, CallStripe(h) PROVE TypeOK'
  <2> DEFINE b == (op[h] = "cancel")
             s == snap[h].link
  <2>1. s \in Subs /\ b \in BOOLEAN
    BY <1>14 DEF CallStripe, TypeOK, Row
  <2>2. CASE Alive(s)
    <3>1. stripe' = [stripe EXCEPT ![s].ends = b]
      BY <1>14, <2>2 DEF CallStripe
    <3>2. pc' \in [Handlers -> {"idle", "expiring", "loaded", "called"}] /\ UNCHANGED <<op, ev, snap, found>>
      BY <1>14, <2>2 DEF CallStripe, TypeOK
    <3> HIDE DEF b, s
    <3>3. stripe' \in [Subs -> Stripe]
      BY <2>1, <3>1 DEF TypeOK, Stripe
    <3> QED BY <1>14, <3>2, <3>3, LogGrows DEF CallStripe, TypeOK, Grows
  <2>3. CASE ~Alive(s)
    BY <1>14, <2>3, ReleaseType DEF CallStripe, TypeOK, stripeVars
  <2> QED BY <2>2, <2>3
<1>15. ASSUME NEW h \in Handlers, SetEnds(h) PROVE TypeOK'
  <2>1. sub \in Row /\ snap[h] \in Row /\ [snap[h] EXCEPT !.ends = (op[h] = "cancel")] \in Row
    BY DEF TypeOK, Row
  <2>2. sub' \in Row
    BY <1>15, <2>1, MergeIs DEF SetEnds
  <2> QED BY <1>15, <2>2, ReleaseType DEF SetEnds, TypeOK, stripeVars
<1>16. ASSUME NEW h \in Handlers, Fail(h) PROVE TypeOK'
  BY <1>16, ReleaseType DEF Fail, TypeOK, reqVars, stripeVars
<1>17. ASSUME GraceElapses PROVE TypeOK'
  BY <1>17 DEF GraceElapses, Row, TypeOK, reqVars, stripeVars
<1>18. CASE UNCHANGED vars
  BY <1>18 DEF vars, reqVars, stripeVars, TypeOK
<1> QED
  BY <1>1, <1>2, <1>3, <1>4, <1>5, <1>6, <1>7, <1>8, <1>9,
     <1>10, <1>11, <1>12, <1>13, <1>14, <1>15, <1>16, <1>17, <1>18 DEF Next

\* The log grows, requests and their events stay.
LEMMA HoldingKept ==
  ASSUME TypeOK, Holding, Grows, UNCHANGED <<op, pc, ev>>
  PROVE  Holding'
<1>1. \A h \in Handlers : ev[h] # 0 => ev[h] \in 1..Len(log)
  BY DEF TypeOK, Holding, EventId
<1>2. Len(log) \in Nat /\ Len(log') \in Nat /\ Len(log) <= Len(log') /\ \A h \in Handlers : ev[h] \in Nat
  BY DEF TypeOK, Grows, EventId
<1>3. \A h \in Handlers : ev[h] <= Len(log')
  BY <1>2 DEF Holding
<1> QED BY <1>1, <1>3 DEF Holding, Grows

\* A request ends.
LEMMA HoldingReleased ==
  ASSUME TypeOK, Holding, Grows, NEW h \in Handlers, Release(h)
  PROVE  Holding'
<1>1. \A g \in Handlers : ev[g] # 0 => ev[g] \in 1..Len(log)
  BY DEF TypeOK, Holding, EventId
<1>2. Len(log) \in Nat /\ Len(log') \in Nat /\ Len(log) <= Len(log') /\ \A g \in Handlers : ev[g] \in Nat
  BY DEF TypeOK, Grows, EventId
<1>3. \A g \in Handlers : /\ op'[g] = IF g = h THEN "none" ELSE op[g]
                          /\ pc'[g] = IF g = h THEN "idle" ELSE pc[g]
                          /\ ev'[g] = IF g = h THEN 0 ELSE ev[g]
  BY DEF Release, TypeOK
<1>4. \A g \in Handlers : ev'[g] <= Len(log')
  BY <1>2, <1>3 DEF Holding
<1> QED BY <1>1, <1>3, <1>4 DEF Holding, Grows

LEMMA LedgerKept ==
  ASSUME TypeOK, Ledger, Grows, UNCHANGED <<recorded, acked, handled, ev>>
  PROVE  Ledger'
<1>1. Len(log) \in Nat /\ Len(log') \in Nat /\ Len(log) <= Len(log')
  BY DEF TypeOK, Grows
<1>2. recorded' \subseteq 1..Len(log')
  BY <1>1 DEF Ledger
<1> QED BY <1>2 DEF Ledger, Grows

LEMMA LedgerReleased ==
  ASSUME TypeOK, Ledger, Grows, NEW h \in Handlers, Release(h), UNCHANGED <<recorded, acked, handled>>
  PROVE  Ledger'
<1>1. Len(log) \in Nat /\ Len(log') \in Nat /\ Len(log) <= Len(log')
  BY DEF TypeOK, Grows
<1>2. recorded' \subseteq 1..Len(log')
  BY <1>1 DEF Ledger
<1>3. \A g \in Handlers : ev'[g] = IF g = h THEN 0 ELSE ev[g]
  BY DEF Release, TypeOK
<1> QED BY <1>2, <1>3 DEF Ledger, Grows

\* An event stays in one request.
LEMMA HoldingStep ==
  ASSUME TypeOK, Holding, Ledger, Grows, [Next]_vars
  PROVE  Holding'
<1>1. ASSUME NEW s \in Subs, StripeCompletes(s) PROVE Holding'
  BY <1>1, HoldingKept DEF StripeCompletes, reqVars
<1>2. ASSUME NEW s \in Subs, StripeFails(s) PROVE Holding'
  BY <1>2, HoldingKept DEF StripeFails, reqVars
<1>3. ASSUME NEW s \in Subs, StripePays(s) PROVE Holding'
  BY <1>3, HoldingKept DEF StripePays, reqVars
<1>4. ASSUME NEW s \in Subs, StripeReports(s) PROVE Holding'
  BY <1>4, HoldingKept DEF StripeReports, reqVars
<1>5. ASSUME NEW s \in Subs, StripeEnds(s) PROVE Holding'
  BY <1>5, HoldingKept DEF StripeEnds, reqVars
<1>6. ASSUME NEW i \in EventId, StripeVoids(i) PROVE Holding'
  BY <1>6, HoldingKept DEF StripeVoids, reqVars
<1>7. ASSUME NEW i \in EventId, DeliverAgain(i) PROVE Holding'
  BY <1>7, HoldingKept DEF DeliverAgain, reqVars
<1>8. ASSUME NEW h \in Handlers, NEW i \in EventId, Deliver(h, i) PROVE Holding'
  <2>1. \A g \in Handlers : /\ op'[g] = IF g = h THEN "webhook" ELSE op[g]
                            /\ ev'[g] = IF g = h THEN i ELSE ev[g]
                            /\ g # h => pc'[g] = pc[g]
    BY <1>8 DEF Deliver, Load, TypeOK
  <2>2. pc'[h] \in {"expiring", "loaded"} /\ log' = log
    BY <1>8 DEF Deliver, Load, TypeOK, stripeVars
  <2>3. i # 0 /\ i <= Len(log) /\ (pc'[h] = "expiring" => log[i].kind = "completed") /\ \A g \in Handlers : ev[g] # i
    BY <1>8 DEF Deliver, Load, TypeOK, EventId
  <2> QED BY <2>1, <2>2, <2>3 DEF Holding
<1>9. ASSUME NEW h \in Handlers, NEW what \in ApiOp, Begin(h, what) PROVE Holding'
  <2>1. \A g \in Handlers : /\ op'[g] = IF g = h THEN what ELSE op[g]
                            /\ ev'[g] = IF g = h THEN 0 ELSE ev[g]
                            /\ g # h => pc'[g] = pc[g]
    BY <1>9 DEF Begin, Load, TypeOK
  <2>2. pc'[h] \in {"expiring", "loaded"} /\ log' = log
    BY <1>9 DEF Begin, Load, TypeOK, stripeVars
  <2>3. 0 <= Len(log) /\ what \notin {"webhook", "none"}
    BY DEF TypeOK, ApiOp
  <2> QED BY <2>1, <2>2, <2>3 DEF Holding
<1>10. ASSUME NEW h \in Handlers, NEW s \in Subs, StartCheckout(h, s) PROVE Holding'
  BY <1>10, HoldingReleased DEF StartCheckout
<1>11. ASSUME NEW h \in Handlers, Expire(h) PROVE Holding'
  BY <1>11 DEF Expire, Holding, TypeOK, stripeVars
<1>12. ASSUME NEW h \in Handlers, Commit(h) PROVE Holding'
  BY <1>12, HoldingReleased DEF Commit
<1>13. ASSUME NEW h \in Handlers, Return(h) PROVE Holding'
  BY <1>13, HoldingReleased DEF Return
<1>14. ASSUME NEW h \in Handlers, CallStripe(h) PROVE Holding'
  <2>1. CASE UNCHANGED <<op, ev, snap>> /\ pc' = [pc EXCEPT ![h] = "called"]
    <3>1. op[h] # "webhook" /\ op[h] # "none" /\ pc'[h] = "called" /\ \A g \in Handlers : g # h => pc'[g] = pc[g]
      BY <1>14, <2>1 DEF CallStripe, TypeOK
    <3>2. \A g \in Handlers : ev[g] # 0 => ev[g] \in 1..Len(log)
      BY DEF TypeOK, Holding, EventId
    <3>3. Len(log) \in Nat /\ Len(log') \in Nat /\ Len(log) <= Len(log') /\ \A g \in Handlers : ev[g] \in Nat
      BY DEF TypeOK, Grows, EventId
    <3>4. \A g \in Handlers : ev[g] <= Len(log')
      BY <3>3 DEF Holding
    <3> QED BY <2>1, <3>1, <3>2, <3>4 DEF Holding, Grows
  <2>2. CASE Release(h)
    BY <2>2, HoldingReleased
  <2> QED BY <1>14, <2>1, <2>2 DEF CallStripe
<1>15. ASSUME NEW h \in Handlers, SetEnds(h) PROVE Holding'
  BY <1>15, HoldingReleased DEF SetEnds
<1>16. ASSUME NEW h \in Handlers, Fail(h) PROVE Holding'
  BY <1>16, HoldingReleased DEF Fail
<1>17. ASSUME GraceElapses PROVE Holding'
  BY <1>17, HoldingKept DEF GraceElapses, reqVars
<1>18. CASE UNCHANGED vars
  BY <1>18 DEF vars, reqVars, stripeVars, Holding
<1> QED
  BY <1>1, <1>2, <1>3, <1>4, <1>5, <1>6, <1>7, <1>8, <1>9,
     <1>10, <1>11, <1>12, <1>13, <1>14, <1>15, <1>16, <1>17, <1>18 DEF Next

\* The ledger stays in step with the effects.
LEMMA LedgerStep ==
  ASSUME TypeOK, Holding, Ledger, Grows, [Next]_vars
  PROVE  Ledger'
<1>1. ASSUME NEW s \in Subs, StripeCompletes(s) PROVE Ledger'
  BY <1>1, LedgerKept DEF StripeCompletes, reqVars
<1>2. ASSUME NEW s \in Subs, StripeFails(s) PROVE Ledger'
  BY <1>2, LedgerKept DEF StripeFails, reqVars
<1>3. ASSUME NEW s \in Subs, StripePays(s) PROVE Ledger'
  BY <1>3, LedgerKept DEF StripePays, reqVars
<1>4. ASSUME NEW s \in Subs, StripeReports(s) PROVE Ledger'
  BY <1>4, LedgerKept DEF StripeReports, reqVars
<1>5. ASSUME NEW s \in Subs, StripeEnds(s) PROVE Ledger'
  BY <1>5, LedgerKept DEF StripeEnds, reqVars
<1>6. ASSUME NEW i \in EventId, StripeVoids(i) PROVE Ledger'
  BY <1>6, LedgerKept DEF StripeVoids, reqVars
<1>7. ASSUME NEW i \in EventId, DeliverAgain(i) PROVE Ledger'
  BY <1>7 DEF DeliverAgain, reqVars, stripeVars, Ledger, TypeOK
<1>8. ASSUME NEW h \in Handlers, NEW i \in EventId, Deliver(h, i) PROVE Ledger'
  BY <1>8 DEF Deliver, Load, Ledger, stripeVars, TypeOK, EventId
<1>9. ASSUME NEW h \in Handlers, NEW what \in ApiOp, Begin(h, what) PROVE Ledger'
  BY <1>9 DEF Begin, Load, Ledger, stripeVars, TypeOK, EventId
<1>10. ASSUME NEW h \in Handlers, NEW s \in Subs, StartCheckout(h, s) PROVE Ledger'
  BY <1>10, LedgerReleased DEF StartCheckout
<1>11. ASSUME NEW h \in Handlers, Expire(h) PROVE Ledger'
  BY <1>11 DEF Expire, Ledger, Holding, stripeVars, TypeOK, EventId
<1>12. ASSUME NEW h \in Handlers, Commit(h) PROVE Ledger'
  <2>1. ev[h] \in 1..Len(log) /\ ev[h] \in EventId
    BY <1>12 DEF Commit, TypeOK, Holding, EventId
  <2>2. \A i \in EventId : handled'[i] = IF i = ev[h] THEN handled[i] + 1 ELSE handled[i]
    BY <1>12, <2>1 DEF Commit, TypeOK
  <2>3. \A g \in Handlers : ev'[g] = IF g = h THEN 0 ELSE ev[g]
    BY <1>12 DEF Commit, Release, TypeOK
  <2>4. \A g \in Handlers : ev'[g] # 0 => ev'[g] # ev[h] /\ ev'[g] \in EventId
    BY <2>3 DEF Holding, TypeOK
  <2>5. handled[ev[h]] = 0
    BY <2>1 DEF Ledger, EventId
  <2>6. UNCHANGED log /\ recorded' = recorded \cup {ev[h]} /\ acked' = acked \cup {ev[h]}
    BY <1>12 DEF Commit, stripeVars
  <2>7. recorded' \subseteq EventId
    BY <2>1, <2>6 DEF TypeOK
  <2>8. recorded' \subseteq 1..Len(log') /\ acked' \subseteq recorded'
    BY <2>1, <2>6 DEF Ledger
  <2>9. \A i \in EventId : handled'[i] \in {0, 1} /\ (i \notin recorded' => handled'[i] = 0)
    BY <2>2, <2>5, <2>6 DEF Ledger
  <2>10. \A g \in Handlers : ev'[g] # 0 => handled'[ev'[g]] = 0
    BY <2>2, <2>3, <2>4 DEF Ledger
  <2>11. \A i \in recorded' : log'[i].kind = "completed" \/ handled'[i] = 1
    BY <2>1, <2>2, <2>5, <2>6, <2>7 DEF Ledger
  <2> QED BY <2>8, <2>9, <2>10, <2>11 DEF Ledger
<1>13. ASSUME NEW h \in Handlers, Return(h) PROVE Ledger'
  BY <1>13, LedgerReleased DEF Return
<1>14. ASSUME NEW h \in Handlers, CallStripe(h) PROVE Ledger'
  <2>1. CASE ev' = ev
    BY <1>14, <2>1, LedgerKept DEF CallStripe
  <2>2. CASE Release(h)
    BY <1>14, <2>2, LedgerReleased DEF CallStripe
  <2> QED BY <1>14, <2>1, <2>2 DEF CallStripe
<1>15. ASSUME NEW h \in Handlers, SetEnds(h) PROVE Ledger'
  BY <1>15, LedgerReleased DEF SetEnds
<1>16. ASSUME NEW h \in Handlers, Fail(h) PROVE Ledger'
  BY <1>16, LedgerReleased DEF Fail
<1>17. ASSUME GraceElapses PROVE Ledger'
  BY <1>17, LedgerKept DEF GraceElapses, reqVars
<1>18. CASE UNCHANGED vars
  BY <1>18 DEF vars, reqVars, stripeVars, Ledger
<1> QED
  BY <1>1, <1>2, <1>3, <1>4, <1>5, <1>6, <1>7, <1>8, <1>9,
     <1>10, <1>11, <1>12, <1>13, <1>14, <1>15, <1>16, <1>17, <1>18 DEF Next

LEMMA LookupsKept ==
  ASSUME TypeOK, Holding, Lookups, Grows, UNCHANGED <<invoice, handled>>,
         \A g \in Handlers : found'[g] => found[g] /\ ev'[g] = ev[g]
  PROVE  Lookups'
<1>1. \A g \in Handlers : ev[g] # 0 => log'[ev[g]] = log[ev[g]]
  BY DEF TypeOK, Holding, EventId, Grows
<1> QED BY <1>1 DEF Lookups

\* A webhook's lookup finds an invoice only to void it.
LEMMA LookupsStep ==
  ASSUME TypeOK, Numbered, Holding, Ledger, Lookups, Grows, [Next]_vars
  PROVE  Lookups'
<1> USE DEF reqVars, stripeVars
<1>1. ASSUME NEW h \in Handlers, Release(h), UNCHANGED <<invoice, handled>> PROVE Lookups'
  BY <1>1, LookupsKept DEF Release, TypeOK
<1>2. ASSUME UNCHANGED <<ev, found, invoice, handled>> PROVE Lookups'
  BY <1>2, LookupsKept
<1>3. ASSUME NEW h \in Handlers, NEW i \in EventId, Deliver(h, i) PROVE Lookups'
  <2>1. /\ \A g \in Handlers : ev'[g] = IF g = h THEN i ELSE ev[g]
        /\ \A g \in Handlers : g # h => found'[g] = found[g]
        /\ found'[h] = (i # 0 /\ Booked(i))
        /\ i \in 1..Len(log) /\ i # 0 /\ i \notin recorded
        /\ UNCHANGED <<invoice, handled, log>>
    BY <1>3 DEF Deliver, Load, TypeOK, EventId
  <2>2. found'[h] => log[i].kind = "voided" /\ invoice[log[i].inv] # "none"
    <3> SUFFICES ASSUME Booked(i), log[i].kind = "paid" PROVE FALSE
      BY <2>1 DEF Booked
    <3>1. log[i].inv = i /\ invoice[i] # "none"
      BY <2>1 DEF Numbered, Booked
    <3> QED BY <2>1, <3>1 DEF Lookups, Ledger
  <2> QED BY <2>1, <2>2 DEF Lookups
<1>4. ASSUME NEW h \in Handlers, NEW what \in ApiOp, Begin(h, what) PROVE Lookups'
  BY <1>4, LookupsKept DEF Begin, Load, TypeOK
<1>5. ASSUME NEW h \in Handlers, Commit(h) PROVE Lookups'
  <2> DEFINE m == ev[h]
             e == log[m]
  <2>1. m \in 1..Len(log) /\ m \in EventId /\ e \in Event /\ handled[m] = 0
    BY <1>5 DEF Commit, TypeOK, Holding, Ledger, EventId
  <2>2. \A i \in EventId : handled'[i] = IF i = m THEN 1 ELSE handled[i]
    BY <1>5, <2>1 DEF Commit, TypeOK
  <2>3. ASSUME NEW i \in EventId, invoice'[i] # "none" PROVE handled'[i] = 1
    <3>1. CASE invoice' = [invoice EXCEPT ![e.inv] = "paid"] /\ e.kind = "paid"
      <4>1. e.inv = m
        BY <2>1, <3>1 DEF Numbered
      <4> QED BY <2>2, <2>3, <3>1, <4>1 DEF Lookups, TypeOK
    <3>2. CASE invoice' = [invoice EXCEPT ![e.inv] = "void"] /\ invoice[e.inv] # "none"
      BY <2>2, <2>3, <3>2 DEF Lookups, TypeOK
    <3>3. CASE invoice' = invoice
      BY <2>2, <2>3, <3>3 DEF Lookups
    <3>4. invoice' = InvoiceEffect(h)
      BY <1>5 DEF Commit
    <3>5. CASE e.kind = "voided" /\ found[h]
      <4>1. invoice' = [invoice EXCEPT ![e.inv] = "void"] /\ invoice[e.inv] # "none"
        BY <3>4, <3>5 DEF InvoiceEffect, Lookups
      <4> QED BY <3>2, <4>1
    <3> QED BY <3>1, <3>3, <3>4, <3>5 DEF InvoiceEffect
  <2>4. \A g \in Handlers : found'[g] => found[g] /\ ev'[g] = ev[g]
    BY <1>5 DEF Commit, Release, TypeOK
  <2>5. log' = log
    BY <1>5 DEF Commit
  <2>6. \A i \in EventId : invoice[i] # "none" => invoice'[i] # "none"
    BY <1>5 DEF Commit, InvoiceEffect, TypeOK
  <2>7. ASSUME NEW g \in Handlers, found[g] PROVE log[ev[g]].inv \in EventId
    <3>1. /\ ev[g] \in 1..Len(log) /\ log[ev[g]] \in Event /\ log[ev[g]].kind = "voided"
      BY <2>7 DEF Lookups, Holding, TypeOK, EventId
    <3> QED BY <3>1 DEF Numbered, Event
  <2> QED BY <2>3, <2>4, <2>5, <2>6, <2>7 DEF Lookups
<1>6. ASSUME NEW h \in Handlers, CallStripe(h) PROVE Lookups'
  BY <1>1, <1>2, <1>6 DEF CallStripe
<1>7. ASSUME NEW s \in Subs,
             \/ StripeCompletes(s) \/ StripeFails(s) \/ StripePays(s) \/ StripeReports(s)
             \/ StripeEnds(s)
      PROVE  Lookups'
  BY <1>2, <1>7 DEF StripeCompletes, StripeFails, StripePays, StripeReports, StripeEnds
<1>8. ASSUME NEW h \in Handlers, NEW s \in Subs, StartCheckout(h, s) PROVE Lookups'
  BY <1>1, <1>8 DEF StartCheckout
<1>9. ASSUME NEW h \in Handlers, Return(h) \/ SetEnds(h) \/ Fail(h) PROVE Lookups'
  BY <1>1, <1>9 DEF Return, SetEnds, Fail
<1>10. ASSUME NEW h \in Handlers, Expire(h) PROVE Lookups'
  BY <1>2, <1>10 DEF Expire
<1>11. ASSUME NEW i \in EventId, StripeVoids(i) \/ DeliverAgain(i) PROVE Lookups'
  BY <1>2, <1>11 DEF StripeVoids, DeliverAgain
<1>12. CASE GraceElapses \/ UNCHANGED vars
  BY <1>2, <1>12 DEF GraceElapses, vars
<1> QED
  BY <1>3, <1>4, <1>5, <1>6, <1>7, <1>8, <1>9, <1>10, <1>11, <1>12 DEF Next

\* A started subscription is never open again.
LEMMA StartedStays ==
  ASSUME TypeOK, [Next]_vars, NEW s \in Subs, Started(s)
  PROVE  Started(s)'
<1>1. ASSUME NEW t \in Subs,
             \/ StripeCompletes(t) \/ StripeFails(t) \/ StripePays(t) \/ StripeReports(t) \/ StripeEnds(t)
      PROVE  Started(s)'
  <2>1. StripeCompletes(t) => Started(s)'
    BY DEF StripeCompletes, Started, TypeOK, Stripe
  <2>2. StripeFails(t) => Started(s)'
    BY DEF StripeFails, Started, TypeOK, Stripe
  <2>3. StripePays(t) => Started(s)'
    BY DEF StripePays, Started, TypeOK, Stripe
  <2>4. StripeReports(t) => Started(s)'
    BY DEF StripeReports, Started
  <2>5. StripeEnds(t) => Started(s)'
    BY DEF StripeEnds, Started, TypeOK, Stripe
  <2> QED BY <1>1, <2>1, <2>2, <2>3, <2>4, <2>5
<1>2. \A h \in Handlers, t \in Subs : StartCheckout(h, t) => Started(s)'
  BY DEF StartCheckout, Started, TypeOK, Stripe
<1>3. ASSUME NEW h \in Handlers, CallStripe(h) PROVE Started(s)'
  <2> DEFINE b == (op[h] = "cancel")
             t == snap[h].link
  <2>1. t \in Subs /\ b \in BOOLEAN /\ (stripe' = stripe \/ stripe' = [stripe EXCEPT ![t].ends = b])
    BY <1>3 DEF CallStripe, TypeOK, Row, stripeVars
  <2> HIDE DEF b, t
  <2> QED BY <2>1 DEF Started, TypeOK, Stripe
<1>4. UNCHANGED stripe => Started(s)'
  BY DEF Started
<1> QED
  BY <1>1, <1>2, <1>3, <1>4
  DEF Next, vars, stripeVars, StripeVoids, DeliverAgain, Deliver, Begin, Expire, Commit, Return,
      SetEnds, Fail, GraceElapses

\* What a step does to the rows is enough.
LEMMA LinksFrom ==
  ASSUME TypeOK, TypeOK', Links, Grows, [Next]_vars,
         sub'.plan = "pro" => sub'.link # NoSub,
         sub'.link # NoSub => Started(sub'.link),
         sub.link # NoSub => sub'.link # NoSub,
         \A h \in Handlers :
           \/ snap'[h].plan = snap[h].plan /\ snap'[h].link = snap[h].link
           \/ snap'[h] = FreeRow
           \/ snap'[h] = sub
  PROVE  Links'
<1>1. \A s \in Subs : Started(s) => Started(s)'
  BY StartedStays
<1>2. LinkSound(sub)'
  BY <1>1 DEF LinkSound, Started, TypeOK, Row
<1>3. ASSUME NEW h \in Handlers
      PROVE  LinkSound(snap[h])' /\ (snap'[h].link # NoSub => sub'.link # NoSub)
  <2>1. CASE snap'[h].plan = snap[h].plan /\ snap'[h].link = snap[h].link
    <3>1. snap[h].link \in Subs \cup {NoSub}
      BY DEF TypeOK, Row
    <3>2. LinkSound(snap[h]) /\ (snap[h].link # NoSub => sub.link # NoSub)
      BY DEF Links
    <3>3. snap[h].link # NoSub => stripe'[snap[h].link].state \notin {"none", "open"}
      BY <1>1, <3>1, <3>2 DEF LinkSound, Started
    <3> QED BY <2>1, <3>2, <3>3 DEF LinkSound, Started
  <2>2. CASE snap'[h] = FreeRow
    BY <2>2 DEF LinkSound, FreeRow
  <2>3. CASE snap'[h] = sub
    BY <1>1, <2>3 DEF Links, LinkSound, Started, TypeOK, Row
  <2> QED BY <2>1, <2>2, <2>3
<1>4. ASSUME NEW k \in 1..Len(log') PROVE Started(log[k].sub)'
  <2>1. CASE k \in 1..Len(log)
    <3>0. log[k] \in Event
      BY <2>1 DEF TypeOK
    <3>1. log[k].sub \in Subs /\ log'[k] = log[k]
      BY <2>1, <3>0 DEF Event, Grows
    <3>2. Started(log[k].sub)
      BY <2>1 DEF Links
    <3>3. stripe'[log[k].sub].state \notin {"none", "open"}
      BY <1>1, <3>1, <3>2 DEF Started
    <3> QED BY <3>1, <3>3 DEF Started
  <2>2. CASE k \notin 1..Len(log)
    BY <2>2 DEF Grows, Started
  <2> QED BY <2>1, <2>2
<1> QED BY <1>2, <1>3, <1>4 DEF Links

\* The links stay sound.
LEMMA LinksStep ==
  ASSUME TypeOK, TypeOK', Holding, Links, Grows, [Next]_vars
  PROVE  Links'
<1>1. ASSUME NEW s \in Subs, StripeCompletes(s) PROVE Links'
  <2>1. sub' = sub /\ \A g \in Handlers : snap'[g] = snap[g] \/ snap'[g] = FreeRow \/ snap'[g] = sub
    BY <1>1 DEF StripeCompletes, reqVars, TypeOK
  <2> QED BY <2>1, LinksFrom DEF Links, LinkSound
<1>2. ASSUME NEW s \in Subs, StripeFails(s) PROVE Links'
  <2>1. sub' = sub /\ \A g \in Handlers : snap'[g] = snap[g] \/ snap'[g] = FreeRow \/ snap'[g] = sub
    BY <1>2 DEF StripeFails, reqVars, TypeOK
  <2> QED BY <2>1, LinksFrom DEF Links, LinkSound
<1>3. ASSUME NEW s \in Subs, StripePays(s) PROVE Links'
  <2>1. sub' = sub /\ \A g \in Handlers : snap'[g] = snap[g] \/ snap'[g] = FreeRow \/ snap'[g] = sub
    BY <1>3 DEF StripePays, reqVars, TypeOK
  <2> QED BY <2>1, LinksFrom DEF Links, LinkSound
<1>4. ASSUME NEW s \in Subs, StripeReports(s) PROVE Links'
  <2>1. sub' = sub /\ \A g \in Handlers : snap'[g] = snap[g] \/ snap'[g] = FreeRow \/ snap'[g] = sub
    BY <1>4 DEF StripeReports, reqVars, TypeOK
  <2> QED BY <2>1, LinksFrom DEF Links, LinkSound
<1>5. ASSUME NEW s \in Subs, StripeEnds(s) PROVE Links'
  <2>1. sub' = sub /\ \A g \in Handlers : snap'[g] = snap[g] \/ snap'[g] = FreeRow \/ snap'[g] = sub
    BY <1>5 DEF StripeEnds, reqVars, TypeOK
  <2> QED BY <2>1, LinksFrom DEF Links, LinkSound
<1>6. ASSUME NEW i \in EventId, StripeVoids(i) PROVE Links'
  <2>1. sub' = sub /\ \A g \in Handlers : snap'[g] = snap[g] \/ snap'[g] = FreeRow \/ snap'[g] = sub
    BY <1>6 DEF StripeVoids, reqVars, TypeOK
  <2> QED BY <2>1, LinksFrom DEF Links, LinkSound
<1>7. ASSUME NEW i \in EventId, DeliverAgain(i) PROVE Links'
  <2>1. sub' = sub /\ \A g \in Handlers : snap'[g] = snap[g] \/ snap'[g] = FreeRow \/ snap'[g] = sub
    BY <1>7 DEF DeliverAgain, reqVars, TypeOK
  <2> QED BY <2>1, LinksFrom DEF Links, LinkSound
<1>8. ASSUME NEW h \in Handlers, NEW i \in EventId, Deliver(h, i) PROVE Links'
  <2>1. sub' = sub /\ \A g \in Handlers : snap'[g] = snap[g] \/ snap'[g] = FreeRow \/ snap'[g] = sub
    BY <1>8 DEF Deliver, Load, TypeOK
  <2> QED BY <2>1, LinksFrom DEF Links, LinkSound
<1>9. ASSUME NEW h \in Handlers, NEW what \in ApiOp, Begin(h, what) PROVE Links'
  <2>1. sub' = sub /\ \A g \in Handlers : snap'[g] = snap[g] \/ snap'[g] = FreeRow \/ snap'[g] = sub
    BY <1>9 DEF Begin, Load, TypeOK
  <2> QED BY <2>1, LinksFrom DEF Links, LinkSound
<1>10. ASSUME NEW h \in Handlers, NEW s \in Subs, StartCheckout(h, s) PROVE Links'
  <2>1. sub' = sub /\ \A g \in Handlers : snap'[g] = snap[g] \/ snap'[g] = FreeRow \/ snap'[g] = sub
    BY <1>10 DEF StartCheckout, Release, TypeOK
  <2> QED BY <2>1, LinksFrom DEF Links, LinkSound
<1>11. ASSUME NEW h \in Handlers, Expire(h) PROVE Links'
  <2> DEFINE new == [snap[h] EXCEPT !.status = "suspended"]
  <2>1. sub \in Row /\ snap[h] \in Row /\ new \in Row /\ new.plan = snap[h].plan /\ new.link = snap[h].link
    BY DEF TypeOK, Row
  <2>2. sub'.plan = sub.plan /\ sub'.link = sub.link
    BY <1>11, <2>1, MergeIs DEF Expire
  <2>3. \A g \in Handlers : snap'[g].plan = snap[g].plan /\ snap'[g].link = snap[g].link
    BY <1>11 DEF Expire, TypeOK, Row
  <2> QED BY <2>2, <2>3, LinksFrom DEF Links, LinkSound
<1>12. ASSUME NEW h \in Handlers, Commit(h) PROVE Links'
  <2> DEFINE e == log[ev[h]]
             new == Effect(e, snap[h])
             row == Merge(snap[h], new)
  <2>1. ev[h] \in 1..Len(log) /\ e \in Event
    BY <1>12 DEF Commit, TypeOK, Holding, EventId
  <2>2. sub \in Row /\ snap[h] \in Row /\ new \in Row
    BY <2>1, EffectType DEF TypeOK
  <2>3. new.link \in {snap[h].link, e.sub} /\ (new.plan = "pro" => snap[h].plan = "pro" \/ snap[h].link = e.sub)
    BY <2>1, <2>2, EffectLinks
  <2>4. e.sub # NoSub /\ Started(e.sub)
    BY <2>1 DEF Event, Links
  <2>5. sub' \in {sub, row, [row EXCEPT !.grace = "running"]}
    BY <1>12 DEF Commit, Apply
  <2> HIDE DEF e, new
  <2>6. /\ row \in Row
        /\ row.plan = IF new.plan # snap[h].plan THEN new.plan ELSE sub.plan
        /\ row.link = IF new.link # snap[h].link THEN new.link ELSE sub.link
    BY <2>2, MergeIs
  <2> HIDE DEF row
  <2>7. sub' = sub \/ (sub'.plan = row.plan /\ sub'.link = row.link)
    BY <2>5, <2>6 DEF Row
  <2>8. row.link \in {sub.link, e.sub}
    BY <2>3, <2>6
  <2>9. row.plan = "pro" => row.link # NoSub
    BY <2>3, <2>4, <2>6, <2>8 DEF Links, LinkSound
  <2>10. row.link # NoSub => Started(row.link)
    BY <2>4, <2>8 DEF Links, LinkSound
  <2>11. sub.link # NoSub => row.link # NoSub
    BY <2>4, <2>8
  <2>12. \A g \in Handlers : snap'[g] = snap[g] \/ snap'[g] = FreeRow
    BY <1>12 DEF Commit, Release, TypeOK
  <2> QED BY <2>7, <2>9, <2>10, <2>11, <2>12, LinksFrom DEF Links, LinkSound
<1>13. ASSUME NEW h \in Handlers, Return(h) PROVE Links'
  <2>1. sub' = sub /\ \A g \in Handlers : snap'[g] = snap[g] \/ snap'[g] = FreeRow \/ snap'[g] = sub
    BY <1>13 DEF Return, Release, TypeOK
  <2> QED BY <2>1, LinksFrom DEF Links, LinkSound
<1>14. ASSUME NEW h \in Handlers, CallStripe(h) PROVE Links'
  <2>1. sub' = sub /\ \A g \in Handlers : snap'[g] = snap[g] \/ snap'[g] = FreeRow \/ snap'[g] = sub
    BY <1>14 DEF CallStripe, Release, TypeOK
  <2> QED BY <2>1, LinksFrom DEF Links, LinkSound
<1>15. ASSUME NEW h \in Handlers, SetEnds(h) PROVE Links'
  <2> DEFINE new == [snap[h] EXCEPT !.ends = (op[h] = "cancel")]
  <2>1. sub \in Row /\ snap[h] \in Row /\ new \in Row /\ new.plan = snap[h].plan /\ new.link = snap[h].link
    BY DEF TypeOK, Row
  <2>2. sub'.plan = sub.plan /\ sub'.link = sub.link
    BY <1>15, <2>1, MergeIs DEF SetEnds
  <2>3. \A g \in Handlers : snap'[g] = snap[g] \/ snap'[g] = FreeRow
    BY <1>15 DEF SetEnds, Release, TypeOK
  <2> QED BY <2>2, <2>3, LinksFrom DEF Links, LinkSound
<1>16. ASSUME NEW h \in Handlers, Fail(h) PROVE Links'
  <2>1. sub' = sub /\ \A g \in Handlers : snap'[g] = snap[g] \/ snap'[g] = FreeRow \/ snap'[g] = sub
    BY <1>16 DEF Fail, Release, TypeOK
  <2> QED BY <2>1, LinksFrom DEF Links, LinkSound
<1>17. ASSUME GraceElapses PROVE Links'
  <2>1. sub'.plan = sub.plan /\ sub'.link = sub.link
    BY <1>17 DEF GraceElapses, TypeOK, Row
  <2>2. \A g \in Handlers : snap'[g].plan = snap[g].plan /\ snap'[g].link = snap[g].link
    BY <1>17 DEF GraceElapses, TypeOK, Row
  <2> QED BY <2>1, <2>2, LinksFrom DEF Links, LinkSound
<1>18. CASE UNCHANGED vars
  BY <1>18, LinksFrom DEF vars, reqVars, Links, LinkSound
<1> QED
  BY <1>1, <1>2, <1>3, <1>4, <1>5, <1>6, <1>7, <1>8, <1>9,
     <1>10, <1>11, <1>12, <1>13, <1>14, <1>15, <1>16, <1>17, <1>18 DEF Next

-----------------------------------------------------------------------------
(* The row follows Stripe                                                  *)
(*                                                                         *)
(* Two invariants: LogInv, of Stripe's own events, holds in every state;   *)
(* CleanInv says what the row and the requests are like as long as no      *)
(* event overtook another and none overlapped a request.                   *)

\* Every event of the log, and those about a subscription: the ones that tell its
\* state, and among them the ones that make or end a plan.
Index == 1..Len(log)
Telling == {"updated", "deleted", "paid", "failed"}
Shaping == {"updated", "deleted"}
Tells(k, s) == log[k].sub = s /\ log[k].kind \in Telling
Shapes(k, s) == log[k].sub = s /\ log[k].kind \in Shaping

\* The last event that tells a subscription's state tells the one it has, and the
\* last that makes or ends a plan agrees on whether it is alive and going to end.
Truthful(s) ==
  /\ \E k \in Index : log[k].kind = "completed" /\ log[k].sub = s
  /\ \E k \in Index : /\ Tells(k, s) /\ log[k].status = stripe[s].state
                      /\ \A j \in Index : Tells(j, s) => j <= k
  /\ \E k \in Index : /\ Shapes(k, s) /\ log[k].ends = stripe[s].ends
                      /\ log[k].kind = "updated" <=> stripe[s].state \in {"active", "past_due"}
                      /\ \A j \in Index : Shapes(j, s) => j <= k

\* A checkout is completed before anything is told of its subscription.
CompletedFirst ==
  \A j, k \in Index : log[j].kind = "completed" /\ Tells(k, log[j].sub) => j < k

\* Each kind of event says what its name says; what is voided was paid before.
WellFormed(k) ==
  /\ log[k].kind = "failed" => log[k].status = "past_due"
  /\ log[k].kind = "paid" => log[k].status = "active" /\ log[k].inv = k
  /\ log[k].kind = "deleted" => log[k].status = "canceled" /\ ~log[k].ends
  /\ log[k].kind = "voided" => log[k].inv < k

\* A report of an overdue subscription follows an event that told so already.
OverdueTold(k) ==
  log[k].kind = "updated" /\ log[k].status = "past_due" =>
    \E j \in 1..(k - 1) :
      /\ Tells(j, log[k].sub) /\ log[j].status = "past_due"
      /\ \A i \in 1..(k - 1) : Tells(i, log[k].sub) => i <= j

\* What the log says of Stripe, whatever the program does.
LogInv ==
  /\ \A s \in Subs : IF Started(s) THEN Truthful(s) ELSE ~stripe[s].ends
  /\ CompletedFirst
  /\ \A k \in Index : WellFormed(k) /\ OverdueTold(k)

\* One event is added at the end.
LEMMA Appended ==
  ASSUME TypeOK, NEW e \in Event, Send(<<e>>)
  PROVE  /\ Len(log) \in Nat /\ Len(log') = Len(log) + 1
         /\ \A k \in 1..Len(log) : log'[k] = log[k] /\ log[k] \in Event
         /\ log'[Len(log) + 1] = e
<1> DEFINE n == <<e>>
<1>1. n \in Seq(Event) /\ Len(n) = 1 /\ n[1] = e /\ Send(n)
  OBVIOUS
<1> HIDE DEF n
<1>2. Len(log) \in Nat /\ \A k \in 1..Len(log) : log[k] \in Event
  BY DEF TypeOK
<1>3. /\ Len(log') = Len(log) + Len(n)
      /\ \A k \in 1..Len(log) : log'[k] = log[k]
      /\ \A k \in 1..Len(n) : log'[Len(log) + k] = n[k]
  BY <1>1, SendProps
<1>4. 1 \in 1..Len(n)
  BY <1>1
<1> QED BY <1>1, <1>2, <1>3, <1>4

\* A step that sends nothing and changes no started subscription.
LEMMA LogInvKept ==
  ASSUME LogInv, log' = log,
         \A s \in Subs : /\ stripe'[s].ends = stripe[s].ends
                         /\ \/ stripe'[s].state = stripe[s].state
                            \/ ~Started(s) /\ ~Started(s)'
  PROVE  LogInv'
<1>1. ASSUME NEW s \in Subs, Started(s)' PROVE Truthful(s)'
  <2>1. stripe'[s].state = stripe[s].state /\ stripe'[s].ends = stripe[s].ends /\ Started(s)
    BY <1>1 DEF Started
  <2>2. Truthful(s)
    BY <2>1 DEF LogInv
  <2> QED BY <2>1, <2>2 DEF Truthful, Tells, Shapes, Index
<1>3. ASSUME NEW s \in Subs, ~Started(s)' PROVE ~stripe'[s].ends
  BY <1>3 DEF LogInv, Started
<1>2. CompletedFirst' /\ \A k \in Index' : WellFormed(k)' /\ OverdueTold(k)'
  BY DEF LogInv, CompletedFirst, WellFormed, OverdueTold, Index, Tells
<1> QED BY <1>1, <1>2, <1>3 DEF LogInv

\* One event that tells the truth.
LEMMA LogInvTold ==
  ASSUME TypeOK, LogInv, Links, NEW e \in Event, Send(<<e>>),
         e.kind # "completed", Started(e.sub),
         \A t \in Subs : t # e.sub => stripe'[t] = stripe[t],
         e.kind \in Telling => stripe'[e.sub].state = e.status,
         e.kind \notin Telling => stripe'[e.sub].state = stripe[e.sub].state,
         e.kind \in Shaping =>
           /\ stripe'[e.sub].ends = e.ends
           /\ e.kind = "updated" <=> stripe'[e.sub].state \in {"active", "past_due"},
         e.kind \notin Shaping =>
           /\ stripe'[e.sub].ends = stripe[e.sub].ends
           /\ stripe'[e.sub].state \in {"active", "past_due"}
                <=> stripe[e.sub].state \in {"active", "past_due"},
         e.kind = "failed" => e.status = "past_due",
         e.kind = "paid" => e.status = "active" /\ e.inv = Len(log) + 1,
         e.kind = "deleted" => e.status = "canceled" /\ ~e.ends,
         e.kind = "voided" => e.inv <= Len(log),
         e.kind = "updated" /\ e.status = "past_due" => stripe[e.sub].state = "past_due"
  PROVE  LogInv'
<1>0. PICK n \in Nat : n = Len(log) + 1
  BY DEF TypeOK
<1>1. /\ Len(log) \in Nat /\ Len(log') = n
      /\ \A k \in Index : log'[k] = log[k] /\ log[k] \in Event
      /\ log'[n] = e
      /\ Index' = 1..n /\ Index = 1..(n - 1) /\ n \in Nat /\ n \in Index'
  BY Appended, <1>0 DEF Index
<1>2. \A s \in Subs : \A k \in Index : (Tells(k, s)' <=> Tells(k, s)) /\ (Shapes(k, s)' <=> Shapes(k, s))
  BY <1>1 DEF Tells, Shapes
<1>3. \A s \in Subs : /\ Tells(n, s)' <=> e.sub = s /\ e.kind \in Telling
                      /\ Shapes(n, s)' <=> e.sub = s /\ e.kind \in Shaping
  BY <1>1 DEF Tells, Shapes
<1>4. \A k \in Index' : k \in Index \/ k = n
  BY <1>1
<1>5. e.sub \in Subs /\ e.kind \in {"updated", "deleted", "paid", "failed", "voided"}
  BY DEF Event
<1>6. ASSUME NEW s \in Subs, Started(s)' PROVE Truthful(s)'
  <2>1. Started(s)
    BY <1>6, <1>5 DEF Started
  <2>2. Truthful(s)
    BY <2>1 DEF LogInv
  <2>3. \E k \in Index' : log'[k].kind = "completed" /\ log'[k].sub = s
    BY <2>2, <1>1 DEF Truthful
  <2>4. \E k \in Index' : /\ Tells(k, s)' /\ log'[k].status = stripe'[s].state
                          /\ \A j \in Index' : Tells(j, s)' => j <= k
    <3>1. CASE e.sub = s /\ e.kind \in Telling
      <4>1. n \in Index' /\ Tells(n, s)' /\ log'[n].status = stripe'[s].state
        BY <3>1, <1>1, <1>3
      <4>2. \A j \in Index' : j <= n
        BY <1>1
      <4> QED BY <4>1, <4>2
    <3>2. CASE ~(e.sub = s /\ e.kind \in Telling)
      <4>1. stripe'[s].state = stripe[s].state
        BY <3>2
      <4>2. PICK k \in Index : /\ Tells(k, s) /\ log[k].status = stripe[s].state
                               /\ \A j \in Index : Tells(j, s) => j <= k
        BY <2>2 DEF Truthful
      <4>3. k \in Index' /\ Tells(k, s)' /\ log'[k].status = stripe'[s].state
        BY <1>1, <1>2, <4>1, <4>2
      <4>4. \A j \in Index' : Tells(j, s)' => j <= k
        BY <1>2, <1>3, <1>4, <3>2, <4>2
      <4> QED BY <4>3, <4>4
    <3> QED BY <3>1, <3>2
  <2>5. \E k \in Index' : /\ Shapes(k, s)' /\ log'[k].ends = stripe'[s].ends
                          /\ log'[k].kind = "updated" <=> stripe'[s].state \in {"active", "past_due"}
                          /\ \A j \in Index' : Shapes(j, s)' => j <= k
    <3>1. CASE e.sub = s /\ e.kind \in Shaping
      <4>1. /\ n \in Index' /\ Shapes(n, s)' /\ log'[n].ends = stripe'[s].ends
            /\ log'[n].kind = "updated" <=> stripe'[s].state \in {"active", "past_due"}
        BY <3>1, <1>1, <1>3
      <4>2. \A j \in Index' : j <= n
        BY <1>1
      <4> QED BY <4>1, <4>2
    <3>2. CASE ~(e.sub = s /\ e.kind \in Shaping)
      <4>1. /\ stripe'[s].ends = stripe[s].ends
            /\ stripe'[s].state \in {"active", "past_due"} <=> stripe[s].state \in {"active", "past_due"}
        BY <3>2
      <4>2. PICK k \in Index : /\ Shapes(k, s) /\ log[k].ends = stripe[s].ends
                               /\ log[k].kind = "updated" <=> stripe[s].state \in {"active", "past_due"}
                               /\ \A j \in Index : Shapes(j, s) => j <= k
        BY <2>2 DEF Truthful
      <4>3. /\ k \in Index' /\ Shapes(k, s)' /\ log'[k].ends = stripe'[s].ends
            /\ log'[k].kind = "updated" <=> stripe'[s].state \in {"active", "past_due"}
        BY <1>1, <1>2, <4>1, <4>2
      <4>4. \A j \in Index' : Shapes(j, s)' => j <= k
        BY <1>2, <1>3, <1>4, <3>2, <4>2
      <4> QED BY <4>3, <4>4
    <3> QED BY <3>1, <3>2
  <2> QED BY <2>3, <2>4, <2>5 DEF Truthful
<1>7. CompletedFirst'
  <2> SUFFICES ASSUME NEW j \in Index', NEW k \in Index', log'[j].kind = "completed",
                      Tells(k, log[j].sub)'
               PROVE  j < k
    BY DEF CompletedFirst
  <2>1. j \in Index /\ log'[j] = log[j]
    BY <1>1, <1>4
  <2>2. CASE k \in Index
    <3>1. log[j].sub \in Subs
      BY <2>1, <1>1 DEF Event
    <3>2. Tells(k, log[j].sub)
      BY <2>1, <2>2, <3>1, <1>2
    <3> QED BY <2>1, <2>2, <3>2 DEF LogInv, CompletedFirst
  <2>3. CASE k = n
    BY <2>1, <2>3, <1>1
  <2> QED BY <2>2, <2>3, <1>4
<1>8. ASSUME NEW k \in Index' PROVE WellFormed(k)'
  <2>1. CASE k \in Index
    <3>1. WellFormed(k) /\ log'[k] = log[k]
      BY <2>1, <1>1 DEF LogInv
    <3> QED BY <3>1 DEF WellFormed
  <2>2. CASE k = n
    <3>0. e.inv \in Nat
      BY DEF Event, EventId
    <3>1. e.kind = "voided" => e.inv < n
      BY <1>0, <1>1, <3>0
    <3>2. e.kind = "paid" => e.inv = n
      BY <1>0
    <3> QED BY <2>2, <3>1, <3>2, <1>1 DEF WellFormed
  <2> QED BY <2>1, <2>2, <1>4
<1>9. ASSUME NEW k \in Index', log'[k].kind = "updated", log'[k].status = "past_due"
      PROVE  \E j \in 1..(k - 1) :
               /\ Tells(j, log[k].sub)' /\ log'[j].status = "past_due"
               /\ \A i \in 1..(k - 1) : Tells(i, log[k].sub)' => i <= j
  <2>1. CASE k \in Index
    <3>1. log'[k] = log[k] /\ OverdueTold(k)
      BY <2>1, <1>1 DEF LogInv
    <3>0. log[k].sub \in Subs
      BY <2>1, <1>1 DEF Event
    <3>2. PICK j \in 1..(k - 1) :
               /\ Tells(j, log[k].sub) /\ log[j].status = "past_due"
               /\ \A i \in 1..(k - 1) : Tells(i, log[k].sub) => i <= j
      BY <1>9, <3>1 DEF OverdueTold
    <3>3. \A i \in 1..(k - 1) : i \in Index
      BY <2>1, <1>1
    <3>4. Tells(j, log[k].sub)' /\ log'[j].status = "past_due"
      BY <3>0, <3>1, <3>2, <3>3, <1>1, <1>2
    <3>5. \A i \in 1..(k - 1) : Tells(i, log[k].sub)' => i <= j
      BY <3>0, <3>1, <3>2, <3>3, <1>2
    <3> QED BY <3>4, <3>5
  <2>2. CASE k = n
    <3>1. e.kind = "updated" /\ e.status = "past_due" /\ log'[k] = e
      BY <2>2, <1>1, <1>9
    <3>2. stripe[e.sub].state = "past_due" /\ Truthful(e.sub)
      BY <3>1, <1>5 DEF LogInv
    <3>3. PICK j \in Index : /\ Tells(j, e.sub) /\ log[j].status = "past_due"
                             /\ \A i \in Index : Tells(i, e.sub) => i <= j
      BY <3>2 DEF Truthful
    <3>4. 1..(k - 1) = Index
      BY <2>2, <1>1
    <3>5. Tells(j, log[k].sub)' /\ log'[j].status = "past_due"
      BY <1>5, <3>1, <3>3, <1>1, <1>2
    <3>6. \A i \in 1..(k - 1) : Tells(i, log[k].sub)' => i <= j
      BY <1>5, <3>1, <3>3, <3>4, <1>2
    <3> QED BY <3>4, <3>5, <3>6
  <2> QED BY <2>1, <2>2, <1>4
<1>10. ASSUME NEW s \in Subs, ~Started(s)' PROVE ~stripe'[s].ends
  <2>1. CASE s = e.sub
    <3>1. e.kind # "updated" \/ e.status # "past_due"
      BY <1>10, <2>1 DEF Started, Telling
    <3>2. e.kind \notin Telling
      BY <1>5, <1>10, <2>1, <3>1 DEF Started, Telling, Shaping
    <3> QED BY <1>10, <2>1, <3>2 DEF Started
  <2>2. CASE s # e.sub
    <3>1. stripe'[s] = stripe[s]
      BY <2>2
    <3> QED BY <1>10, <3>1 DEF LogInv, Started
  <2> QED BY <2>1, <2>2
<1> QED BY <1>6, <1>7, <1>8, <1>9, <1>10 DEF LogInv, OverdueTold

\* A completed checkout is the first that is heard of its subscription.
LEMMA LogInvCompleted ==
  ASSUME TypeOK, LogInv, Links, NEW s \in Subs, StripeCompletes(s)
  PROVE  LogInv'
<1> DEFINE e == Note("completed", s, "active", FALSE, 0)
           f == Note("updated", s, "active", FALSE, 0)
           m == <<e, f>>
<1>0. PICK n \in Nat : n = Len(log)
  BY DEF TypeOK
<1>1. /\ e.kind = "completed" /\ e.sub = s
      /\ f.kind = "updated" /\ f.sub = s /\ f.status = "active" /\ ~f.ends
      /\ e \in Event /\ f \in Event /\ Send(<<e, f>>)
  BY DEF Note, Event, StripeCompletes
<1> HIDE DEF e, f
<1>2. m \in Seq(Event) /\ Len(m) = 2 /\ m[1] = e /\ m[2] = f /\ Send(m)
  BY <1>1
<1> HIDE DEF m
<1>3. /\ Len(log') = Len(log) + Len(m)
      /\ \A k \in 1..Len(log) : log'[k] = log[k]
      /\ \A k \in 1..Len(m) : log'[Len(log) + k] = m[k]
  BY <1>2, SendProps
<1>4. /\ \A k \in Index : log'[k] = log[k] /\ log[k] \in Event
      /\ log'[n + 1] = e /\ log'[n + 2] = f
      /\ Index' = 1..(n + 2) /\ Index = 1..n
  BY <1>0, <1>2, <1>3 DEF Index, TypeOK
<1>5. \A k \in Index' : k \in Index \/ k = n + 1 \/ k = n + 2
  BY <1>4
<1>6. /\ stripe[s].state = "open"
      /\ stripe'[s].state = "active" /\ stripe'[s].ends = stripe[s].ends
      /\ \A t \in Subs : t # s => stripe'[t] = stripe[t]
  BY DEF StripeCompletes, TypeOK, Stripe
<1>7. \A k \in Index : log[k].sub # s /\ log[k].sub \in Subs
  BY <1>4, <1>6 DEF Links, Started, Index, Event
<1>8. \A t \in Subs : /\ \A k \in Index : (Tells(k, t)' <=> Tells(k, t)) /\ (Shapes(k, t)' <=> Shapes(k, t))
                      /\ ~Tells(n + 1, t)' /\ ~Shapes(n + 1, t)'
                      /\ Tells(n + 2, t)' <=> t = s
                      /\ Shapes(n + 2, t)' <=> t = s
  BY <1>1, <1>4 DEF Tells, Shapes, Telling, Shaping
<1>9. /\ n + 1 \in Index' /\ n + 2 \in Index' /\ \A k \in Index' : k <= n + 2
      /\ \A k \in Index : k \in Index' /\ k < n + 1
  BY <1>4
<1>10. ASSUME NEW t \in Subs, Started(t)' PROVE Truthful(t)'
  <2>1. CASE t = s
    <3>1. \E k \in Index' : log'[k].kind = "completed" /\ log'[k].sub = t
      BY <1>1, <1>4, <1>9, <2>1
    <3>2. /\ n + 2 \in Index' /\ Tells(n + 2, t)' /\ log'[n + 2].status = stripe'[t].state
          /\ \A j \in Index' : Tells(j, t)' => j <= n + 2
      BY <1>1, <1>4, <1>6, <1>8, <1>9, <2>1
    <3>3. ~stripe[s].ends
      BY <1>6 DEF LogInv, Started
    <3>4. /\ Shapes(n + 2, t)' /\ log'[n + 2].ends = stripe'[t].ends
          /\ log'[n + 2].kind = "updated" /\ stripe'[t].state \in {"active", "past_due"}
          /\ \A j \in Index' : Shapes(j, t)' => j <= n + 2
      BY <1>1, <1>4, <1>6, <1>8, <1>9, <2>1, <3>3 DEF TypeOK, Event, Stripe
    <3> QED BY <3>1, <3>2, <3>4 DEF Truthful
  <2>2. CASE t # s
    <3>1. stripe'[t] = stripe[t] /\ Truthful(t)
      BY <1>6, <1>10, <2>2 DEF LogInv, Started
    <3>2. PICK k \in Index : log[k].kind = "completed" /\ log[k].sub = t
      BY <3>1 DEF Truthful
    <3>3. PICK i \in Index : /\ Tells(i, t) /\ log[i].status = stripe[t].state
                             /\ \A j \in Index : Tells(j, t) => j <= i
      BY <3>1 DEF Truthful
    <3>4. PICK h \in Index : /\ Shapes(h, t) /\ log[h].ends = stripe[t].ends
                             /\ log[h].kind = "updated" <=> stripe[t].state \in {"active", "past_due"}
                             /\ \A j \in Index : Shapes(j, t) => j <= h
      BY <3>1 DEF Truthful
    <3>5. k \in Index' /\ log'[k].kind = "completed" /\ log'[k].sub = t
      BY <1>4, <1>9, <3>2
    <3>6. /\ i \in Index' /\ Tells(i, t)' /\ log'[i].status = stripe'[t].state
          /\ \A j \in Index' : Tells(j, t)' => j <= i
      BY <1>4, <1>5, <1>8, <1>9, <2>2, <3>1, <3>3
    <3>7. /\ h \in Index' /\ Shapes(h, t)' /\ log'[h].ends = stripe'[t].ends
          /\ log'[h].kind = "updated" <=> stripe'[t].state \in {"active", "past_due"}
          /\ \A j \in Index' : Shapes(j, t)' => j <= h
      BY <1>4, <1>5, <1>8, <1>9, <2>2, <3>1, <3>4
    <3> QED BY <3>5, <3>6, <3>7 DEF Truthful
  <2> QED BY <2>1, <2>2
<1>11. ASSUME NEW t \in Subs, ~Started(t)' PROVE ~stripe'[t].ends
  BY <1>6, <1>11 DEF LogInv, Started
<1>12. CompletedFirst'
  <2> SUFFICES ASSUME NEW j \in Index', NEW k \in Index', log'[j].kind = "completed",
                      Tells(k, log[j].sub)'
               PROVE  j < k
    BY DEF CompletedFirst
  <2>1. CASE j \in Index /\ k \in Index
    <3>1. log'[j] = log[j] /\ log[j].sub \in Subs
      BY <1>4, <2>1 DEF Event
    <3>2. Tells(k, log[j].sub)
      BY <1>8, <2>1, <3>1
    <3> QED BY <2>1, <3>1, <3>2 DEF LogInv, CompletedFirst
  <2>2. CASE j \in Index /\ k \notin Index
    BY <1>4, <1>5, <1>9, <2>2
  <2>3. CASE j \notin Index
    <3>1. j = n + 1 /\ log'[j].sub = s
      BY <1>1, <1>4, <1>5, <2>3
    <3>2. Tells(k, s)'
      BY <3>1
    <3>3. k = n + 2
      BY <1>5, <1>7, <1>8, <3>2 DEF Tells
    <3> QED BY <3>1, <3>3
  <2> QED BY <2>1, <2>2, <2>3
<1>13. ASSUME NEW k \in Index' PROVE WellFormed(k)'
  <2>1. CASE k \in Index
    <3>1. WellFormed(k) /\ log'[k] = log[k]
      BY <2>1, <1>4 DEF LogInv
    <3> QED BY <3>1 DEF WellFormed
  <2>2. CASE k \notin Index
    <3>1. log'[k].kind \in {"completed", "updated"}
      BY <1>1, <1>4, <1>5, <2>2
    <3> QED BY <3>1 DEF WellFormed
  <2> QED BY <2>1, <2>2
<1>14. ASSUME NEW k \in Index', log'[k].kind = "updated", log'[k].status = "past_due"
       PROVE  \E j \in 1..(k - 1) :
               /\ Tells(j, log[k].sub)' /\ log'[j].status = "past_due"
               /\ \A i \in 1..(k - 1) : Tells(i, log[k].sub)' => i <= j
  <2>1. k \in Index
    BY <1>1, <1>4, <1>5, <1>14
  <2>2. log'[k] = log[k] /\ OverdueTold(k) /\ log[k].sub \in Subs
    BY <2>1, <1>4 DEF LogInv, Event
  <2>3. PICK j \in 1..(k - 1) :
             /\ Tells(j, log[k].sub) /\ log[j].status = "past_due"
             /\ \A i \in 1..(k - 1) : Tells(i, log[k].sub) => i <= j
    BY <1>14, <2>2 DEF OverdueTold
  <2>4. \A i \in 1..(k - 1) : i \in Index
    BY <2>1, <1>4
  <2>5. Tells(j, log[k].sub)' /\ log'[j].status = "past_due"
    BY <2>2, <2>3, <2>4, <1>4, <1>8
  <2>6. \A i \in 1..(k - 1) : Tells(i, log[k].sub)' => i <= j
    BY <2>2, <2>3, <2>4, <1>8
  <2> QED BY <2>5, <2>6
<1> QED BY <1>10, <1>11, <1>12, <1>13, <1>14 DEF LogInv, OverdueTold

\* Whatever is sent is true, whatever else the step does.
LEMMA LogInvStep ==
  ASSUME TypeOK, Links, LogInv, [Next]_vars
  PROVE  LogInv'
<1>1. ASSUME NEW s \in Subs, StripeCompletes(s) PROVE LogInv'
  BY <1>1, LogInvCompleted
<1>2. ASSUME NEW s \in Subs, StripeFails(s) PROVE LogInv'
  <2> DEFINE e == Note("failed", s, "past_due", stripe[s].ends, 0)
  <2>1. e \in Event /\ Send(<<e>>)
    BY <1>2 DEF StripeFails, Note, Event, TypeOK, Stripe, EventId, Alive, Send
  <2>2. e.kind = "failed" /\ e.sub = s /\ e.status = "past_due"
    BY DEF Note
  <2>3. /\ stripe[s].state \in {"active", "past_due"}
        /\ \A t \in Subs : t # s => stripe'[t] = stripe[t]
    BY <1>2 DEF StripeFails, TypeOK, Stripe, Alive
  <2>4. stripe'[s].state = "past_due" /\ stripe'[s].ends = stripe[s].ends
    BY <1>2 DEF StripeFails, TypeOK, Stripe
  <2> HIDE DEF e
  <2> QED BY <2>1, <2>2, <2>3, <2>4, LogInvTold DEF Telling, Shaping, Started
<1>3. ASSUME NEW s \in Subs, StripePays(s) PROVE LogInv'
  <2> DEFINE e == Note("paid", s, "active", stripe[s].ends, Len(log) + 1)
  <2>1. e \in Event /\ Send(<<e>>)
    BY <1>3 DEF StripePays, Note, Event, TypeOK, Stripe, EventId, Alive, Send
  <2>2. e.kind = "paid" /\ e.sub = s /\ e.status = "active" /\ e.inv = Len(log) + 1
    BY DEF Note
  <2>3. /\ stripe[s].state \in {"active", "past_due"}
        /\ \A t \in Subs : t # s => stripe'[t] = stripe[t]
    BY <1>3 DEF StripePays, TypeOK, Stripe, Alive
  <2>4. stripe'[s].state = "active" /\ stripe'[s].ends = stripe[s].ends
    BY <1>3 DEF StripePays, TypeOK, Stripe
  <2> HIDE DEF e
  <2> QED BY <2>1, <2>2, <2>3, <2>4, LogInvTold DEF Telling, Shaping, Started
<1>4. ASSUME NEW s \in Subs, StripeReports(s) PROVE LogInv'
  <2> DEFINE e == Note("updated", s, stripe[s].state, stripe[s].ends, 0)
  <2>1. e \in Event /\ Send(<<e>>)
    BY <1>4 DEF StripeReports, Note, Event, TypeOK, Stripe, EventId, Alive, Send
  <2>2. e.kind = "updated" /\ e.sub = s /\ e.status = stripe[s].state /\ e.ends = stripe[s].ends
    BY DEF Note
  <2>3. /\ stripe[s].state \in {"active", "past_due"}
        /\ \A t \in Subs : t # s => stripe'[t] = stripe[t]
    BY <1>4 DEF StripeReports, TypeOK, Stripe, Alive
  <2>4. stripe'[s] = stripe[s]
    BY <1>4 DEF StripeReports, TypeOK, Stripe
  <2> HIDE DEF e
  <2> QED BY <2>1, <2>2, <2>3, <2>4, LogInvTold DEF Telling, Shaping, Started
<1>5. ASSUME NEW s \in Subs, StripeEnds(s) PROVE LogInv'
  <2> DEFINE e == Note("deleted", s, "canceled", FALSE, 0)
  <2>1. e \in Event /\ Send(<<e>>)
    BY <1>5 DEF StripeEnds, Note, Event, TypeOK, Stripe, EventId, Alive, Send
  <2>2. e.kind = "deleted" /\ e.sub = s /\ e.status = "canceled" /\ e.ends = FALSE
    BY DEF Note
  <2>3. /\ stripe[s].state \in {"active", "past_due"}
        /\ \A t \in Subs : t # s => stripe'[t] = stripe[t]
    BY <1>5 DEF StripeEnds, TypeOK, Stripe, Alive
  <2>4. stripe'[s].state = "canceled" /\ stripe'[s].ends = FALSE
    BY <1>5 DEF StripeEnds, TypeOK, Stripe
  <2> HIDE DEF e
  <2> QED BY <2>1, <2>2, <2>3, <2>4, LogInvTold DEF Telling, Shaping, Started
<1>6. ASSUME NEW i \in EventId, StripeVoids(i) PROVE LogInv'
  <2> DEFINE e == Note("voided", log[i].sub, "active", FALSE, i)
  <2>1. i \in 1..Len(log) /\ i <= Len(log) /\ log[i] \in Event /\ Started(log[i].sub)
    BY <1>6 DEF StripeVoids, TypeOK, EventId, Links
  <2>2. e \in Event /\ Send(<<e>>)
    BY <1>6, <2>1 DEF StripeVoids, Note, Event
  <2>3. e.kind = "voided" /\ e.sub = log[i].sub /\ e.inv = i /\ stripe' = stripe
    BY <1>6 DEF StripeVoids, Note
  <2> HIDE DEF e
  <2> QED BY <2>1, <2>2, <2>3, LogInvTold DEF Telling, Shaping
<1>7. ASSUME NEW i \in EventId, DeliverAgain(i) PROVE LogInv'
  BY <1>7, LogInvKept DEF DeliverAgain, stripeVars
<1>8. ASSUME NEW h \in Handlers, NEW i \in EventId, Deliver(h, i) PROVE LogInv'
  BY <1>8, LogInvKept DEF Deliver, stripeVars
<1>9. ASSUME NEW h \in Handlers, NEW what \in ApiOp, Begin(h, what) PROVE LogInv'
  BY <1>9, LogInvKept DEF Begin, stripeVars
<1>10. ASSUME NEW h \in Handlers, NEW s \in Subs, StartCheckout(h, s) PROVE LogInv'
  BY <1>10, LogInvKept DEF StartCheckout, TypeOK, Stripe, Started
<1>11. ASSUME NEW h \in Handlers, Expire(h) PROVE LogInv'
  BY <1>11, LogInvKept DEF Expire, stripeVars
<1>12. ASSUME NEW h \in Handlers, Commit(h) PROVE LogInv'
  BY <1>12, LogInvKept DEF Commit, stripeVars
<1>13. ASSUME NEW h \in Handlers, Return(h) PROVE LogInv'
  BY <1>13, LogInvKept DEF Return, stripeVars
<1>14. ASSUME NEW h \in Handlers, CallStripe(h) PROVE LogInv'
  <2> DEFINE b == (op[h] = "cancel")
             s == snap[h].link
             e == Note("updated", s, stripe[s].state, b, 0)
  <2>1. s \in Subs /\ b \in BOOLEAN
    BY <1>14 DEF CallStripe, TypeOK, Row
  <2>2. CASE Alive(s)
    <3>1. Send(<<e>>) /\ stripe' = [stripe EXCEPT ![s].ends = b]
      BY <1>14, <2>2 DEF CallStripe
    <3> HIDE DEF b, s
    <3>2. e \in Event
      BY <2>1, <2>2 DEF Note, Event, Alive
    <3>3. /\ stripe'[s].state = stripe[s].state /\ stripe'[s].ends = b
          /\ \A t \in Subs : t # s => stripe'[t] = stripe[t]
      BY <2>1, <3>1 DEF TypeOK, Stripe
    <3>4. e.sub = s /\ e.kind = "updated" /\ e.status = stripe[s].state /\ e.ends = b
      BY DEF Note
    <3> HIDE DEF e
    <3> QED BY <2>2, <3>1, <3>2, <3>3, <3>4, LogInvTold DEF Alive, Telling, Shaping, Started
  <2>3. CASE ~Alive(s)
    BY <1>14, <2>3, LogInvKept DEF CallStripe, stripeVars
  <2> QED BY <2>2, <2>3
<1>15. ASSUME NEW h \in Handlers, SetEnds(h) PROVE LogInv'
  BY <1>15, LogInvKept DEF SetEnds, stripeVars
<1>16. ASSUME NEW h \in Handlers, Fail(h) PROVE LogInv'
  BY <1>16, LogInvKept DEF Fail, stripeVars
<1>17. ASSUME GraceElapses PROVE LogInv'
  BY <1>17, LogInvKept DEF GraceElapses, stripeVars
<1>18. CASE UNCHANGED vars
  BY <1>18, LogInvKept DEF vars, stripeVars
<1> QED
  BY <1>1, <1>2, <1>3, <1>4, <1>5, <1>6, <1>7, <1>8, <1>9,
     <1>10, <1>11, <1>12, <1>13, <1>14, <1>15, <1>16, <1>17, <1>18 DEF Next

\* What has had its effect, what a row says of its subscription's state, and
\* whether a report about a subscription is still to come.
Done(i) == handled[i] = 1
Says(row) == IF row.status = "suspended" THEN "past_due" ELSE row.status
Pending(s) == \E k \in Index : ~Done(k) /\ log[k].kind = "updated" /\ log[k].sub = s

\* Without reordering the events done are a prefix of the log, a webhook in flight
\* is alone and next, and no request has seen another subscription than the row's.
Orderly ==
  /\ \A i, j \in EventId : i < j /\ Done(j) => Done(i)
  /\ \A i \in recorded : Done(i) \/ \E h \in Handlers : ev[h] = i
  /\ \A h \in Handlers : op[h] = "webhook" =>
       /\ \A g \in Handlers : op[g] # "none" => g = h
       /\ \A i \in EventId : i < ev[h] => Done(i)
       /\ snap[h] = sub
  /\ \A h \in Handlers : op[h] # "none" =>
       /\ snap[h].link = sub.link
       /\ pc[h] = "expiring" => snap[h].status = "past_due" /\ Says(sub) = "past_due"
       /\ pc[h] = "called" => Pending(sub.link)

\* The row says what the last of the events done said of its subscription.
StateFollows(k) ==
  Done(k) /\ Tells(k, sub.link)
    /\ (\A j \in EventId : Done(j) /\ Tells(j, sub.link) => j <= k)
  => log[k].status = Says(sub)

PlanFollows(k) ==
  Done(k) /\ Shapes(k, sub.link)
    /\ (\A j \in EventId : Done(j) /\ Shapes(j, sub.link) => j <= k)
  => /\ sub.plan = "pro" <=> log[k].kind = "updated"
     /\ sub.ends = log[k].ends \/ Pending(sub.link)

RowFollows ==
  /\ Says(sub) = "past_due" => sub.grace # "none"
  /\ \A k \in EventId :
       /\ Done(k) /\ log[k].kind = "completed" => sub.link # NoSub
       /\ StateFollows(k)
       /\ PlanFollows(k)
       /\ Done(k) /\ log[k].kind = "voided" => invoice[log[k].inv] # "paid"

CleanInv == clean => Orderly /\ RowFollows

\* Unless events overtake, an invoice a voiding did not find has not been booked since.
Fresh ==
  clean => \A h \in Handlers :
             ev[h] # 0 /\ log[ev[h]].kind = "voided" /\ ~found[h] =>
               invoice[log[ev[h]].inv] = "none"

\* What an UPDATE makes of each column.
LEMMA MergeColumns ==
  ASSUME sub \in Row, NEW loaded \in Row, NEW new \in Row
  PROVE  /\ Merge(loaded, new).status = IF new.status # loaded.status THEN new.status ELSE sub.status
         /\ Merge(loaded, new).grace = IF new.grace # loaded.grace THEN new.grace ELSE sub.grace
         /\ Merge(loaded, new).ends = IF new.ends # loaded.ends THEN new.ends ELSE sub.ends
BY DEF Merge, Row

\* One that loaded the row as it still is writes what it made of it.
LEMMA MergeFresh ==
  ASSUME sub \in Row, NEW new \in Row
  PROVE  Merge(sub, new) = new
BY DEF Merge, Row

\* An event done is in the log, and stays there.
LEMMA DoneLogged ==
  ASSUME TypeOK, Ledger, Grows, NEW k \in EventId, Done(k)
  PROVE  k \in Index /\ log'[k] = log[k] /\ log[k] \in Event
<1>1. k \in recorded
  BY DEF Ledger, Done
<1>2. k \in Index
  BY <1>1 DEF Ledger, Index
<1> QED BY <1>2 DEF Grows, TypeOK, Index

\* A report to come is still to come after any step that does not handle it.
LEMMA PendingStays ==
  ASSUME TypeOK, Grows, handled' = handled, NEW s, Pending(s)
  PROVE  Pending(s)'
<1>1. PICK k \in Index : ~Done(k) /\ log[k].kind = "updated" /\ log[k].sub = s
  BY DEF Pending
<1>2. k \in Index' /\ log'[k] = log[k]
  BY DEF Grows, Index, TypeOK
<1> QED BY <1>1, <1>2 DEF Pending, Done

\* A step that handles no event and leaves the row's link, plan, flag and state.
LEMMA RowFollowsKept ==
  ASSUME TypeOK, Ledger, Grows, RowFollows, handled' = handled, invoice' = invoice,
         sub'.link = sub.link, sub'.plan = sub.plan, sub'.ends = sub.ends \/ Pending(sub.link),
         Says(sub)' = Says(sub), sub'.grace = "none" => sub.grace = "none"
  PROVE  RowFollows'
<1>1. Says(sub)' = "past_due" => sub'.grace # "none"
  BY DEF RowFollows
<1>2. Pending(sub.link) => Pending(sub.link)'
  BY PendingStays DEF Pending
<1>3. \A k \in EventId : Done(k)' <=> Done(k)
  BY DEF Done
<1>4. ASSUME NEW k \in EventId, Done(k)
      PROVE  /\ log'[k] = log[k]
             /\ Tells(k, sub.link)' <=> Tells(k, sub.link)
             /\ Shapes(k, sub.link)' <=> Shapes(k, sub.link)
  BY <1>4, DoneLogged DEF Tells, Shapes
<1>5. ASSUME NEW k \in EventId
      PROVE  /\ Done(k)' /\ log'[k].kind = "completed" => sub'.link # NoSub
             /\ StateFollows(k)'
             /\ PlanFollows(k)'
             /\ Done(k)' /\ log'[k].kind = "voided" => invoice'[log'[k].inv] # "paid"
  <2>1. Done(k)' /\ log'[k].kind = "completed" => sub'.link # NoSub
    BY <1>3, <1>4 DEF RowFollows
  <2>2. StateFollows(k)'
    BY <1>3, <1>4 DEF RowFollows, StateFollows
  <2>3. PlanFollows(k)'
    BY <1>2, <1>3, <1>4 DEF RowFollows, PlanFollows
  <2>4. Done(k)' /\ log'[k].kind = "voided" => invoice'[log'[k].inv] # "paid"
    BY <1>3, <1>4 DEF RowFollows
  <2> QED BY <2>1, <2>2, <2>3, <2>4
<1> QED BY <1>1, <1>5 DEF RowFollows

\* A step that leaves every request where it is, and what it has loaded.
LEMMA OrderlyStill ==
  ASSUME TypeOK, Grows, Orderly, handled' = handled, recorded' = recorded,
         op' = op, pc' = pc, ev' = ev, snap' = snap, sub' = sub
  PROVE  Orderly'
BY PendingStays DEF Orderly, Done, Pending

\* The end of a request that leaves no event recorded without its effect.
LEMMA OrderlyReleased ==
  ASSUME TypeOK, Holding, Grows, Orderly, NEW h \in Handlers, Release(h),
         handled' = handled, recorded' = recorded, ev[h] \notin recorded,
         op[h] # "none",
         sub'.link = sub.link, Says(sub)' = Says(sub)
  PROVE  Orderly'
<1>1. /\ op'[h] = "none" /\ pc'[h] = "idle"
      /\ \A g \in Handlers : g # h => /\ op'[g] = op[g] /\ pc'[g] = pc[g]
                                      /\ ev'[g] = ev[g] /\ snap'[g] = snap[g]
  BY DEF Release, TypeOK
<1>2. \A i \in EventId : Done(i)' <=> Done(i)
  BY DEF Done
<1>3. Pending(sub.link) => Pending(sub.link)'
  BY PendingStays DEF Pending
<1>4. ASSUME NEW i \in recorded' PROVE Done(i)' \/ \E g \in Handlers : ev'[g] = i
  BY <1>1 DEF Orderly, Done
<1>5. ASSUME NEW g \in Handlers, op'[g] = "webhook"
      PROVE  /\ \A f \in Handlers : op'[f] # "none" => f = g
             /\ \A i \in EventId : i < ev'[g] => Done(i)'
             /\ snap'[g] = sub'
  BY <1>1, <1>2, <1>5 DEF Orderly
<1>6. ASSUME NEW g \in Handlers, op'[g] # "none"
      PROVE  /\ snap'[g].link = sub'.link
             /\ pc'[g] = "expiring" => snap'[g].status = "past_due" /\ Says(sub)' = "past_due"
             /\ pc'[g] = "called" => Pending(sub.link)'
  BY <1>1, <1>3, <1>6 DEF Orderly
<1> QED BY <1>2, <1>4, <1>5, <1>6 DEF Orderly

\* The next event of the log has its effect on the row as it is.
LEMMA CommitFollows ==
  ASSUME TypeOK, TypeOK', Holding, Ledger, Links, Lookups, LogInv, CleanInv, Fresh, Numbered,
         Grows, NEW h \in Handlers, Commit(h), clean
  PROVE  Orderly' /\ RowFollows'
<1> DEFINE m == ev[h]
           e == log[m]
<1>1. /\ op[h] = "webhook" /\ pc[h] = "loaded" /\ sub' = Apply(h) /\ Release(h)
      /\ invoice' = InvoiceEffect(h) /\ recorded' = recorded \cup {m}
      /\ handled' = [handled EXCEPT ![m] = @ + 1] /\ log' = log
  BY DEF Commit, stripeVars
<1>2. m \in Index /\ m \in EventId /\ e \in Event /\ handled[m] = 0
  BY <1>1 DEF TypeOK, Holding, Ledger, EventId, Index
<1>3. Orderly /\ RowFollows /\ snap[h] = sub /\ sub \in Row
  BY <1>1 DEF CleanInv, Orderly, TypeOK
<1>4. \A g \in Handlers : op'[g] = "none" /\ (g # h => ev[g] = 0)
  BY <1>1, <1>3 DEF Orderly, Holding, Release, TypeOK
<1>5. \A k \in EventId : Done(k)' <=> Done(k) \/ k = m
  BY <1>1, <1>2 DEF Done, TypeOK
<1>6. \A k \in EventId : Done(k) => k < m
  <2>1. \A k \in EventId : k > m => ~Done(k)
    BY <1>2, <1>3 DEF Orderly, Done
  <2> QED BY <1>2, <2>1 DEF Done, EventId
<1>7. \A k \in EventId : k < m => Done(k)
  BY <1>1, <1>3 DEF Orderly
<1>8. Orderly'
  <2>1. ASSUME NEW i \in EventId, NEW j \in EventId, i < j, Done(j)' PROVE Done(i)'
    BY <1>2, <1>5, <1>6, <1>7, <2>1 DEF EventId
  <2>2. ASSUME NEW i \in recorded' PROVE Done(i)'
    <3>1. CASE i = m
      BY <1>2, <1>5, <3>1
    <3>2. CASE i # m
      <4>1. i \in recorded /\ i \in EventId /\ i # 0
        BY <1>1, <3>2 DEF TypeOK, EventId
      <4>2. Done(i)
        BY <1>3, <1>4, <3>2, <4>1 DEF Orderly
      <4> QED BY <1>5, <4>1, <4>2
    <3> QED BY <3>1, <3>2
  <2> QED BY <1>4, <2>1, <2>2 DEF Orderly
<1>15. /\ e.kind = "paid" => ~found[h]
       /\ e.kind = "voided" /\ ~found[h] => invoice[e.inv] = "none"
  BY <1>1, <1>2 DEF Lookups, Fresh, EventId
<1>16. invoice' = IF e.kind = "paid" /\ ~found[h] /\ snap[h].link = e.sub
                    THEN [invoice EXCEPT ![e.inv] = "paid"]
                  ELSE IF e.kind = "voided" /\ found[h] THEN [invoice EXCEPT ![e.inv] = "void"]
                  ELSE invoice
  BY <1>1 DEF InvoiceEffect
<1> HIDE DEF m, e
<1>9. sub' = Effect(e, sub)
  <2>1. Merge(sub, Effect(e, sub)) = Effect(e, sub) /\ Effect(e, sub) \in Row
    BY <1>2, <1>3, EffectType, MergeFresh
  <2>2. e.kind = "failed" /\ sub.link = e.sub =>
          [Effect(e, sub) EXCEPT !.grace = "running"] = Effect(e, sub)
    BY <1>3 DEF Effect, Row
  <2> QED BY <1>1, <1>3, <1>15, <2>1, <2>2 DEF Apply, e, m
<1>10. /\ \A k \in EventId, s \in Subs \cup {NoSub} :
            (Tells(k, s)' <=> Tells(k, s)) /\ (Shapes(k, s)' <=> Shapes(k, s))
       /\ sub.link \in Subs \cup {NoSub} /\ sub'.link \in Subs \cup {NoSub}
  BY <1>1, <1>3 DEF Tells, Shapes, TypeOK, Row
<1>11. ASSUME NEW k \in EventId, Done(k)', log'[k].kind = "voided"
       PROVE  invoice'[log'[k].inv] # "paid"
  <2>1. k \in Index /\ log'[k] = log[k] /\ log[k] \in Event
    BY <1>1, <1>2, <1>5, <1>11, DoneLogged DEF e
  <2>2. log[k].inv < k /\ log[k].inv \in EventId
    BY <1>11, <2>1 DEF LogInv, WellFormed, Numbered, Index, Event
  <2>3. e.kind = "paid" => e.inv = m
    BY <1>2 DEF LogInv, WellFormed, e
  <2>4. k = m \/ (Done(k) /\ k < m /\ invoice[log[k].inv] # "paid")
    BY <1>3, <1>5, <1>6, <1>11, <2>1 DEF RowFollows
  <2>5. e.kind = "paid" => log[k].inv # e.inv
    BY <1>2, <2>2, <2>3, <2>4 DEF EventId
  <2>6. CASE k = m
    <3>1. e = log[k] /\ e.kind = "voided"
      BY <1>11, <2>1, <2>6 DEF e
    <3> QED BY <1>15, <1>16, <2>1, <2>2, <3>1 DEF TypeOK
  <2>7. CASE k # m
    BY <1>16, <2>1, <2>2, <2>4, <2>5, <2>7 DEF TypeOK
  <2> QED BY <2>6, <2>7
<1>12. CASE e.kind = "completed"
  <2>1. sub' = [sub EXCEPT !.link = e.sub] /\ e.sub \in Subs
    BY <1>2, <1>9, <1>12 DEF Effect, Event
  <2>2. sub'.link = e.sub /\ sub'.status = sub.status /\ sub'.grace = sub.grace /\ sub'.link # NoSub
    BY <1>3, <2>1 DEF Row
  <2>3. ASSUME NEW k \in EventId, Done(k)' PROVE ~Tells(k, e.sub) /\ ~Shapes(k, e.sub)
    <3>1. k \in Index /\ k <= m
      BY <1>2, <1>5, <1>6, <2>3, DoneLogged DEF EventId
    <3>2. Tells(k, e.sub) => m < k
      BY <1>2, <1>12, <3>1 DEF LogInv, CompletedFirst, e
    <3>3. ~Tells(k, e.sub)
      BY <1>2, <3>1, <3>2 DEF EventId
    <3> QED BY <3>3 DEF Tells, Shapes, Telling, Shaping
  <2>4. ASSUME NEW k \in EventId PROVE StateFollows(k)' /\ PlanFollows(k)'
    BY <1>10, <2>1, <2>2, <2>3 DEF StateFollows, PlanFollows
  <2>5. Says(sub)' = "past_due" => sub'.grace # "none"
    BY <1>3, <2>2 DEF RowFollows, Says
  <2> QED BY <1>8, <1>11, <2>2, <2>4, <2>5 DEF RowFollows
<1>13. CASE e.kind # "completed" /\ (sub.link # e.sub \/ e.kind = "voided")
  <2>1. sub' = sub
    BY <1>9, <1>13 DEF Effect
  <2>2. ~Tells(m, sub.link) /\ ~Shapes(m, sub.link)
    BY <1>13 DEF Tells, Shapes, Telling, Shaping, e
  <2>3. Pending(sub.link) => Pending(sub.link)'
    <3>1. SUFFICES ASSUME Pending(sub.link) PROVE Pending(sub.link)'
      OBVIOUS
    <3>2. PICK k \in Index : ~Done(k) /\ log[k].kind = "updated" /\ log[k].sub = sub.link
      BY <3>1 DEF Pending
    <3>3. k # m /\ k \in EventId
      BY <2>2, <3>2 DEF Shapes, Shaping, Index, EventId, TypeOK
    <3> QED BY <1>1, <1>5, <2>1, <3>2, <3>3 DEF Pending, Index
  <2>4. ASSUME NEW k \in EventId PROVE StateFollows(k)'
    BY <1>1, <1>3, <1>5, <1>10, <2>1, <2>2 DEF StateFollows, RowFollows, Says
  <2>5. ASSUME NEW k \in EventId PROVE PlanFollows(k)'
    BY <1>1, <1>3, <1>5, <1>10, <2>1, <2>2, <2>3 DEF PlanFollows, RowFollows
  <2>6. ASSUME NEW k \in EventId, Done(k)', log'[k].kind = "completed" PROVE sub'.link # NoSub
    BY <1>1, <1>3, <1>5, <1>13, <2>1, <2>6 DEF RowFollows, e
  <2> QED BY <1>3, <1>8, <1>11, <2>1, <2>4, <2>5, <2>6 DEF RowFollows, Says
<1>14. CASE sub.link = e.sub /\ e.kind \in Telling
  <2>1. /\ sub'.link = sub.link /\ sub'.status = e.status
        /\ e.kind \in Shaping =>
             (sub'.plan = "pro" <=> e.kind = "updated") /\ sub'.ends = e.ends
        /\ e.kind \notin Shaping => sub'.plan = sub.plan /\ sub'.ends = sub.ends
        /\ e.kind = "failed" => sub'.grace # "none"
        /\ e.kind = "updated" /\ e.status = "past_due" => sub'.grace = sub.grace
    <3>1. WellFormed(m)
      BY <1>2 DEF LogInv
    <3>2. /\ e.kind = "failed" => e.status = "past_due"
          /\ e.kind = "paid" => e.status = "active"
          /\ e.kind = "deleted" => e.status = "canceled" /\ ~e.ends
      BY <3>1 DEF WellFormed, e
    <3>3. e.ends \in BOOLEAN
      BY <1>2 DEF Event
    <3> QED BY <1>3, <1>9, <1>14, <3>2, <3>3
            DEF Effect, OnUpdated, OnDeleted, Row, Telling, Shaping
  <2>2. Tells(m, sub.link) /\ (Shapes(m, sub.link) <=> e.kind \in Shaping)
    BY <1>14 DEF Tells, Shapes, e
  <2>3. e.status \in {"active", "past_due", "canceled"} /\ e.sub \in Subs /\ e.sub # NoSub
    BY <1>2 DEF Event
  <2>4. Says(sub)' = e.status
    BY <2>1, <2>3 DEF Says
  <2>5. ASSUME NEW k \in EventId PROVE StateFollows(k)'
    <3> SUFFICES ASSUME Done(k)', \A j \in EventId : Done(j)' /\ Tells(j, sub.link)' => j <= k
                 PROVE  log'[k].status = Says(sub)'
      BY DEF StateFollows
    <3>1. m <= k
      BY <1>2, <1>5, <1>10, <2>1, <2>2
    <3>2. k = m
      BY <1>2, <1>5, <1>6, <3>1 DEF EventId
    <3> QED BY <1>1, <2>4, <3>2 DEF e
  <2>6. e.kind # "updated" /\ Pending(sub.link) => Pending(sub.link)'
    <3>1. SUFFICES ASSUME e.kind # "updated", Pending(sub.link) PROVE Pending(sub.link)'
      OBVIOUS
    <3>2. PICK k \in Index : ~Done(k) /\ log[k].kind = "updated" /\ log[k].sub = sub.link
      BY <3>1 DEF Pending
    <3>3. k # m /\ k \in EventId
      BY <3>1, <3>2 DEF Index, EventId, TypeOK, e
    <3> QED BY <1>1, <1>5, <2>1, <3>2, <3>3 DEF Pending, Index
  <2>7. ASSUME NEW k \in EventId PROVE PlanFollows(k)'
    <3> SUFFICES ASSUME Done(k)', Shapes(k, sub.link)',
                        \A j \in EventId : Done(j)' /\ Shapes(j, sub.link)' => j <= k
                 PROVE  /\ sub'.plan = "pro" <=> log'[k].kind = "updated"
                        /\ sub'.ends = log'[k].ends \/ Pending(sub.link)'
      BY DEF PlanFollows
    <3>1. CASE e.kind \in Shaping
      <4>1. m <= k
        BY <1>2, <1>5, <1>10, <2>1, <2>2, <3>1
      <4>2. k = m
        BY <1>2, <1>5, <1>6, <4>1 DEF EventId
      <4> QED BY <1>1, <2>1, <3>1, <4>2 DEF e
    <3>2. CASE e.kind \notin Shaping
      <4>1. Shapes(k, sub.link) /\ k # m
        BY <1>10, <2>1, <2>2, <3>2
      <4>2. Done(k) /\ \A j \in EventId : Done(j) /\ Shapes(j, sub.link) => j <= k
        BY <1>5, <1>10, <2>1, <4>1
      <4>3. /\ sub.plan = "pro" <=> log[k].kind = "updated"
            /\ sub.ends = log[k].ends \/ Pending(sub.link)
        BY <1>3, <4>1, <4>2 DEF RowFollows, PlanFollows
      <4> QED BY <1>1, <2>1, <2>6, <3>2, <4>3 DEF Shaping
    <3> QED BY <3>1, <3>2
  <2>8. Says(sub)' = "past_due" => sub'.grace # "none"
    <3> SUFFICES ASSUME e.status = "past_due", e.kind = "updated" PROVE sub.grace # "none"
      <4>1. e.kind = "paid" => e.status = "active"
        BY <1>2 DEF LogInv, WellFormed, e
      <4>2. e.kind = "deleted" => e.status = "canceled"
        BY <1>2 DEF LogInv, WellFormed, e
      <4> QED BY <1>14, <2>1, <2>4, <4>1, <4>2 DEF Telling
    <3>1. PICK j \in 1..(m - 1) :
               /\ Tells(j, sub.link) /\ log[j].status = "past_due"
               /\ \A i \in 1..(m - 1) : Tells(i, sub.link) => i <= j
      BY <1>2, <1>14 DEF LogInv, OverdueTold, e
    <3>2. j \in EventId /\ j < m
      BY <1>2 DEF EventId
    <3>3. \A i \in EventId : Done(i) /\ Tells(i, sub.link) => i <= j
      BY <1>2, <1>6, <3>1 DEF EventId
    <3>4. Says(sub) = "past_due"
      BY <1>3, <1>7, <3>1, <3>2, <3>3 DEF RowFollows, StateFollows
    <3> QED BY <1>3, <3>4 DEF RowFollows
  <2> QED BY <1>8, <1>11, <2>1, <2>3, <2>5, <2>7, <2>8, <1>14 DEF RowFollows
<1> QED BY <1>2, <1>12, <1>13, <1>14 DEF Event, Telling

\* Whatever the program does, the row follows Stripe as long as nothing overtakes.
LEMMA CleanStep ==
  ASSUME TypeOK, TypeOK', Holding, Ledger, Links, Lookups, LogInv, CleanInv, Fresh, Numbered,
         Grows, [Next]_vars
  PROVE  CleanInv'
<1>1. ASSUME NEW s \in Subs, StripeCompletes(s) PROVE CleanInv'
  <2>1. clean' = clean /\ handled' = handled /\ recorded' = recorded /\ invoice' = invoice
        /\ sub' = sub /\ op' = op /\ pc' = pc /\ ev' = ev /\ snap' = snap
    BY <1>1 DEF StripeCompletes, reqVars, stripeVars
  <2> QED BY <2>1, OrderlyStill, RowFollowsKept DEF CleanInv, Says
<1>2. ASSUME NEW s \in Subs, StripeFails(s) PROVE CleanInv'
  <2>1. clean' = clean /\ handled' = handled /\ recorded' = recorded /\ invoice' = invoice
        /\ sub' = sub /\ op' = op /\ pc' = pc /\ ev' = ev /\ snap' = snap
    BY <1>2 DEF StripeFails, reqVars, stripeVars
  <2> QED BY <2>1, OrderlyStill, RowFollowsKept DEF CleanInv, Says
<1>3. ASSUME NEW s \in Subs, StripePays(s) PROVE CleanInv'
  <2>1. clean' = clean /\ handled' = handled /\ recorded' = recorded /\ invoice' = invoice
        /\ sub' = sub /\ op' = op /\ pc' = pc /\ ev' = ev /\ snap' = snap
    BY <1>3 DEF StripePays, reqVars, stripeVars
  <2> QED BY <2>1, OrderlyStill, RowFollowsKept DEF CleanInv, Says
<1>4. ASSUME NEW s \in Subs, StripeReports(s) PROVE CleanInv'
  <2>1. clean' = clean /\ handled' = handled /\ recorded' = recorded /\ invoice' = invoice
        /\ sub' = sub /\ op' = op /\ pc' = pc /\ ev' = ev /\ snap' = snap
    BY <1>4 DEF StripeReports, reqVars, stripeVars
  <2> QED BY <2>1, OrderlyStill, RowFollowsKept DEF CleanInv, Says
<1>5. ASSUME NEW s \in Subs, StripeEnds(s) PROVE CleanInv'
  <2>1. clean' = clean /\ handled' = handled /\ recorded' = recorded /\ invoice' = invoice
        /\ sub' = sub /\ op' = op /\ pc' = pc /\ ev' = ev /\ snap' = snap
    BY <1>5 DEF StripeEnds, reqVars, stripeVars
  <2> QED BY <2>1, OrderlyStill, RowFollowsKept DEF CleanInv, Says
<1>6. ASSUME NEW i \in EventId, StripeVoids(i) PROVE CleanInv'
  <2>1. clean' = clean /\ handled' = handled /\ recorded' = recorded /\ invoice' = invoice
        /\ sub' = sub /\ op' = op /\ pc' = pc /\ ev' = ev /\ snap' = snap
    BY <1>6 DEF StripeVoids, reqVars, stripeVars
  <2> QED BY <2>1, OrderlyStill, RowFollowsKept DEF CleanInv, Says
<1>7. ASSUME NEW i \in EventId, DeliverAgain(i) PROVE CleanInv'
  <2>1. clean' = clean /\ handled' = handled /\ recorded' = recorded /\ invoice' = invoice
        /\ sub' = sub /\ op' = op /\ pc' = pc /\ ev' = ev /\ snap' = snap
    BY <1>7 DEF DeliverAgain, reqVars, stripeVars
  <2> QED BY <2>1, OrderlyStill, RowFollowsKept DEF CleanInv, Says
<1>8. ASSUME NEW h \in Handlers, NEW i \in EventId, Deliver(h, i) PROVE CleanInv'
  <2> SUFFICES ASSUME clean' PROVE Orderly' /\ RowFollows'
    BY DEF CleanInv
  <2>1. /\ clean /\ 1..(i - 1) \subseteq recorded /\ \A g \in Handlers : op[g] = "none"
        /\ UNCHANGED <<sub, invoice, recorded, handled, log>>
        /\ Load(h, "webhook", i, log[i].kind = "completed")
    BY <1>8 DEF Deliver, stripeVars, Busy
  <2>2. Orderly /\ RowFollows
    BY <2>1 DEF CleanInv
  <2>3. RowFollows'
    BY <2>1, <2>2, RowFollowsKept DEF Says
  <2>4. \A j \in EventId : Done(j)' <=> Done(j)
    BY <2>1 DEF Done
  <2>5. \A j \in recorded : Done(j)
    <3>1. \A g \in Handlers : ev[g] = 0
      BY <2>1 DEF Holding
    <3> QED BY <2>2, <3>1 DEF Orderly, TypeOK, EventId
  <2>6. /\ op'[h] = "webhook" /\ ev'[h] = i /\ snap'[h] = sub
        /\ pc'[h] = "expiring" => Expired(sub)
        /\ pc'[h] # "called"
        /\ \A g \in Handlers : g # h => op'[g] = "none"
    BY <2>1 DEF Load, TypeOK
  <2>7. \A j \in EventId : j < i => j \in recorded
    BY <2>1 DEF EventId
  <2>8. \A j \in recorded' : Done(j)'
    BY <2>1, <2>5 DEF Done
  <2>9. \A g \in Handlers : op'[g] # "none" => g = h
    BY <2>6
  <2>10. /\ snap'[h].link = sub'.link
         /\ pc'[h] = "expiring" => snap'[h].status = "past_due" /\ Says(sub)' = "past_due"
    BY <2>1, <2>6 DEF Expired, Says
  <2> QED BY <2>2, <2>3, <2>4, <2>5, <2>6, <2>7, <2>8, <2>9, <2>10, <2>1 DEF Orderly
<1>9. ASSUME NEW h \in Handlers, NEW what \in ApiOp, Begin(h, what) PROVE CleanInv'
  <2> SUFFICES ASSUME clean' PROVE Orderly' /\ RowFollows'
    BY DEF CleanInv
  <2>1. /\ clean /\ op[h] = "none" /\ \A g \in Handlers : op[g] # "webhook"
        /\ UNCHANGED <<sub, invoice, recorded, handled, log>>
        /\ Load(h, what, 0, TRUE)
    BY <1>9 DEF Begin, stripeVars, Busy
  <2>2. Orderly /\ RowFollows
    BY <2>1 DEF CleanInv
  <2>3. RowFollows'
    BY <2>1, <2>2, RowFollowsKept DEF Says
  <2>4. \A j \in EventId : Done(j)' <=> Done(j)
    BY <2>1 DEF Done
  <2>5. /\ what # "webhook" /\ op'[h] = what /\ ev'[h] = 0 /\ snap'[h] = sub
        /\ pc'[h] = "expiring" => Expired(sub)
        /\ pc'[h] # "called"
        /\ \A g \in Handlers : g # h => /\ op'[g] = op[g] /\ pc'[g] = pc[g]
                                        /\ ev'[g] = ev[g] /\ snap'[g] = snap[g]
    BY <2>1 DEF Load, TypeOK, ApiOp
  <2>6. ASSUME NEW j \in recorded' PROVE Done(j)' \/ \E g \in Handlers : ev'[g] = j
    <3>1. j \in recorded /\ j # 0
      BY <2>1 DEF TypeOK, EventId
    <3>2. ev[h] = 0
      BY <2>1 DEF Holding
    <3> QED BY <2>1, <2>2, <2>5, <3>1, <3>2 DEF Orderly, Done
  <2>7. \A g \in Handlers : op'[g] # "webhook"
    BY <2>1, <2>5
  <2>8. ASSUME NEW g \in Handlers, op'[g] # "none"
        PROVE  /\ snap'[g].link = sub'.link
               /\ pc'[g] = "expiring" => snap'[g].status = "past_due" /\ Says(sub)' = "past_due"
               /\ pc'[g] = "called" => Pending(sub.link)'
    <3>1. CASE g = h
      BY <2>1, <2>5, <3>1 DEF Expired, Says
    <3>2. CASE g # h
      BY <2>1, <2>2, <2>5, <2>8, <3>2, PendingStays DEF Orderly, Says, Pending
    <3> QED BY <3>1, <3>2
  <2> QED BY <2>2, <2>3, <2>4, <2>6, <2>7, <2>8 DEF Orderly
<1>10. ASSUME NEW h \in Handlers, NEW s \in Subs, StartCheckout(h, s) PROVE CleanInv'
  <2>1. /\ Release(h) /\ op[h] \notin {"none", "webhook"}
        /\ UNCHANGED <<handled, recorded, sub, invoice, clean>>
    BY <1>10 DEF StartCheckout, ApiOp
  <2>2. ev[h] \notin recorded
    BY <2>1 DEF Holding, TypeOK, EventId
  <2> QED BY <2>1, <2>2, OrderlyReleased, RowFollowsKept DEF CleanInv, Says
<1>11. ASSUME NEW h \in Handlers, Expire(h) PROVE CleanInv'
  <2> DEFINE new == [snap[h] EXCEPT !.status = "suspended"]
  <2> SUFFICES ASSUME clean' PROVE Orderly' /\ RowFollows'
    BY DEF CleanInv
  <2>1. /\ clean /\ pc[h] = "expiring" /\ sub' = Merge(snap[h], new)
        /\ UNCHANGED <<invoice, op, ev, handled, log>>
        /\ snap' = [snap EXCEPT ![h].status = "suspended"]
        /\ pc' = [pc EXCEPT ![h] = "loaded"]
        /\ recorded' = IF op[h] = "webhook" THEN recorded \cup {ev[h]} ELSE recorded
    BY <1>11 DEF Expire, stripeVars
  <2>2. Orderly /\ RowFollows /\ op[h] # "none"
    BY <2>1 DEF CleanInv, Holding
  <2>3. /\ snap[h] \in Row /\ sub \in Row /\ new \in Row /\ new.status = "suspended"
        /\ new.plan = snap[h].plan /\ new.link = snap[h].link
        /\ new.ends = snap[h].ends /\ new.grace = snap[h].grace
    BY DEF TypeOK, Row
  <2>4. snap[h].status = "past_due" /\ Says(sub) = "past_due" /\ snap[h].link = sub.link
    BY <2>1, <2>2 DEF Orderly
  <2>5. /\ sub'.status = "suspended" /\ sub'.plan = sub.plan /\ sub'.link = sub.link
        /\ sub'.ends = sub.ends /\ sub'.grace = sub.grace
    BY <2>1, <2>3, <2>4, MergeIs, MergeColumns
  <2>6. Says(sub)' = Says(sub)
    BY <2>4, <2>5 DEF Says
  <2>7. RowFollows'
    BY <2>1, <2>2, <2>5, <2>6, RowFollowsKept
  <2>8. snap[h] = sub => snap'[h] = sub'
    <3>1. SUFFICES ASSUME snap[h] = sub PROVE snap'[h] = sub'
      OBVIOUS
    <3>2. sub' = new
      BY <2>1, <2>3, <3>1, MergeFresh
    <3> QED BY <2>1, <3>2 DEF TypeOK
  <2>9. /\ pc'[h] = "loaded" /\ snap'[h].link = snap[h].link
        /\ \A g \in Handlers : g # h => pc'[g] = pc[g] /\ snap'[g] = snap[g]
    BY <2>1 DEF TypeOK, Row
  <2>10. \A i \in EventId : Done(i)' <=> Done(i)
    BY <2>1 DEF Done
  <2>11. ASSUME NEW i \in recorded' PROVE Done(i)' \/ \E g \in Handlers : ev'[g] = i
    BY <2>1, <2>2 DEF Orderly, Done
  <2>12. ASSUME NEW g \in Handlers, op'[g] = "webhook"
         PROVE  /\ \A f \in Handlers : op'[f] # "none" => f = g
                /\ \A i \in EventId : i < ev'[g] => Done(i)'
                /\ snap'[g] = sub'
    <3>1. h = g
      BY <2>1, <2>2, <2>12 DEF Orderly
    <3> QED BY <2>1, <2>2, <2>8, <2>10, <2>12, <3>1 DEF Orderly
  <2>13. ASSUME NEW g \in Handlers, op'[g] # "none"
         PROVE  /\ snap'[g].link = sub'.link
                /\ pc'[g] = "expiring" => snap'[g].status = "past_due" /\ Says(sub)' = "past_due"
                /\ pc'[g] = "called" => Pending(sub.link)'
    <3>1. Pending(sub.link) => Pending(sub.link)'
      BY <2>1, <2>5, PendingStays DEF Pending
    <3>2. CASE g = h
      BY <2>2, <2>4, <2>5, <2>9, <3>2
    <3>3. CASE g # h
      BY <2>1, <2>2, <2>5, <2>6, <2>9, <2>13, <3>1, <3>3 DEF Orderly
    <3> QED BY <3>2, <3>3
  <2>14. Orderly'
    BY <2>2, <2>10, <2>11, <2>12, <2>13 DEF Orderly
  <2> QED BY <2>7, <2>14
<1>12. ASSUME NEW h \in Handlers, Commit(h) PROVE CleanInv'
  BY <1>12, CommitFollows DEF CleanInv, Commit
<1>13. ASSUME NEW h \in Handlers, Return(h) PROVE CleanInv'
  <2>1. /\ Release(h) /\ op[h] \notin {"none", "webhook"}
        /\ UNCHANGED <<handled, recorded, sub, invoice, clean>>
    BY <1>13 DEF Return, ApiOp
  <2>2. ev[h] \notin recorded
    BY <2>1 DEF Holding, TypeOK, EventId
  <2> QED BY <2>1, <2>2, OrderlyReleased, RowFollowsKept DEF CleanInv, Says
<1>14. ASSUME NEW h \in Handlers, CallStripe(h) PROVE CleanInv'
  <2> DEFINE s == snap[h].link
             e == Note("updated", s, stripe[s].state, op[h] = "cancel", 0)
  <2>1. CASE ~Alive(s)
    <3>1. /\ Release(h) /\ op[h] \in {"cancel", "resume"}
          /\ UNCHANGED <<handled, recorded, sub, invoice, clean>>
      BY <1>14, <2>1 DEF CallStripe
    <3>2. ev[h] \notin recorded
      <4>1. op[h] # "webhook"
        BY <3>1
      <4>2. ev[h] = 0
        BY <4>1 DEF Holding
      <4> QED BY <4>2 DEF TypeOK, EventId
    <3> QED BY <3>1, <3>2, OrderlyReleased, RowFollowsKept DEF CleanInv, Says
  <2>2. CASE Alive(s)
    <3>1. /\ s \in Subs /\ op[h] \in {"cancel", "resume"} /\ Send(<<e>>)
          /\ UNCHANGED <<handled, recorded, sub, invoice, clean, op, ev, snap>>
          /\ pc' = [pc EXCEPT ![h] = "called"]
      BY <1>14, <2>2 DEF CallStripe, TypeOK, Row
    <3> SUFFICES ASSUME clean' PROVE Orderly' /\ RowFollows'
      BY DEF CleanInv
    <3>2. Orderly /\ RowFollows
      BY <3>1 DEF CleanInv
    <3>3. e \in Event /\ e.kind = "updated" /\ e.sub = s
      BY <2>2, <3>1 DEF Note, Event, Alive
    <3>4. sub'.link = s
      BY <3>1, <3>2 DEF Orderly
    <3> HIDE DEF e, s
    <3>5. PICK n \in Nat : n = Len(log) + 1
      BY DEF TypeOK
    <3>6. n \in Index' /\ n \in EventId /\ n \notin 1..Len(log) /\ log'[n] = e
      BY <3>1, <3>3, <3>5, Appended DEF Index, EventId, TypeOK
    <3>7. ~Done(n)'
      BY <3>1, <3>6 DEF Done, Ledger
    <3>8. Pending(sub.link)'
      BY <3>3, <3>4, <3>6, <3>7 DEF Pending
    <3>9. RowFollows'
      BY <3>1, <3>2, RowFollowsKept DEF Says
    <3>10. \A g \in Handlers : pc'[g] = IF g = h THEN "called" ELSE pc[g]
      BY <3>1 DEF TypeOK
    <3>11. Orderly'
      BY <3>1, <3>2, <3>8, <3>10 DEF Orderly, Done, Says
    <3> QED BY <3>9, <3>11
  <2> QED BY <2>1, <2>2
<1>15. ASSUME NEW h \in Handlers, SetEnds(h) PROVE CleanInv'
  <2> DEFINE new == [snap[h] EXCEPT !.ends = (op[h] = "cancel")]
  <2> SUFFICES ASSUME clean' PROVE Orderly' /\ RowFollows'
    BY DEF CleanInv
  <2>1. /\ clean /\ pc[h] = "called" /\ Release(h) /\ sub' = Merge(snap[h], new)
        /\ UNCHANGED <<invoice, recorded, handled>>
    BY <1>15 DEF SetEnds
  <2>2. Orderly /\ RowFollows /\ op[h] \notin {"none", "webhook"} /\ ev[h] \notin recorded
    BY <2>1 DEF CleanInv, Holding, TypeOK, EventId
  <2>3. /\ snap[h] \in Row /\ sub \in Row /\ new \in Row /\ new.status = snap[h].status
        /\ new.plan = snap[h].plan /\ new.link = snap[h].link /\ new.grace = snap[h].grace
    BY DEF TypeOK, Row
  <2>4. /\ sub'.status = sub.status /\ sub'.plan = sub.plan /\ sub'.link = sub.link
        /\ sub'.grace = sub.grace
    BY <2>1, <2>3, MergeIs, MergeColumns
  <2>5. Says(sub)' = Says(sub)
    BY <2>4 DEF Says
  <2>6. Pending(sub.link)
    BY <2>1, <2>2 DEF Orderly
  <2>7. RowFollows'
    BY <2>1, <2>2, <2>4, <2>5, <2>6, RowFollowsKept
  <2>8. Orderly'
    BY <2>1, <2>2, <2>4, <2>5, OrderlyReleased
  <2> QED BY <2>7, <2>8
<1>16. ASSUME NEW h \in Handlers, Fail(h) PROVE CleanInv'
  <2>1. ev[h] \in recorded => op[h] = "webhook"
    BY DEF TypeOK, EventId, Holding
  <2> QED BY <1>16, <2>1, OrderlyReleased, RowFollowsKept DEF Fail, CleanInv, Says, Busy
<1>17. ASSUME GraceElapses PROVE CleanInv'
  <2> SUFFICES ASSUME clean' PROVE Orderly' /\ RowFollows'
    BY DEF CleanInv
  <2>1. /\ clean /\ sub.grace = "running" /\ sub' = [sub EXCEPT !.grace = "over"]
        /\ snap' = [g \in Handlers |->
                      IF snap[g].grace = "running" THEN [snap[g] EXCEPT !.grace = "over"] ELSE snap[g]]
        /\ UNCHANGED <<invoice, recorded, op, pc, ev, handled, log>>
    BY <1>17 DEF GraceElapses, stripeVars
  <2>2. Orderly /\ RowFollows
    BY <2>1 DEF CleanInv
  <2>3. /\ sub'.status = sub.status /\ sub'.plan = sub.plan /\ sub'.link = sub.link
        /\ sub'.ends = sub.ends /\ sub'.grace = "over"
    BY <2>1 DEF TypeOK, Row
  <2>4. RowFollows'
    BY <2>1, <2>2, <2>3, RowFollowsKept DEF Says
  <2>5. \A g \in Handlers : /\ snap'[g].link = snap[g].link /\ snap'[g].status = snap[g].status
                            /\ snap[g] = sub => snap'[g] = sub'
    BY <2>1 DEF TypeOK, Row
  <2>6. Pending(sub.link) => Pending(sub.link)'
    BY <2>1, <2>3, PendingStays DEF Pending
  <2>7. Orderly'
    BY <2>1, <2>2, <2>3, <2>5, <2>6 DEF Orderly, Done, Says
  <2> QED BY <2>4, <2>7
<1>18. CASE UNCHANGED vars
  <2>1. clean' = clean /\ handled' = handled /\ recorded' = recorded /\ invoice' = invoice
        /\ sub' = sub /\ op' = op /\ pc' = pc /\ ev' = ev /\ snap' = snap
    BY <1>18 DEF vars, reqVars, stripeVars
  <2> QED BY <2>1, OrderlyStill, RowFollowsKept DEF CleanInv, Says
<1> QED
  BY <1>1, <1>2, <1>3, <1>4, <1>5, <1>6, <1>7, <1>8, <1>9,
     <1>10, <1>11, <1>12, <1>13, <1>14, <1>15, <1>16, <1>17, <1>18 DEF Next

LEMMA FreshKept ==
  ASSUME TypeOK, Holding, Fresh, Grows, clean' => clean, invoice' = invoice,
         \A g \in Handlers : ev'[g] # 0 => ev'[g] = ev[g] /\ found'[g] = found[g]
  PROVE  Fresh'
<1>1. \A g \in Handlers : ev[g] # 0 => log'[ev[g]] = log[ev[g]]
  BY DEF TypeOK, Holding, EventId, Grows
<1> QED BY <1>1 DEF Fresh

\* Only a commit changes an invoice, and without overlap no other webhook is there.
LEMMA FreshStep ==
  ASSUME TypeOK, Holding, CleanInv, Fresh, Numbered, Grows, [Next]_vars
  PROVE  Fresh'
<1> USE DEF reqVars, stripeVars
<1>1. ASSUME NEW h \in Handlers, Release(h), invoice' = invoice, clean' => clean PROVE Fresh'
  BY <1>1, FreshKept DEF Release, TypeOK
<1>2. ASSUME UNCHANGED <<ev, found, invoice, clean>> PROVE Fresh'
  BY <1>2, FreshKept
<1>3. ASSUME NEW h \in Handlers, NEW i \in EventId, Deliver(h, i) PROVE Fresh'
  <2>1. /\ \A g \in Handlers : ev'[g] = IF g = h THEN i ELSE ev[g]
        /\ \A g \in Handlers : g # h => found'[g] = found[g]
        /\ found'[h] = (i # 0 /\ Booked(i))
        /\ i # 0 /\ clean' => clean
        /\ UNCHANGED <<invoice, log>>
    BY <1>3 DEF Deliver, Load, TypeOK, EventId
  <2>2. i # 0
    BY <1>3 DEF EventId
  <2> QED BY <2>1, <2>2 DEF Fresh, Booked
<1>4. ASSUME NEW h \in Handlers, NEW what \in ApiOp, Begin(h, what) PROVE Fresh'
  BY <1>4, FreshKept DEF Begin, Load, TypeOK
<1>5. ASSUME NEW h \in Handlers, Commit(h) PROVE Fresh'
  <2>1. ASSUME clean, NEW g \in Handlers PROVE ev'[g] = 0
    <3>1. op[h] = "webhook" /\ Release(h)
      BY <1>5 DEF Commit
    <3>2. op[g] # "none" => g = h
      BY <2>1, <3>1 DEF CleanInv, Orderly
    <3> QED BY <2>1, <3>1, <3>2 DEF Holding, Release, TypeOK
  <2> QED BY <1>5, <2>1 DEF Commit, Fresh
<1>6. ASSUME NEW h \in Handlers, CallStripe(h) PROVE Fresh'
  BY <1>1, <1>2, <1>6 DEF CallStripe
<1>7. ASSUME NEW s \in Subs,
             \/ StripeCompletes(s) \/ StripeFails(s) \/ StripePays(s) \/ StripeReports(s)
             \/ StripeEnds(s)
      PROVE  Fresh'
  BY <1>2, <1>7 DEF StripeCompletes, StripeFails, StripePays, StripeReports, StripeEnds
<1>8. ASSUME NEW h \in Handlers, NEW s \in Subs, StartCheckout(h, s) PROVE Fresh'
  BY <1>1, <1>8 DEF StartCheckout
<1>9. ASSUME NEW h \in Handlers, Return(h) \/ SetEnds(h) \/ Fail(h) PROVE Fresh'
  <2>1. Release(h) /\ invoice' = invoice
    BY <1>9 DEF Return, SetEnds, Fail
  <2>2. clean' => clean
    BY <1>9, Zenon DEF Return, SetEnds, Fail
  <2> QED BY <1>1, <2>1, <2>2
<1>10. ASSUME NEW h \in Handlers, Expire(h) PROVE Fresh'
  BY <1>2, <1>10 DEF Expire
<1>11. ASSUME NEW i \in EventId, StripeVoids(i) \/ DeliverAgain(i) PROVE Fresh'
  BY <1>2, <1>11 DEF StripeVoids, DeliverAgain
<1>12. CASE GraceElapses \/ UNCHANGED vars
  BY <1>2, <1>12 DEF GraceElapses, vars
<1> QED
  BY <1>3, <1>4, <1>5, <1>6, <1>7, <1>8, <1>9, <1>10, <1>11, <1>12 DEF Next

\* A quiet ledger without reordering: the row is what Stripe's log says.
LEMMA QuietFollows ==
  ASSUME TypeOK, Holding, Ledger, Links, LogInv, CleanInv
  PROVE  FollowsStripe
<1> SUFFICES ASSUME clean, recorded = 1..Len(log), \A h \in Handlers : ~Busy(h)
             PROVE  /\ sub.link = NoSub <=> \A s \in Subs : stripe[s].state \in {"none", "open"}
                    /\ sub.link # NoSub =>
                         /\ sub.plan = "pro" <=> Alive(sub.link)
                         /\ stripe[sub.link].state = "past_due" <=> sub.status \in {"past_due", "suspended"}
                         /\ stripe[sub.link].state = "active" <=> sub.status = "active"
                         /\ sub.ends = stripe[sub.link].ends
                         /\ sub.status = "past_due" => sub.grace # "none"
                    /\ \A i \in EventId :
                         (\E k \in 1..Len(log) : log[k].kind = "voided" /\ log[k].inv = i)
                           /\ invoice[i] # "none" => invoice[i] = "void"
  BY DEF FollowsStripe
<1>1. Orderly /\ RowFollows
  BY DEF CleanInv
<1>2. \A k \in Index : k \in EventId /\ Done(k)
  <2>1. \A h \in Handlers : ev[h] = 0
    BY DEF Holding, Busy
  <2> QED BY <1>1, <2>1 DEF Orderly, Index, EventId, TypeOK
<1>3. \A k \in EventId : Done(k) => k \in Index
  BY DEF Ledger, Done, Index
<1>4. ASSUME NEW s \in Subs, sub.link = NoSub PROVE ~Started(s)
  <2>1. SUFFICES ASSUME Started(s) PROVE FALSE
    OBVIOUS
  <2>2. PICK k \in Index : log[k].kind = "completed"
    BY <2>1 DEF LogInv, Truthful
  <2> QED BY <1>1, <1>2, <1>4, <2>2 DEF RowFollows
<1>5. sub.link # NoSub => sub.link \in Subs /\ Started(sub.link)
  BY DEF Links, LinkSound, TypeOK, Row
<1>6. sub.link = NoSub <=> \A s \in Subs : stripe[s].state \in {"none", "open"}
  BY <1>4, <1>5 DEF Started
<1>7. ASSUME sub.link # NoSub
      PROVE  /\ sub.plan = "pro" <=> Alive(sub.link)
             /\ stripe[sub.link].state = Says(sub)
             /\ sub.ends = stripe[sub.link].ends
  <2>1. Truthful(sub.link)
    BY <1>5, <1>7 DEF LogInv
  <2>2. PICK k \in Index : /\ Tells(k, sub.link) /\ log[k].status = stripe[sub.link].state
                           /\ \A j \in Index : Tells(j, sub.link) => j <= k
    BY <2>1 DEF Truthful
  <2>3. PICK i \in Index : /\ Shapes(i, sub.link) /\ log[i].ends = stripe[sub.link].ends
                           /\ log[i].kind = "updated" <=> stripe[sub.link].state \in {"active", "past_due"}
                           /\ \A j \in Index : Shapes(j, sub.link) => j <= i
    BY <2>1 DEF Truthful
  <2>4. ~Pending(sub.link)
    BY <1>2 DEF Pending
  <2>5. log[k].status = Says(sub)
    BY <1>1, <1>2, <1>3, <2>2 DEF RowFollows, StateFollows
  <2>6. (sub.plan = "pro" <=> log[i].kind = "updated") /\ sub.ends = log[i].ends
    BY <1>1, <1>2, <1>3, <2>3, <2>4 DEF RowFollows, PlanFollows
  <2> QED BY <2>2, <2>3, <2>5, <2>6 DEF Alive
<1>8. sub.status = "past_due" => sub.grace # "none"
  BY <1>1 DEF RowFollows, Says
<1>9. ASSUME NEW i \in EventId, NEW k \in 1..Len(log), log[k].kind = "voided", log[k].inv = i,
             invoice[i] # "none"
      PROVE  invoice[i] = "void"
  BY <1>1, <1>2, <1>9 DEF RowFollows, TypeOK, Index
<1> QED BY <1>6, <1>7, <1>8, <1>9 DEF Says

-----------------------------------------------------------------------------
(* The theorems                                                            *)

\* Types, requests, ledger and links stay sound for every reachable state.
THEOREM Invariance == Spec => []IInv
<1>1. Init => IInv
  BY DEF Init, IInv, TypeOK, Numbered, Holding, Ledger, Links, Lookups, LinkSound, FreeRow, Row,
         Stripe, ApiOp, EventId
<1>2. IInv /\ [Next]_vars => IInv'
  <2> SUFFICES ASSUME IInv, [Next]_vars PROVE IInv'
    OBVIOUS
  <2>1. TypeOK /\ Numbered /\ Holding /\ Ledger /\ Links /\ Lookups
    BY DEF IInv
  <2>2. Grows
    BY <2>1, LogGrows
  <2>3. TypeOK'
    BY <2>1, TypeStep
  <2>4. Numbered' /\ Holding' /\ Ledger'
    BY <2>1, <2>2, NumberedStep, HoldingStep, LedgerStep
  <2>5. Links'
    BY <2>1, <2>2, <2>3, LinksStep
  <2>6. Lookups'
    BY <2>1, <2>2, LookupsStep
  <2> QED BY <2>3, <2>4, <2>5, <2>6 DEF IInv
<1> QED BY <1>1, <1>2, PTL DEF Spec

\* Every webhook and request writes values of the columns' types.
THEOREM TypeCorrect == Spec => []TypeOK
<1>1. IInv => TypeOK
  BY DEF IInv
<1> QED BY <1>1, Invariance, PTL

\* Repeated and concurrent deliveries have their effect once.
THEOREM EffectOnce == Spec => []AppliedOnce
<1>1. IInv => AppliedOnce
  BY DEF IInv, Ledger, AppliedOnce
<1> QED BY <1>1, Invariance, PTL

\* What Stripe will not send again has had its effect.
THEOREM AnsweredApplied == Spec => []NothingLost
<1>1. IInv => NothingLost
  BY DEF IInv, Ledger, NothingLost
<1> QED BY <1>1, Invariance, PTL

\* A paid plan always has a started subscription at Stripe behind it.
THEOREM PaidPlanIsCharged == Spec => []PaidIsLinked
<1>1. IInv => PaidIsLinked
  BY DEF IInv, Links, LinkSound, Started, PaidIsLinked
<1> QED BY <1>1, Invariance, PTL

\* Without reordering and overlap, the row follows Stripe: the subscription, its plan,
\* state and pending end, and the voided invoices.
THEOREM RowFollowsStripe == Spec => []FollowsStripe
<1>1. Init => LogInv /\ CleanInv /\ Fresh
  <2> SUFFICES ASSUME Init PROVE LogInv /\ CleanInv /\ Fresh
    OBVIOUS
  <2>1. LogInv
    BY DEF Init, LogInv, Started, CompletedFirst, Index
  <2>2. Orderly
    BY DEF Init, Orderly, Done
  <2>3. RowFollows
    BY DEF Init, RowFollows, StateFollows, PlanFollows, Done, Says, FreeRow
  <2>4. Fresh
    BY DEF Init, Fresh
  <2> QED BY <2>1, <2>2, <2>3, <2>4 DEF CleanInv
<1>2. IInv /\ IInv' /\ LogInv /\ CleanInv /\ Fresh /\ [Next]_vars => LogInv' /\ CleanInv' /\ Fresh'
  BY LogGrows, LogInvStep, CleanStep, FreshStep DEF IInv
<1>3. IInv /\ LogInv /\ CleanInv => FollowsStripe
  BY QuietFollows DEF IInv
<1> QED BY <1>1, <1>2, <1>3, Invariance, PTL DEF Spec

-----------------------------------------------------------------------------
(* The refinement of Inbox                                                 *)

Taken == {ev[h] : h \in Handlers} \ {0}
Applied == {i \in EventId : handled[i] = 1}
Known == {ev[h] : h \in {g \in Handlers : found[g]}}

\* A request that ends takes its event with it, since no other has it.
LEMMA TakenReleased ==
  ASSUME IInv, NEW h \in Handlers, Release(h)
  PROVE  Taken' = Taken \ {ev[h]} /\ Known' = Known \ {ev[h]}
<1>1. \A g \in Handlers : /\ ev'[g] = IF g = h THEN 0 ELSE ev[g]
                          /\ found'[g] = IF g = h THEN FALSE ELSE found[g]
  BY DEF Release, IInv, TypeOK
<1>2. \A g \in Handlers : ev[g] = ev[h] /\ ev[g] # 0 => g = h
  BY DEF IInv, Holding
<1>3. \A g \in Handlers : found[g] => ev[g] # 0
  BY DEF IInv, Lookups
<1>4. Taken' = Taken \ {ev[h]}
  BY <1>1, <1>2 DEF Taken
<1>5. Known' = Known \ {ev[h]}
  BY <1>1, <1>2, <1>3 DEF Known
<1> QED BY <1>4, <1>5

LEMMA TakenLoaded ==
  ASSUME IInv, NEW h \in Handlers, ~Busy(h), NEW what, NEW i \in EventId \cup {0}, NEW x,
         Load(h, what, i, x)
  PROVE  /\ Taken' = (Taken \cup {i}) \ {0}
         /\ Known' = IF i # 0 /\ Booked(i) THEN Known \cup {i} ELSE Known
<1>1. \A g \in Handlers : /\ ev'[g] = IF g = h THEN i ELSE ev[g]
                          /\ found'[g] = IF g = h THEN i # 0 /\ Booked(i) ELSE found[g]
  BY DEF Load, IInv, TypeOK
<1>2. ev[h] = 0 /\ ~found[h]
  BY DEF Busy, IInv, Holding, Lookups
<1>3. Taken' = (Taken \cup {i}) \ {0}
  BY <1>1, <1>2 DEF Taken
<1>4. Known' = IF i # 0 /\ Booked(i) THEN Known \cup {i} ELSE Known
  BY <1>1, <1>2 DEF Known
<1> QED BY <1>3, <1>4

\* A step of Stripe's, or one that no event has to do with.
LEMMA LogOnly ==
  ASSUME Grows, Taken' = Taken, Known' = Known, UNCHANGED <<recorded, handled, acked, invoice>>
  PROVE  EventInbox!Next
BY DEF Grows, Taken, Known, EventInbox!Send, EventInbox!Next

\* The last commit of a webhook request: effect, record and answer in one step.
LEMMA CommitApplies ==
  ASSUME IInv, NEW h \in Handlers, Commit(h)
  PROVE  EventInbox!Next
<1>1. PICK i \in 1..MaxEvents : i = ev[h]
  BY DEF Commit, IInv, TypeOK, Holding, EventId
<1>2. i <= Len(log) /\ i \in Taken /\ i # 0 /\ handled[i] = 0
  BY <1>1 DEF IInv, Holding, Ledger, Taken
<1>3. log[i] \in Event /\ snap[h] \in Row
  BY <1>1, <1>2 DEF IInv, TypeOK
<1>4. Taken' = Taken \ {i} /\ Known' = Known \ {i}
  BY <1>1, TakenReleased DEF Commit
<1>5. Applied' = Applied \cup {i}
  BY <1>1, <1>2 DEF Commit, Applied, IInv, TypeOK, EventId
<1>6. found[h] <=> i \in Known
  BY <1>1, <1>2 DEF Known, IInv, Holding
<1>7. EventInbox!Book(i)
  <2> DEFINE e == log[i]
  <2>1. invoice' = IF e.kind = "paid" /\ ~found[h] /\ snap[h].link = e.sub
                     THEN [invoice EXCEPT ![e.inv] = "paid"]
                   ELSE IF e.kind = "voided" /\ found[h] THEN [invoice EXCEPT ![e.inv] = "void"]
                   ELSE invoice
    BY <1>1 DEF Commit, InvoiceEffect
  <2>2. e.kind = "paid" => invoice[e.inv] = "none"
    <3>1. e.kind = "paid" => e.inv = i
      BY <1>1, <1>2 DEF IInv, Numbered, TypeOK, EventId
    <3> QED BY <1>1, <1>2, <3>1 DEF IInv, Lookups, EventId
  <2> QED BY <1>6, <2>1, <2>2 DEF EventInbox!Book, Known
<1>8. i \notin Applied
  BY <1>2 DEF Applied
<1>9. UNCHANGED log /\ recorded' = recorded \cup {i} /\ acked' = acked \cup {i}
  BY <1>1 DEF Commit, stripeVars
<1>10. EventInbox!Apply(i)
  BY <1>2, <1>4, <1>5, <1>7, <1>8, <1>9 DEF EventInbox!Apply, Taken, Applied, Known
<1> QED BY <1>10 DEF EventInbox!Next

\* Every step of Stripe and of the requests is one of the inbox, or none.
LEMMA InboxStep ==
  ASSUME IInv, [Next]_vars
  PROVE  [EventInbox!Next]_(EventInbox!vars)
<1> USE DEF reqVars, stripeVars
<1>1. Grows
  BY LogGrows DEF IInv
<1>2. ASSUME NEW s \in Subs,
             \/ StripeCompletes(s) \/ StripeFails(s) \/ StripePays(s) \/ StripeReports(s)
             \/ StripeEnds(s)
      PROVE  EventInbox!Next
  <2>1. UNCHANGED <<ev, found, recorded, handled, acked, invoice>>
    BY <1>2 DEF StripeCompletes, StripeFails, StripePays, StripeReports, StripeEnds
  <2> QED BY <1>1, <2>1, LogOnly DEF Taken, Known
<1>3. ASSUME NEW i \in EventId, StripeVoids(i) PROVE EventInbox!Next
  BY <1>1, <1>3, LogOnly DEF StripeVoids, Taken, Known
<1>4. ASSUME NEW i \in EventId, DeliverAgain(i) PROVE EventInbox!Next
  <2>1. EventInbox!Answer(i)
    BY <1>4 DEF DeliverAgain, EventInbox!Answer, Known
  <2> QED BY <2>1 DEF EventInbox!Next, EventId
<1>5. ASSUME NEW h \in Handlers, NEW i \in EventId, Deliver(h, i) PROVE EventInbox!Next
  <2>1. Taken' = Taken \cup {i} /\ Known' = IF Booked(i) THEN Known \cup {i} ELSE Known
    <3>1. /\ Taken' = (Taken \cup {i}) \ {0}
          /\ Known' = IF i # 0 /\ Booked(i) THEN Known \cup {i} ELSE Known
      BY <1>5, TakenLoaded DEF Deliver
    <3> QED BY <3>1 DEF Taken, EventId
  <2>2. i \notin Taken /\ i \notin recorded /\ i <= Len(log)
    BY <1>5 DEF Deliver, Taken
  <2>3. EventInbox!Take(i)
    BY <1>5, <2>1, <2>2 DEF Deliver, EventInbox!Take, EventInbox!Booked, Booked, Taken, Known
  <2> QED BY <2>3 DEF EventInbox!Next, EventId
<1>6. ASSUME NEW h \in Handlers, NEW what \in ApiOp, Begin(h, what) PROVE EventInbox!Next
  <2>1. Taken' = (Taken \cup {0}) \ {0} /\ Known' = Known
    BY <1>6, TakenLoaded DEF Begin
  <2>2. Taken' = Taken
    BY <2>1 DEF Taken
  <2> QED BY <1>1, <1>6, <2>1, <2>2, LogOnly DEF Begin
<1>7. ASSUME NEW h \in Handlers, Expire(h) PROVE EventInbox!Next
  <2>1. CASE op[h] = "webhook"
    <3>1. PICK i \in EventId : i = ev[h]
      BY <2>1 DEF IInv, TypeOK, Holding
    <3>2. i \in Taken /\ log[i].kind = "completed"
      BY <1>7, <2>1, <3>1 DEF Expire, Taken, IInv, Holding, EventId
    <3>3. EventInbox!RecordEarly(i)
      BY <1>7, <2>1, <3>1, <3>2 DEF Expire, EventInbox!RecordEarly, Taken, Known
    <3> QED BY <3>3 DEF EventInbox!Next, EventId
  <2>2. CASE op[h] # "webhook"
    BY <1>1, <1>7, <2>2, LogOnly DEF Expire, Taken, Known
  <2> QED BY <2>1, <2>2
<1>8. ASSUME NEW h \in Handlers, ev[h] = 0, Release(h) \/ UNCHANGED <<ev, found>>,
             UNCHANGED <<recorded, handled, acked, invoice>>
      PROVE  EventInbox!Next
  <2>1. Taken' = Taken /\ Known' = Known
    <3>1. 0 \notin Taken /\ 0 \notin Known
      BY DEF Taken, Known, IInv, Lookups
    <3>2. CASE Release(h)
      BY <1>8, <3>1, <3>2, TakenReleased
    <3> QED BY <1>8, <3>2 DEF Taken, Known
  <2> QED BY <1>1, <1>8, <2>1, LogOnly
<1>9. ASSUME NEW h \in Handlers, Return(h) \/ CallStripe(h) \/ SetEnds(h) PROVE EventInbox!Next
  <2>1. ev[h] = 0
    BY <1>9 DEF Return, CallStripe, SetEnds, ApiOp, IInv, Holding
  <2>2. Release(h) \/ UNCHANGED <<ev, found>>
    BY <1>9 DEF Return, CallStripe, SetEnds
  <2>3. UNCHANGED <<recorded, handled, acked, invoice>>
    BY <1>9 DEF Return, CallStripe, SetEnds
  <2> QED BY <1>8, <2>1, <2>2, <2>3
<1>10. ASSUME NEW h \in Handlers, NEW s \in Subs, StartCheckout(h, s) PROVE EventInbox!Next
  <2>1. ev[h] = 0
    BY <1>10 DEF StartCheckout, IInv, Holding
  <2> QED BY <1>8, <1>10, <2>1 DEF StartCheckout
<1>11. ASSUME NEW h \in Handlers, Fail(h) PROVE EventInbox!Next
  <2>1. CASE ev[h] = 0
    BY <1>8, <1>11, <2>1 DEF Fail
  <2>2. CASE ev[h] # 0
    <3>1. PICK i \in EventId : i = ev[h]
      BY <2>2 DEF IInv, TypeOK
    <3>2. i \in Taken /\ Taken' = Taken \ {i} /\ Known' = Known \ {i}
      BY <1>11, <2>2, <3>1, TakenReleased DEF Fail, Taken
    <3>3. EventInbox!Drop(i)
      BY <1>11, <3>2 DEF Fail, EventInbox!Drop, Taken, Known
    <3> QED BY <3>3 DEF EventInbox!Next, EventId
  <2> QED BY <2>1, <2>2
<1>12. CASE GraceElapses \/ UNCHANGED vars
  BY <1>1, <1>12, LogOnly DEF GraceElapses, vars, Taken, Known
<1> QED
  BY <1>2, <1>3, <1>4, <1>5, <1>6, <1>7, <1>9, <1>10, <1>11, <1>12, CommitApplies DEF Next

\* Reservations, the row's early commit and the last commits implement the promise of
\* Inbox: an event is applied, recorded and answered by one delivery in one step.
THEOREM Refinement == Spec => InboxSpec
<1>1. Init => EventInbox!Init
  BY DEF Init, EventInbox!Init, EventId
<1> QED
  BY <1>1, InboxStep, Invariance, PTL DEF Spec, InboxSpec, EventInbox!Spec
=============================================================================
