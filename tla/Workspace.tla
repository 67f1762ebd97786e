----------------------------- MODULE Workspace -----------------------------
(***************************************************************************)
(* Two kinds of rows the people of one organisation edit together: its     *)
(* offices, one of them the primary one, and the review of a variation     *)
(* with its audit trail.  A request reads in statements of their own,      *)
(* decides and later commits its UPDATEs by primary key, in the columns it *)
(* means to change.                                                        *)
(***************************************************************************)
EXTENDS Naturals

CONSTANTS
  Offices,      \* office ids; a deleted one is not used again
  Reviewers,
  Editors,      \* office requests in flight together
  Deciders,     \* review requests in flight together
  Nobody,
  MaxReviews    \* bound: decisions on the variation

ASSUME WorkspaceConstants ==
  /\ Nobody \notin Reviewers \cup Offices
  /\ MaxReviews \in Nat

VARIABLES
  office,         \* offices
  edit,           \* what each office request is about to write
  officesSkewed,  \* history: an office request committed on an outdated reading
  review,         \* review_status and reviewed_by of the variation
  trail,          \* its audit_log rows
  decide,         \* what each review request read and is about to write
  decisions       \* decisions committed so far: the time, as the audit rows tell it

officeVars == <<office, edit, officesSkewed>>
reviewVars == <<review, trail, decide, decisions>>
workspaceVars == <<officeVars, reviewVars>>

ReviewStatus == {"pending", "confirmed", "rejected"}
NoEdit == [op |-> "none", office |-> Nobody, primary |-> FALSE, ready |-> FALSE,
           demote |-> {}, promote |-> Nobody, stale |-> FALSE]
NoDecision == [by |-> Nobody, began |-> 0, loaded |-> FALSE, status |-> "pending",
               old |-> "pending", oldBy |-> Nobody]

\* An audit row has its transaction's start as created_at; committed is history.
TrailRow == [created : 0..MaxReviews, committed : 0..MaxReviews, by : Reviewers,
             before : ReviewStatus, after : ReviewStatus]

WorkspaceTypeOK ==
  /\ office \in [Offices -> {"new", "plain", "primary", "deleted"}]
  /\ edit \in [Editors ->
       [op : {"none", "create", "promote", "delete"}, office : Offices \cup {Nobody},
        primary : BOOLEAN, ready : BOOLEAN, demote : SUBSET Offices,
        promote : Offices \cup {Nobody}, stale : BOOLEAN]]
  /\ officesSkewed \in BOOLEAN
  /\ review \in [status : ReviewStatus, by : Reviewers \cup {Nobody}]
  /\ trail \subseteq TrailRow
  /\ decide \in [Deciders ->
       [by : Reviewers \cup {Nobody}, began : 0..MaxReviews, loaded : BOOLEAN,
        status : ReviewStatus, old : ReviewStatus, oldBy : Reviewers \cup {Nobody}]]
  /\ decisions \in 0..MaxReviews

WorkspaceInit ==
  /\ office = [o \in Offices |-> "new"]
  /\ edit = [h \in Editors |-> NoEdit]
  /\ officesSkewed = FALSE
  /\ review = [status |-> "pending", by |-> Nobody]
  /\ trail = {}
  /\ decide = [h \in Deciders |-> NoDecision]
  /\ decisions = 0

-----------------------------------------------------------------------------
(* Offices                                                                 *)

Primary(o) == office[o] = "primary"
Exists(o) == office[o] \in {"plain", "primary"}

BeginEdit(h, e) ==
  /\ edit[h].op = "none"
  /\ edit' = [edit EXCEPT ![h] = e]
  /\ UNCHANGED <<office, officesSkewed, reviewVars>>

\* The first statement reads the office, or whether there is one: the first office
\* is the primary one.
BeginCreate(h, o, wanted) ==
  /\ office[o] = "new"
  /\ \A g \in Editors : edit[g].office # o
  /\ BeginEdit(h, [NoEdit EXCEPT !.op = "create", !.office = o,
                     !.primary = wanted \/ \A p \in Offices : ~Exists(p)])

\* update_office with is_primary (a primary office cannot be unset), delete_office.
BeginChange(h, o, op) ==
  /\ Exists(o)
  /\ BeginEdit(h, [NoEdit EXCEPT !.op = op, !.office = o, !.primary = Primary(o)])

\* The second statement reads the other offices, and the request decides.
Plan(h, demote, promote) ==
  /\ edit' = [edit EXCEPT ![h] =
                 [@ EXCEPT !.ready = TRUE, !.demote = demote, !.promote = promote]]
  /\ UNCHANGED <<office, officesSkewed, reviewVars>>

Undecided(h, op) == edit[h].op = op /\ ~edit[h].ready

\* A new primary office demotes the others.
PlanCreate(h) ==
  LET e == edit[h]
  IN  /\ Undecided(h, "create")
      /\ IF e.primary THEN Plan(h, {p \in Offices : Primary(p)}, e.office) ELSE Plan(h, {}, Nobody)

\* So does one that was primary already when it was read; it is not written itself.
PlanPromote(h) ==
  LET e == edit[h]
  IN  /\ Undecided(h, "promote")
      /\ Plan(h, {p \in Offices : Primary(p) /\ p # e.office}, IF e.primary THEN Nobody ELSE e.office)

\* Mutation: the heir of a deleted primary office is forgotten.
PlanDeleteForgetting(h, heir) ==
  /\ Undecided(h, "delete")
  /\ Plan(h, {}, Nobody)

\* The first of the remaining offices inherits from a primary one.  Primary offices
\* are listed first, and nothing is written when the first one is primary already.
PlanDelete(h, heir) ==
  LET e == edit[h]
      remaining == {p \in Offices : Exists(p) /\ p # e.office}
  IN  /\ Undecided(h, "delete")
      /\ IF e.primary /\ remaining # {} /\ (\A p \in remaining : ~Primary(p))
         THEN heir \in remaining
         ELSE heir = Nobody
      /\ Plan(h, {}, heir)

\* What the flushed statements make of the table.
Edited(e) ==
  [o \in Offices |->
     IF o = e.office /\ e.op = "delete" THEN "deleted"
     ELSE IF o = e.promote THEN "primary"
     ELSE IF o \in e.demote \/ (o = e.office /\ e.op = "create") THEN "plain"
     ELSE office[o]]

\* An UPDATE of a deleted row fails, and so does a second primary office: the
\* request is then rolled back (GiveUp).
CommitEdit(h) ==
  LET e == edit[h]
  IN  /\ e.ready
      /\ \A o \in e.demote : office[o] # "deleted"
      /\ e.promote # Nobody => office[e.promote] # "deleted"
      /\ \A o, p \in Offices : Edited(e)[o] = "primary" /\ Edited(e)[p] = "primary" => o = p
      /\ office' = Edited(e)
      /\ officesSkewed' = (officesSkewed \/ e.stale)
      /\ edit' = [g \in Editors |->
                    IF g = h THEN NoEdit
                    ELSE IF edit[g].op = "none" THEN edit[g] ELSE [edit[g] EXCEPT !.stale = TRUE]]
      /\ UNCHANGED reviewVars

GiveUp(h) ==
  /\ edit[h].op # "none"
  /\ edit' = [edit EXCEPT ![h] = NoEdit]
  /\ UNCHANGED <<office, officesSkewed, reviewVars>>

-----------------------------------------------------------------------------
(* Review                                                                  *)

Transitions ==
  [pending |-> {"confirmed", "rejected"},
   confirmed |-> {"rejected", "pending"},
   rejected |-> {"confirmed", "pending"}]

\* Reading the user opens the transaction.
OpenReview(h, u) ==
  /\ decide[h].by = Nobody
  /\ decisions < MaxReviews
  /\ decide' = [decide EXCEPT ![h] = [NoDecision EXCEPT !.by = u, !.began = decisions]]
  /\ UNCHANGED <<review, trail, decisions, officeVars>>

\* The next statement reads the variation, and the transition is checked.
LoadReview(h, new) ==
  /\ decide[h].by # Nobody
  /\ ~decide[h].loaded
  /\ new \in Transitions[review.status]
  /\ decide' = [decide EXCEPT ![h] =
                   [@ EXCEPT !.loaded = TRUE, !.status = new, !.old = review.status,
                             !.oldBy = review.by]]
  /\ UNCHANGED <<review, trail, decisions, officeVars>>

\* Mutation: a reopened variation keeps its reviewer.
NewReviewerKept(d) == d.by

NewReviewer(d) == IF d.status = "pending" THEN Nobody ELSE d.by

\* set_review_status: a reviewer that does not change is not written.
CommitReview(h) ==
  LET d == decide[h]
  IN  /\ d.loaded
      /\ decisions < MaxReviews
      /\ review' = [status |-> d.status,
                    by |-> IF NewReviewer(d) = d.oldBy THEN review.by ELSE NewReviewer(d)]
      /\ trail' = trail \cup {[created |-> d.began, committed |-> decisions + 1, by |-> d.by,
                               before |-> d.old, after |-> d.status]}
      /\ decisions' = decisions + 1
      /\ decide' = [decide EXCEPT ![h] = NoDecision]
      /\ UNCHANGED officeVars

\* The transition was not allowed, or the request failed.
Withdraw(h) ==
  /\ decide[h].by # Nobody
  /\ decide' = [decide EXCEPT ![h] = NoDecision]
  /\ UNCHANGED <<review, trail, decisions, officeVars>>

-----------------------------------------------------------------------------
OfficesNext ==
  \/ \E h \in Editors, o \in Offices :
       \/ \E wanted \in BOOLEAN : BeginCreate(h, o, wanted)
       \/ \E op \in {"promote", "delete"} : BeginChange(h, o, op)
  \/ \E h \in Editors, heir \in Offices \cup {Nobody} : PlanDelete(h, heir)
  \/ \E h \in Editors : PlanCreate(h) \/ PlanPromote(h) \/ CommitEdit(h) \/ GiveUp(h)

ReviewNext ==
  \/ \E h \in Deciders, u \in Reviewers : OpenReview(h, u)
  \/ \E h \in Deciders, new \in ReviewStatus : LoadReview(h, new)
  \/ \E h \in Deciders : CommitReview(h) \/ Withdraw(h)

WorkspaceNext == OfficesNext \/ ReviewNext

WorkspaceSpec == WorkspaceInit /\ [][WorkspaceNext]_workspaceVars

-----------------------------------------------------------------------------
(* Properties                                                              *)

\* services/org_profile.py "an org with offices but no primary one is a state
\* nothing downstream knows how to interpret": without overlapping requests there
\* is a primary office as long as there is an office, and never a second one.
PrimaryOffice ==
  /\ \A o, p \in Offices : Primary(o) /\ Primary(p) => o = p
  /\ ~officesSkewed /\ (\E o \in Offices : Exists(o)) => \E o \in Offices : Primary(o)

\* No other decision was under way at the same time.
Alone(r) == \A s \in trail : s # r => s.committed <= r.created \/ r.committed <= s.created

\* As list_audit orders the rows, by created_at.
Newest(r) == \A s \in trail : s.created <= r.created
NextTo(r, s) ==
  /\ r.created < s.created
  /\ \A t \in trail : t \notin {r, s} => t.created <= r.created \/ s.created <= t.created

\* The audit trail in the order of its only timestamp tells the review of the
\* variation, wherever decisions did not overlap: the newest row has the status that
\* is stored and names its reviewer, whom a reopened variation has none of, and each
\* row continues the one before it.
TrailTellsStatus ==
  \A s \in trail : Alone(s) =>
    /\ Newest(s) =>
         review = [status |-> s.after, by |-> IF s.after = "pending" THEN Nobody ELSE s.by]
    /\ \A r \in trail : Alone(r) /\ NextTo(r, s) => s.before = r.after
=============================================================================
