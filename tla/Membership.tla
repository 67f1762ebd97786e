----------------------------- MODULE Membership -----------------------------
(***************************************************************************)
(* The members of one organisation and its invitations.  A request reads   *)
(* what it decides on (authorisation, seats, roles, the invitation) and    *)
(* then writes and commits; READ COMMITTED holds nothing in between.  The  *)
(* database adds three constraints: one account per email, one membership  *)
(* per user, one invitation in force per email.                            *)
(***************************************************************************)
EXTENDS Naturals, FiniteSets

CONSTANTS
  Users,      \* people, by their email address
  Founder,    \* who signed the organisation up
  Invites,    \* invitation ids
  Seats,      \* the plan's seats
  Handlers,   \* requests in flight together
  None

ASSUME MembershipConstants ==
  /\ Founder \in Users
  /\ None \notin Users \cup Invites
  /\ Seats \in Nat

VARIABLES
  role,      \* memberships
  accounts,  \* users with an account
  inv,       \* invitations
  req,       \* what each request is about to write, and what it read
  skewed,    \* history: a role was written on a reading another request had outdated
  crossed    \* history: invitations written by a request that read them before another write

memberVars == <<role, accounts, inv, req, skewed, crossed>>

Roles == {"member", "admin"}
NoInvite == [email |-> None, role |-> "member", expired |-> FALSE, accepted |-> FALSE,
             revoked |-> FALSE]
Idle == [op |-> "none", user |-> None, inv |-> None, role |-> "none", lapsed |-> {},
         stale |-> FALSE, gone |-> FALSE]

MembersTypeOK ==
  /\ role \in [Users -> Roles \cup {"none"}]
  /\ accounts \in SUBSET Users
  /\ inv \in [Invites -> [email : Users \cup {None}, role : Roles, expired : BOOLEAN,
                          accepted : BOOLEAN, revoked : BOOLEAN]]
  /\ req \in [Handlers ->
       [op : {"none", "add", "set", "remove", "invite", "revoke", "accept", "confirm", "register"},
        user : Users \cup {None}, inv : Invites \cup {None}, role : Roles \cup {"none"},
        lapsed : SUBSET Invites, stale : BOOLEAN, gone : BOOLEAN]]
  /\ skewed \in BOOLEAN
  /\ crossed \in SUBSET Invites

MembersInit ==
  /\ role = [u \in Users |-> IF u = Founder THEN "admin" ELSE "none"]
  /\ accounts = {Founder}
  /\ inv = [i \in Invites |-> NoInvite]
  /\ req = [h \in Handlers |-> Idle]
  /\ skewed = FALSE
  /\ crossed = {}

-----------------------------------------------------------------------------
Admin(u) == role[u] = "admin"
SoleAdmin(u) == \A v \in Users : Admin(v) => v = u
SeatFree == Cardinality({u \in Users : role[u] # "none"}) + 1 <= Seats

\* accepted_at and revoked_at are both NULL: what the partial unique index counts.
Open(i) == inv[i].email # None /\ ~inv[i].accepted /\ ~inv[i].revoked
Pending(i) == Open(i) /\ ~inv[i].expired

Start(h, r) ==
  /\ req[h] = Idle
  /\ req' = [req EXCEPT ![h] = r]

\* The request ends.  Requests that read what it wrote have an outdated reading
\* now: those that change roles, if "roles" were written, and those that read an
\* invitation in "written".  The row of a removed member is gone for the former.
End(h, roles, removed, written) ==
  req' = [g \in Handlers |->
            IF g = h THEN Idle
            ELSE IF req[g].op \in {"set", "remove"}
              THEN [req[g] EXCEPT !.stale = @ \/ roles,
                                  !.gone = @ \/ (removed /\ req[g].user = req[h].user)]
            ELSE [req[g] EXCEPT !.stale = @ \/ req[g].inv \in written
                                              \/ req[g].lapsed \cap written # {}]]

\* An exception or a crash before the commit, a violated constraint included.
Abort(h) ==
  /\ req[h] # Idle
  /\ End(h, FALSE, FALSE, {})
  /\ UNCHANGED <<role, accounts, inv, skewed, crossed>>

-----------------------------------------------------------------------------
(* Members                                                                 *)

\* Somebody signs up, for an organisation of his own.
SignUp(u) ==
  /\ u \notin accounts
  /\ accounts' = accounts \cup {u}
  /\ UNCHANGED <<role, inv, req, skewed, crossed>>

BeginAdd(h, a, u, r) ==
  /\ Admin(a) /\ SeatFree
  /\ u \in accounts /\ role[u] = "none"
  /\ Start(h, [Idle EXCEPT !.op = "add", !.user = u, !.role = r])
  /\ UNCHANGED <<role, accounts, inv, skewed, crossed>>

CommitAdd(h) ==
  LET u == req[h].user
  IN  /\ req[h].op = "add"
      /\ role[u] = "none"
      /\ role' = [role EXCEPT ![u] = req[h].role]
      /\ End(h, FALSE, FALSE, {})
      /\ UNCHANGED <<accounts, inv, skewed, crossed>>

\* Mutation: a role the database does not know is let through.
BeginSetRoleUnknown(h, a, u, r) ==
  /\ Admin(a)
  /\ role[u] \notin {"none", r}
  /\ Start(h, [Idle EXCEPT !.op = "set", !.user = u, !.role = "owner"])
  /\ UNCHANGED <<role, accounts, inv, skewed, crossed>>

\* set_role: only a demotion looks at the other admins.  A role that does not
\* change is not written, which leaves op "none" and nothing to wait for.
BeginSetRole(h, a, u, r) ==
  /\ Admin(a)
  /\ role[u] \notin {"none", r}
  /\ Admin(u) => ~SoleAdmin(u)
  /\ Start(h, [Idle EXCEPT !.op = "set", !.user = u, !.role = r])
  /\ UNCHANGED <<role, accounts, inv, skewed, crossed>>

\* The UPDATE of a deleted row fails (Abort).
CommitSetRole(h) ==
  /\ req[h].op = "set" /\ ~req[h].gone
  /\ role' = [role EXCEPT ![req[h].user] = req[h].role]
  /\ skewed' = (skewed \/ req[h].stale)
  /\ End(h, TRUE, FALSE, {})
  /\ UNCHANGED <<accounts, inv, crossed>>

\* Mutation: the last admin may leave, only a demotion is guarded.
BeginRemoveAnyone(h, a, u) ==
  /\ Admin(a)
  /\ role[u] # "none"
  /\ Start(h, [Idle EXCEPT !.op = "remove", !.user = u])
  /\ UNCHANGED <<role, accounts, inv, skewed, crossed>>

BeginRemove(h, a, u) ==
  /\ Admin(a)
  /\ role[u] # "none"
  /\ Admin(u) => ~SoleAdmin(u)
  /\ Start(h, [Idle EXCEPT !.op = "remove", !.user = u])
  /\ UNCHANGED <<role, accounts, inv, skewed, crossed>>

\* The DELETE of a deleted row deletes nothing.
CommitRemove(h) ==
  /\ req[h].op = "remove"
  /\ IF req[h].gone
       THEN UNCHANGED <<role, skewed>> /\ End(h, FALSE, FALSE, {})
       ELSE /\ role' = [role EXCEPT ![req[h].user] = "none"]
            /\ skewed' = (skewed \/ req[h].stale)
            /\ End(h, TRUE, TRUE, {})
  /\ UNCHANGED <<accounts, inv, crossed>>

-----------------------------------------------------------------------------
(* Invitations                                                             *)

\* An invitation's days run out.
Lapse(i) ==
  /\ Pending(i)
  /\ inv' = [inv EXCEPT ![i].expired = TRUE]
  /\ UNCHANGED <<role, accounts, req, skewed, crossed>>

\* create_invitation: an open invitation in force refuses, a lapsed one is revoked.
BeginInvite(h, a, u, r) ==
  /\ Admin(a) /\ SeatFree
  /\ role[u] = "none"
  /\ \A i \in Invites : ~(Pending(i) /\ inv[i].email = u)
  /\ Start(h, [Idle EXCEPT !.op = "invite", !.user = u, !.role = r,
                           !.lapsed = {i \in Invites : Open(i) /\ inv[i].email = u}])
  /\ UNCHANGED <<role, accounts, inv, skewed, crossed>>

\* The lapsed rows are revoked, the new one is inserted.
Invited(h, i) ==
  [k \in Invites |->
     IF k = i THEN [NoInvite EXCEPT !.email = req[h].user, !.role = req[h].role]
     ELSE IF k \in req[h].lapsed THEN [inv[k] EXCEPT !.revoked = TRUE]
     ELSE inv[k]]

\* Mutation: the partial unique index is missing.
CommitInviteUnindexed(h, i) ==
  /\ req[h].op = "invite"
  /\ inv[i].email = None
  /\ inv' = Invited(h, i)
  /\ crossed' = IF req[h].stale THEN crossed \cup req[h].lapsed ELSE crossed
  /\ End(h, FALSE, FALSE, req[h].lapsed)
  /\ UNCHANGED <<role, accounts, skewed>>

\* The index refuses a second open invitation (Abort: DuplicateInvitation).
CommitInvite(h, i) ==
  /\ req[h].op = "invite"
  /\ inv[i].email = None
  /\ \A k \in Invites : Open(k) /\ inv[k].email = req[h].user => k \in req[h].lapsed
  /\ inv' = Invited(h, i)
  /\ crossed' = IF req[h].stale THEN crossed \cup req[h].lapsed ELSE crossed
  /\ End(h, FALSE, FALSE, req[h].lapsed)
  /\ UNCHANGED <<role, accounts, skewed>>

\* Mutation: an invitation may be revoked whatever its status is.
BeginRevokeAny(h, a, i) ==
  /\ Admin(a)
  /\ inv[i].email # None
  /\ Start(h, [Idle EXCEPT !.op = "revoke", !.inv = i])
  /\ UNCHANGED <<role, accounts, inv, skewed, crossed>>

BeginRevoke(h, a, i) ==
  /\ Admin(a)
  /\ Open(i)
  /\ Start(h, [Idle EXCEPT !.op = "revoke", !.inv = i])
  /\ UNCHANGED <<role, accounts, inv, skewed, crossed>>

CommitRevoke(h) ==
  LET i == req[h].inv
  IN  /\ req[h].op = "revoke"
      /\ inv' = [inv EXCEPT ![i].revoked = TRUE]
      /\ crossed' = IF req[h].stale THEN crossed \cup {i} ELSE crossed
      /\ End(h, FALSE, FALSE, {i})
      /\ UNCHANGED <<role, accounts, skewed>>

\* accept_for_existing_user ("confirm" if the invited user is a member already)
\* and register_and_accept.
BeginAccept(h, i) ==
  LET u == inv[i].email
  IN  /\ Pending(i)
      /\ Start(h, [Idle EXCEPT !.op = IF u \notin accounts THEN "register"
                                      ELSE IF role[u] = "none" THEN "accept" ELSE "confirm",
                               !.user = u, !.inv = i, !.role = inv[i].role])
      /\ UNCHANGED <<role, accounts, inv, skewed, crossed>>

\* The account and the membership must still be new (else Abort).
CommitAccept(h) ==
  LET u == req[h].user
      i == req[h].inv
  IN  /\ req[h].op \in {"accept", "confirm", "register"}
      /\ req[h].op # "confirm" => role[u] = "none"
      /\ req[h].op = "register" => u \notin accounts
      /\ role' = IF req[h].op = "confirm" THEN role ELSE [role EXCEPT ![u] = req[h].role]
      /\ accounts' = accounts \cup {u}
      /\ inv' = [inv EXCEPT ![i].accepted = TRUE]
      /\ crossed' = IF req[h].stale THEN crossed \cup {i} ELSE crossed
      /\ End(h, FALSE, FALSE, {i})
      /\ UNCHANGED skewed

-----------------------------------------------------------------------------
MembersNext ==
  \/ \E u \in Users : SignUp(u)
  \/ \E i \in Invites : Lapse(i)
  \/ \E h \in Handlers, a \in Users, u \in Users, r \in Roles :
       BeginAdd(h, a, u, r) \/ BeginSetRole(h, a, u, r) \/ BeginInvite(h, a, u, r)
  \/ \E h \in Handlers, a \in Users, u \in Users : BeginRemove(h, a, u)
  \/ \E h \in Handlers, a \in Users, i \in Invites : BeginRevoke(h, a, i)
  \/ \E h \in Handlers, i \in Invites : BeginAccept(h, i) \/ CommitInvite(h, i)
  \/ \E h \in Handlers : CommitAdd(h) \/ CommitSetRole(h) \/ CommitRemove(h)
                           \/ CommitRevoke(h) \/ CommitAccept(h) \/ Abort(h)

MembersSpec == MembersInit /\ [][MembersNext]_memberVars

-----------------------------------------------------------------------------
(* Properties                                                              *)

\* services/orgs.py "Guards against removing or demoting the last admin": only
\* two overlapping member changes can leave the organisation without one.
LockoutNeedsOverlap == skewed \/ \E u \in Users : Admin(u)

\* An invitation is both used and withdrawn only if the two requests overlapped:
\* nobody gets in by an invitation that was revoked before he opened it.
WithdrawnOrUsed ==
  \A i \in Invites : inv[i].accepted /\ inv[i].revoked => i \in crossed

\* An email has one open invitation, and so one link that lets it in, also when
\* two admins invite at once and when an old invitation has lapsed.
OneOpenInvitation ==
  \A i, k \in Invites : Open(i) /\ Open(k) /\ inv[i].email = inv[k].email => i = k
=============================================================================
