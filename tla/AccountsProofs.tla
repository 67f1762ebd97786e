--------------------------- MODULE AccountsProofs ---------------------------
(***************************************************************************)
(* Proofs about Membership, for every set of people, invitations and       *)
(* requests in flight, and every number of seats; about Workspace, for     *)
(* every set of offices and reviewers and every bound on the decisions;    *)
(* and about both beside Sessions and Documents, as MCAccounts has them.   *)
(***************************************************************************)
EXTENDS MCAccounts, SessionsProofs, DocumentsProofs

-----------------------------------------------------------------------------
(* Members and invitations                                                 *)

\* A change of roles whose reading nobody has outdated still sees its member, and
\* somebody else who is an admin if it is about to take that away.
RoleReading ==
  \A h \in Handlers :
    req[h].op \in {"set", "remove"} /\ ~req[h].stale =>
      /\ ~req[h].gone
      /\ req[h].user \in Users /\ role[req[h].user] # "none"
      /\ Admin(req[h].user) => \E v \in Users : v # req[h].user /\ Admin(v)

\* A request about an invitation knows a row that exists; the row is still open
\* unless the reading is outdated.
InviteReading ==
  \A h \in Handlers, i \in Invites :
    /\ req[h].op \notin {"set", "remove"} /\ (req[h].inv = i \/ i \in req[h].lapsed) =>
         inv[i].email # None /\ (req[h].stale \/ Open(i))

\* What a request writes is of the columns' types.
Writable ==
  \A h \in Handlers :
    /\ req[h].op = "invite" => req[h].role \in Roles
    /\ req[h].op \in {"accept", "confirm", "register"} => req[h].user \in Users
    /\ req[h].op \in {"revoke", "accept", "confirm", "register"} => req[h].inv \in Invites

RolesInv == RoleReading /\ LockoutNeedsOverlap
InvitesInv == InviteReading /\ WithdrawnOrUsed /\ OneOpenInvitation

MembershipInv == MembersTypeOK /\ Writable /\ RolesInv /\ InvitesInv

-----------------------------------------------------------------------------
Req == [op : {"none", "add", "set", "remove", "invite", "revoke", "accept", "confirm", "register"},
        user : Users \cup {None}, inv : Invites \cup {None}, role : Roles \cup {"none"},
        lapsed : SUBSET Invites, stale : BOOLEAN, gone : BOOLEAN]

SameRequest(g) == /\ req'[g].op = req[g].op /\ req'[g].user = req[g].user /\ req'[g].inv = req[g].inv
           /\ req'[g].role = req[g].role /\ req'[g].lapsed = req[g].lapsed

InviteRow == [email : Users \cup {None}, role : Roles, expired : BOOLEAN, accepted : BOOLEAN,
        revoked : BOOLEAN]

\* What End leaves of the other requests.
RequestEnds(h, roles, removed, written) ==
  /\ req' \in [Handlers -> Req]
  /\ req'[h] = Idle
  /\ \A g \in Handlers : g # h =>
       /\ SameRequest(g)
       /\ req[g].op \in {"set", "remove"} =>
            /\ req'[g].stale <=> req[g].stale \/ roles
            /\ req'[g].gone <=> req[g].gone \/ (removed /\ req[g].user = req[h].user)
       /\ req[g].op \notin {"set", "remove"} =>
            /\ req'[g].stale <=> \/ req[g].stale \/ req[g].inv \in written
                                 \/ req[g].lapsed \cap written # {}
            /\ req'[g].gone <=> req[g].gone

\* A request that ends outdates the readings it wrote over, and changes nothing else.
LEMMA EndReq ==
  ASSUME MembersTypeOK, NEW h \in Handlers, NEW roles \in BOOLEAN, NEW removed \in BOOLEAN,
         NEW written, End(h, roles, removed, written)
  PROVE  RequestEnds(h, roles, removed, written)
<1>1. req \in [Handlers -> Req]
  BY DEF MembersTypeOK, Req
<1>2. req' = [g \in Handlers |-> req'[g]] /\ req'[h] = Idle
  BY DEF End
<1>3. Idle \in Req
  BY DEF Idle, Req
<1>4. ASSUME NEW g \in Handlers, g # h, req[g].op \in {"set", "remove"}
      PROVE  /\ req'[g] \in Req /\ SameRequest(g)
             /\ req'[g].stale <=> req[g].stale \/ roles
             /\ req'[g].gone <=> req[g].gone \/ (removed /\ req[g].user = req[h].user)
  <2> DEFINE b == req[g].stale \/ roles
             c == req[g].gone \/ (removed /\ req[g].user = req[h].user)
  <2>1. req'[g] = [req[g] EXCEPT !.stale = b, !.gone = c]
    BY <1>4 DEF End
  <2>2. b \in BOOLEAN /\ c \in BOOLEAN /\ req[g] \in Req
    BY <1>1 DEF Req
  <2> HIDE DEF b, c
  <2>3. req'[g] \in Req /\ SameRequest(g) /\ req'[g].stale = b /\ req'[g].gone = c
    BY <2>1, <2>2 DEF Req, SameRequest
  <2> QED BY <2>3 DEF b, c
<1>5. ASSUME NEW g \in Handlers, g # h, req[g].op \notin {"set", "remove"}
      PROVE  /\ req'[g] \in Req /\ SameRequest(g)
             /\ req'[g].stale <=> \/ req[g].stale \/ req[g].inv \in written
                                  \/ req[g].lapsed \cap written # {}
             /\ req'[g].gone <=> req[g].gone
  <2> DEFINE b == req[g].stale \/ req[g].inv \in written \/ req[g].lapsed \cap written # {}
  <2>1. req'[g] = [req[g] EXCEPT !.stale = b]
    BY <1>5 DEF End
  <2>2. b \in BOOLEAN /\ req[g] \in Req
    BY <1>1 DEF Req
  <2> HIDE DEF b
  <2>3. req'[g] \in Req /\ SameRequest(g) /\ req'[g].stale = b /\ req'[g].gone = req[g].gone
    BY <2>1, <2>2 DEF Req, SameRequest
  <2> QED BY <2>3 DEF b
<1> QED BY <1>2, <1>3, <1>4, <1>5 DEF RequestEnds

\* Every request writes values of the columns' types.
LEMMA MembershipTypesStep ==
  ASSUME MembersTypeOK, Writable, [MembersNext]_memberVars
  PROVE  (MembersTypeOK /\ Writable)'
<1>1. ASSUME NEW u \in Users, SignUp(u)
      PROVE  (MembersTypeOK /\ Writable)'
  BY <1>1 DEF MembersTypeOK, Writable, SignUp
<1>2. ASSUME NEW i \in Invites, Lapse(i)
      PROVE  (MembersTypeOK /\ Writable)'
  BY <1>2 DEF MembersTypeOK, Writable, Lapse
<1>3. ASSUME NEW h \in Handlers, NEW a \in Users, NEW u \in Users, NEW r \in Roles, BeginAdd(h, a, u, r)
      PROVE  (MembersTypeOK /\ Writable)'
  BY <1>3 DEF MembersTypeOK, Writable, BeginAdd, Start, Idle
<1>4. ASSUME NEW h \in Handlers, NEW a \in Users, NEW u \in Users, NEW r \in Roles, BeginSetRole(h, a, u, r)
      PROVE  (MembersTypeOK /\ Writable)'
  BY <1>4 DEF MembersTypeOK, Writable, BeginSetRole, Start, Idle
<1>5. ASSUME NEW h \in Handlers, NEW a \in Users, NEW u \in Users, NEW r \in Roles, BeginInvite(h, a, u, r)
      PROVE  (MembersTypeOK /\ Writable)'
  BY <1>5 DEF MembersTypeOK, Writable, BeginInvite, Start, Idle
<1>6. ASSUME NEW h \in Handlers, NEW a \in Users, NEW u \in Users, BeginRemove(h, a, u)
      PROVE  (MembersTypeOK /\ Writable)'
  BY <1>6 DEF MembersTypeOK, Writable, BeginRemove, Start, Idle
<1>7. ASSUME NEW h \in Handlers, NEW a \in Users, NEW i \in Invites, BeginRevoke(h, a, i)
      PROVE  (MembersTypeOK /\ Writable)'
  BY <1>7 DEF MembersTypeOK, Writable, BeginRevoke, Start, Idle
<1>8. ASSUME NEW h \in Handlers, NEW i \in Invites, BeginAccept(h, i)
      PROVE  (MembersTypeOK /\ Writable)'
  BY <1>8 DEF MembersTypeOK, Writable, BeginAccept, Start, Idle, Pending, Open
<1>9. ASSUME NEW h \in Handlers, NEW i \in Invites, CommitInvite(h, i)
      PROVE  (MembersTypeOK /\ Writable)'
  <2>1. RequestEnds(h, FALSE, FALSE, req[h].lapsed)
    BY <1>9, EndReq DEF CommitInvite
  <2>2. MembersTypeOK'
    <3>1. req[h] \in Req /\ inv \in [Invites -> InviteRow]
      BY DEF MembersTypeOK, Req, InviteRow
    <3>2. inv' \in [Invites -> InviteRow]
      <4>1. [NoInvite EXCEPT !.email = req[h].user, !.role = req[h].role] \in InviteRow
        BY <1>9, <3>1 DEF CommitInvite, Writable, NoInvite, Req, InviteRow
      <4>2. \A k \in Invites : [inv[k] EXCEPT !.revoked = TRUE] \in InviteRow
        BY <3>1 DEF InviteRow
      <4> QED BY <1>9, <3>1, <4>1, <4>2 DEF CommitInvite, Invited
    <3> QED BY <1>9, <2>1, <3>1, <3>2 DEF RequestEnds, CommitInvite, MembersTypeOK, Writable, Req, InviteRow
  <2>3. Writable'
    BY <1>9, <2>1 DEF RequestEnds, SameRequest, Idle, CommitInvite, MembersTypeOK,
      Writable, Invited, NoInvite
  <2> QED BY <2>2, <2>3
<1>10. ASSUME NEW h \in Handlers, CommitAdd(h)
      PROVE  (MembersTypeOK /\ Writable)'
  <2>1. RequestEnds(h, FALSE, FALSE, {})
    BY <1>10, EndReq DEF CommitAdd
  <2>2. MembersTypeOK'
    BY <1>10, <2>1 DEF RequestEnds, SameRequest, Idle, CommitAdd, MembersTypeOK,
      Writable, Req
  <2>3. Writable'
    BY <1>10, <2>1 DEF RequestEnds, SameRequest, Idle, CommitAdd, MembersTypeOK, Writable
  <2> QED BY <2>2, <2>3
<1>11. ASSUME NEW h \in Handlers, CommitSetRole(h)
      PROVE  (MembersTypeOK /\ Writable)'
  <2>1. RequestEnds(h, TRUE, FALSE, {})
    BY <1>11, EndReq DEF CommitSetRole
  <2>2. MembersTypeOK'
    BY <1>11, <2>1 DEF RequestEnds, SameRequest, Idle, CommitSetRole, MembersTypeOK,
      Writable, Req
  <2>3. Writable'
    BY <1>11, <2>1 DEF RequestEnds, SameRequest, Idle, CommitSetRole, MembersTypeOK,
      Writable
  <2> QED BY <2>2, <2>3
<1>12. ASSUME NEW h \in Handlers, CommitRemove(h)
      PROVE  (MembersTypeOK /\ Writable)'
  <2>1. CASE req[h].gone
    <3>1. RequestEnds(h, FALSE, FALSE, {})
      BY <1>12, <2>1, EndReq DEF CommitRemove
    <3>2. MembersTypeOK'
      BY <1>12, <2>1, <3>1 DEF RequestEnds, SameRequest, Idle, CommitRemove,
      MembersTypeOK, Writable, Req
    <3>3. Writable'
      BY <1>12, <2>1, <3>1 DEF RequestEnds, SameRequest, Idle, CommitRemove,
      MembersTypeOK, Writable
    <3> QED BY <3>2, <3>3
  <2>2. CASE ~req[h].gone
    <3>1. RequestEnds(h, TRUE, TRUE, {})
      BY <1>12, <2>2, EndReq DEF CommitRemove
    <3>2. MembersTypeOK'
      BY <1>12, <2>2, <3>1 DEF RequestEnds, SameRequest, Idle, CommitRemove,
      MembersTypeOK, Writable, Req
    <3>3. Writable'
      BY <1>12, <2>2, <3>1 DEF RequestEnds, SameRequest, Idle, CommitRemove,
      MembersTypeOK, Writable
    <3> QED BY <3>2, <3>3
  <2> QED BY <2>1, <2>2
<1>13. ASSUME NEW h \in Handlers, CommitRevoke(h)
      PROVE  (MembersTypeOK /\ Writable)'
  <2>1. RequestEnds(h, FALSE, FALSE, {req[h].inv})
    BY <1>13, EndReq DEF CommitRevoke
  <2>2. MembersTypeOK'
    <3>1. req[h] \in Req /\ inv \in [Invites -> InviteRow]
      BY DEF MembersTypeOK, Req, InviteRow
    <3>2. inv' \in [Invites -> InviteRow]
      BY <1>13, <3>1 DEF CommitRevoke, InviteRow
    <3> QED BY <1>13, <2>1, <3>1, <3>2 DEF RequestEnds, CommitRevoke, MembersTypeOK, Writable, Req, InviteRow
  <2>3. Writable'
    BY <1>13, <2>1 DEF RequestEnds, SameRequest, Idle, CommitRevoke, MembersTypeOK,
      Writable
  <2> QED BY <2>2, <2>3
<1>14. ASSUME NEW h \in Handlers, CommitAccept(h)
      PROVE  (MembersTypeOK /\ Writable)'
  <2>1. RequestEnds(h, FALSE, FALSE, {req[h].inv})
    BY <1>14, EndReq DEF CommitAccept
  <2>2. MembersTypeOK'
    <3>1. req[h] \in Req /\ inv \in [Invites -> InviteRow]
      BY DEF MembersTypeOK, Req, InviteRow
    <3>2. inv' \in [Invites -> InviteRow]
      BY <1>14, <3>1 DEF CommitAccept, InviteRow
    <3>3. role' \in [Users -> Roles \cup {"none"}]
      BY <1>14, <3>1 DEF CommitAccept, MembersTypeOK, Req
    <3> QED BY <1>14, <2>1, <3>1, <3>2, <3>3 DEF RequestEnds, CommitAccept, MembersTypeOK, Writable, Req, InviteRow
  <2>3. Writable'
    BY <1>14, <2>1 DEF RequestEnds, SameRequest, Idle, CommitAccept, MembersTypeOK,
      Writable
  <2> QED BY <2>2, <2>3
<1>15. ASSUME NEW h \in Handlers, Abort(h)
      PROVE  (MembersTypeOK /\ Writable)'
  <2>1. RequestEnds(h, FALSE, FALSE, {})
    BY <1>15, EndReq DEF Abort
  <2>2. MembersTypeOK'
    BY <1>15, <2>1 DEF RequestEnds, SameRequest, Idle, Abort, MembersTypeOK, Writable,
      Req
  <2>3. Writable'
    BY <1>15, <2>1 DEF RequestEnds, SameRequest, Idle, Abort, MembersTypeOK, Writable
  <2> QED BY <2>2, <2>3
<1>16. CASE UNCHANGED memberVars
  BY <1>16 DEF MembersTypeOK, Writable, memberVars
<1> QED BY <1>1, <1>2, <1>3, <1>4, <1>5, <1>6, <1>7, <1>8, <1>9, <1>10, <1>11, <1>12, <1>13,
      <1>14, <1>15, <1>16
  DEF MembersNext

\* Roles: a commit that nobody outdated leaves an admin, and outdates the others.
LEMMA RolesStep ==
  ASSUME MembersTypeOK, RolesInv, [MembersNext]_memberVars
  PROVE  RolesInv'
<1>1. ASSUME NEW u \in Users, SignUp(u)
      PROVE  RolesInv'
  BY <1>1 DEF MembersTypeOK, RolesInv, RoleReading, LockoutNeedsOverlap, Admin, SignUp
<1>2. ASSUME NEW i \in Invites, Lapse(i)
      PROVE  RolesInv'
  BY <1>2 DEF MembersTypeOK, RolesInv, RoleReading, LockoutNeedsOverlap, Admin, Lapse
<1>3. ASSUME NEW h \in Handlers, NEW a \in Users, NEW u \in Users, NEW r \in Roles, BeginAdd(h, a, u, r)
      PROVE  RolesInv'
  BY <1>3 DEF MembersTypeOK, RolesInv, RoleReading, LockoutNeedsOverlap, Admin, BeginAdd,
      Start, Idle
<1>4. ASSUME NEW h \in Handlers, NEW a \in Users, NEW u \in Users, NEW r \in Roles, BeginSetRole(h, a, u, r)
      PROVE  RolesInv'
  BY <1>4 DEF MembersTypeOK, RolesInv, RoleReading, LockoutNeedsOverlap, Admin,
      BeginSetRole, Start, Idle, SoleAdmin
<1>5. ASSUME NEW h \in Handlers, NEW a \in Users, NEW u \in Users, NEW r \in Roles, BeginInvite(h, a, u, r)
      PROVE  RolesInv'
  BY <1>5 DEF MembersTypeOK, RolesInv, RoleReading, LockoutNeedsOverlap, Admin, BeginInvite,
      Start, Idle
<1>6. ASSUME NEW h \in Handlers, NEW a \in Users, NEW u \in Users, BeginRemove(h, a, u)
      PROVE  RolesInv'
  BY <1>6 DEF MembersTypeOK, RolesInv, RoleReading, LockoutNeedsOverlap, Admin, BeginRemove,
      Start, Idle, SoleAdmin
<1>7. ASSUME NEW h \in Handlers, NEW a \in Users, NEW i \in Invites, BeginRevoke(h, a, i)
      PROVE  RolesInv'
  BY <1>7 DEF MembersTypeOK, RolesInv, RoleReading, LockoutNeedsOverlap, Admin, BeginRevoke,
      Start, Idle
<1>8. ASSUME NEW h \in Handlers, NEW i \in Invites, BeginAccept(h, i)
      PROVE  RolesInv'
  BY <1>8 DEF MembersTypeOK, RolesInv, RoleReading, LockoutNeedsOverlap, Admin, BeginAccept,
      Start, Idle
<1>9. ASSUME NEW h \in Handlers, NEW i \in Invites, CommitInvite(h, i)
      PROVE  RolesInv'
  <2>1. RequestEnds(h, FALSE, FALSE, req[h].lapsed)
    BY <1>9, EndReq DEF CommitInvite
  <2>2. RoleReading'
    BY <1>9, <2>1 DEF RequestEnds, SameRequest, Idle, CommitInvite, MembersTypeOK,
      RolesInv, RoleReading, Admin
  <2>3. LockoutNeedsOverlap'
    BY <1>9, <2>1 DEF RequestEnds, SameRequest, Idle, CommitInvite,
      MembersTypeOK, RolesInv, RoleReading, LockoutNeedsOverlap, Admin
  <2> QED BY <2>2, <2>3 DEF RolesInv
<1>10. ASSUME NEW h \in Handlers, CommitAdd(h)
      PROVE  RolesInv'
  <2>1. RequestEnds(h, FALSE, FALSE, {})
    BY <1>10, EndReq DEF CommitAdd
  <2>2. RoleReading'
    BY <1>10, <2>1 DEF RequestEnds, SameRequest, Idle, CommitAdd, MembersTypeOK,
      RolesInv, RoleReading, Admin
  <2>3. LockoutNeedsOverlap'
    BY <1>10, <2>1 DEF RequestEnds, SameRequest, Idle, CommitAdd, MembersTypeOK,
      RolesInv, RoleReading, LockoutNeedsOverlap, Admin
  <2> QED BY <2>2, <2>3 DEF RolesInv
<1>11. ASSUME NEW h \in Handlers, CommitSetRole(h)
      PROVE  RolesInv'
  <2>1. RequestEnds(h, TRUE, FALSE, {})
    BY <1>11, EndReq DEF CommitSetRole
  <2>2. RoleReading'
    BY <1>11, <2>1 DEF RequestEnds, SameRequest, Idle, CommitSetRole, MembersTypeOK,
      RolesInv, RoleReading, Admin
  <2>3. LockoutNeedsOverlap'
    BY <1>11, <2>1 DEF RequestEnds, SameRequest, Idle, CommitSetRole,
      MembersTypeOK, RolesInv, RoleReading, LockoutNeedsOverlap, Admin
  <2> QED BY <2>2, <2>3 DEF RolesInv
<1>12. ASSUME NEW h \in Handlers, CommitRemove(h)
      PROVE  RolesInv'
  <2>1. CASE req[h].gone
    <3>1. RequestEnds(h, FALSE, FALSE, {})
      BY <1>12, <2>1, EndReq DEF CommitRemove
    <3>2. RoleReading'
      BY <1>12, <2>1, <3>1 DEF RequestEnds, SameRequest, Idle, CommitRemove,
      MembersTypeOK, RolesInv, RoleReading, Admin
    <3>3. LockoutNeedsOverlap'
      BY <1>12, <2>1, <3>1 DEF RequestEnds, SameRequest, Idle, CommitRemove,
      MembersTypeOK, RolesInv, RoleReading, LockoutNeedsOverlap, Admin
    <3> QED BY <3>2, <3>3 DEF RolesInv
  <2>2. CASE ~req[h].gone
    <3>1. RequestEnds(h, TRUE, TRUE, {})
      BY <1>12, <2>2, EndReq DEF CommitRemove
    <3>2. RoleReading'
      BY <1>12, <2>2, <3>1 DEF RequestEnds, SameRequest, Idle, CommitRemove,
      MembersTypeOK, RolesInv, RoleReading, Admin
    <3>3. LockoutNeedsOverlap'
      BY <1>12, <2>2, <3>1 DEF RequestEnds, SameRequest, Idle, CommitRemove,
      MembersTypeOK, RolesInv, RoleReading, LockoutNeedsOverlap, Admin
    <3> QED BY <3>2, <3>3 DEF RolesInv
  <2> QED BY <2>1, <2>2
<1>13. ASSUME NEW h \in Handlers, CommitRevoke(h)
      PROVE  RolesInv'
  <2>1. RequestEnds(h, FALSE, FALSE, {req[h].inv})
    BY <1>13, EndReq DEF CommitRevoke
  <2>2. RoleReading'
    BY <1>13, <2>1 DEF RequestEnds, SameRequest, Idle, CommitRevoke, MembersTypeOK,
      RolesInv, RoleReading, Admin
  <2>3. LockoutNeedsOverlap'
    BY <1>13, <2>1 DEF RequestEnds, SameRequest, Idle, CommitRevoke,
      MembersTypeOK, RolesInv, RoleReading, LockoutNeedsOverlap, Admin
  <2> QED BY <2>2, <2>3 DEF RolesInv
<1>14. ASSUME NEW h \in Handlers, CommitAccept(h)
      PROVE  RolesInv'
  <2>1. RequestEnds(h, FALSE, FALSE, {req[h].inv})
    BY <1>14, EndReq DEF CommitAccept
  <2>2. RoleReading'
    BY <1>14, <2>1 DEF RequestEnds, SameRequest, Idle, CommitAccept, MembersTypeOK,
      RolesInv, RoleReading, Admin
  <2>3. LockoutNeedsOverlap'
    BY <1>14, <2>1 DEF RequestEnds, SameRequest, Idle, CommitAccept,
      MembersTypeOK, RolesInv, RoleReading, LockoutNeedsOverlap, Admin
  <2> QED BY <2>2, <2>3 DEF RolesInv
<1>15. ASSUME NEW h \in Handlers, Abort(h)
      PROVE  RolesInv'
  <2>1. RequestEnds(h, FALSE, FALSE, {})
    BY <1>15, EndReq DEF Abort
  <2>2. RoleReading'
    BY <1>15, <2>1 DEF RequestEnds, SameRequest, Idle, Abort, MembersTypeOK, RolesInv,
      RoleReading, Admin
  <2>3. LockoutNeedsOverlap'
    BY <1>15, <2>1 DEF RequestEnds, SameRequest, Idle, Abort, MembersTypeOK,
      RolesInv, RoleReading, LockoutNeedsOverlap, Admin
  <2> QED BY <2>2, <2>3 DEF RolesInv
<1>16. CASE UNCHANGED memberVars
  BY <1>16 DEF MembersTypeOK, RolesInv, RoleReading, LockoutNeedsOverlap, Admin, memberVars
<1> QED BY <1>1, <1>2, <1>3, <1>4, <1>5, <1>6, <1>7, <1>8, <1>9, <1>10, <1>11, <1>12, <1>13,
      <1>14, <1>15, <1>16
  DEF MembersNext

\* Invitations: a commit that nobody outdated finds the row open, and outdates the others.
LEMMA InvitesStep ==
  ASSUME MembersTypeOK, Writable, InvitesInv, [MembersNext]_memberVars
  PROVE  InvitesInv'
<1>1. ASSUME NEW u \in Users, SignUp(u)
      PROVE  InvitesInv'
  BY <1>1 DEF MembersTypeOK, Writable, InvitesInv, InviteReading, WithdrawnOrUsed,
      OneOpenInvitation, Open, SignUp
<1>2. ASSUME NEW i \in Invites, Lapse(i)
      PROVE  InvitesInv'
  BY <1>2 DEF MembersTypeOK, Writable, InvitesInv, InviteReading, WithdrawnOrUsed,
      OneOpenInvitation, Open, Lapse, Pending
<1>3. ASSUME NEW h \in Handlers, NEW a \in Users, NEW u \in Users, NEW r \in Roles, BeginAdd(h, a, u, r)
      PROVE  InvitesInv'
  BY <1>3 DEF MembersTypeOK, Writable, InvitesInv, InviteReading, WithdrawnOrUsed,
      OneOpenInvitation, Open, BeginAdd, Start, Idle
<1>4. ASSUME NEW h \in Handlers, NEW a \in Users, NEW u \in Users, NEW r \in Roles, BeginSetRole(h, a, u, r)
      PROVE  InvitesInv'
  BY <1>4 DEF MembersTypeOK, Writable, InvitesInv, InviteReading, WithdrawnOrUsed,
      OneOpenInvitation, Open, BeginSetRole, Start, Idle
<1>5. ASSUME NEW h \in Handlers, NEW a \in Users, NEW u \in Users, NEW r \in Roles, BeginInvite(h, a, u, r)
      PROVE  InvitesInv'
  BY <1>5 DEF MembersTypeOK, Writable, InvitesInv, InviteReading, WithdrawnOrUsed,
      OneOpenInvitation, Open, BeginInvite, Start, Idle
<1>6. ASSUME NEW h \in Handlers, NEW a \in Users, NEW u \in Users, BeginRemove(h, a, u)
      PROVE  InvitesInv'
  BY <1>6 DEF MembersTypeOK, Writable, InvitesInv, InviteReading, WithdrawnOrUsed,
      OneOpenInvitation, Open, BeginRemove, Start, Idle
<1>7. ASSUME NEW h \in Handlers, NEW a \in Users, NEW i \in Invites, BeginRevoke(h, a, i)
      PROVE  InvitesInv'
  BY <1>7 DEF MembersTypeOK, Writable, InvitesInv, InviteReading, WithdrawnOrUsed,
      OneOpenInvitation, Open, BeginRevoke, Start, Idle
<1>8. ASSUME NEW h \in Handlers, NEW i \in Invites, BeginAccept(h, i)
      PROVE  InvitesInv'
  BY <1>8 DEF MembersTypeOK, Writable, InvitesInv, InviteReading, WithdrawnOrUsed,
      OneOpenInvitation, Open, BeginAccept, Start, Idle, Pending
<1>9. ASSUME NEW h \in Handlers, NEW i \in Invites, CommitInvite(h, i)
      PROVE  InvitesInv'
  <2>1. RequestEnds(h, FALSE, FALSE, req[h].lapsed)
    BY <1>9, EndReq DEF CommitInvite
  <2>2. InviteReading'
    BY <1>9, <2>1, MembershipConstants DEF RequestEnds, SameRequest, Idle,
      CommitInvite, MembersTypeOK, Writable, InvitesInv, InviteReading, Open, Invited,
      NoInvite
  <2>3. WithdrawnOrUsed'
    BY <1>9, <2>1 DEF RequestEnds, SameRequest, Idle, CommitInvite, MembersTypeOK,
      Writable, InvitesInv, InviteReading, Open, WithdrawnOrUsed, Invited, NoInvite
  <2>4. OneOpenInvitation'
    BY <1>9, <2>1 DEF RequestEnds, SameRequest, Idle, CommitInvite,
      MembersTypeOK, Writable, InvitesInv, InviteReading, Open, OneOpenInvitation, Invited,
      NoInvite
  <2> QED BY <2>2, <2>3, <2>4 DEF InvitesInv
<1>10. ASSUME NEW h \in Handlers, CommitAdd(h)
      PROVE  InvitesInv'
  <2>1. RequestEnds(h, FALSE, FALSE, {})
    BY <1>10, EndReq DEF CommitAdd
  <2>2. InviteReading'
    BY <1>10, <2>1, MembershipConstants DEF RequestEnds, SameRequest, Idle, CommitAdd,
      MembersTypeOK, Writable, InvitesInv, InviteReading, Open
  <2>3. WithdrawnOrUsed'
    BY <1>10, <2>1 DEF RequestEnds, SameRequest, Idle, CommitAdd, MembersTypeOK,
      Writable, InvitesInv, InviteReading, Open, WithdrawnOrUsed
  <2>4. OneOpenInvitation'
    BY <1>10, <2>1 DEF RequestEnds, SameRequest, Idle, CommitAdd, MembersTypeOK,
      Writable, InvitesInv, InviteReading, Open, OneOpenInvitation
  <2> QED BY <2>2, <2>3, <2>4 DEF InvitesInv
<1>11. ASSUME NEW h \in Handlers, CommitSetRole(h)
      PROVE  InvitesInv'
  <2>1. RequestEnds(h, TRUE, FALSE, {})
    BY <1>11, EndReq DEF CommitSetRole
  <2>2. InviteReading'
    BY <1>11, <2>1, MembershipConstants DEF RequestEnds, SameRequest, Idle,
      CommitSetRole, MembersTypeOK, Writable, InvitesInv, InviteReading, Open
  <2>3. WithdrawnOrUsed'
    BY <1>11, <2>1 DEF RequestEnds, SameRequest, Idle, CommitSetRole, MembersTypeOK,
      Writable, InvitesInv, InviteReading, Open, WithdrawnOrUsed
  <2>4. OneOpenInvitation'
    BY <1>11, <2>1 DEF RequestEnds, SameRequest, Idle, CommitSetRole,
      MembersTypeOK, Writable, InvitesInv, InviteReading, Open, OneOpenInvitation
  <2> QED BY <2>2, <2>3, <2>4 DEF InvitesInv
<1>12. ASSUME NEW h \in Handlers, CommitRemove(h)
      PROVE  InvitesInv'
  <2>1. CASE req[h].gone
    <3>1. RequestEnds(h, FALSE, FALSE, {})
      BY <1>12, <2>1, EndReq DEF CommitRemove
    <3>2. InviteReading'
      BY <1>12, <2>1, <3>1, MembershipConstants DEF RequestEnds, SameRequest, Idle,
      CommitRemove, MembersTypeOK, Writable, InvitesInv, InviteReading, Open
    <3>3. WithdrawnOrUsed'
      BY <1>12, <2>1, <3>1 DEF RequestEnds, SameRequest, Idle, CommitRemove,
      MembersTypeOK, Writable, InvitesInv, InviteReading, Open, WithdrawnOrUsed
    <3>4. OneOpenInvitation'
      BY <1>12, <2>1, <3>1 DEF RequestEnds, SameRequest, Idle, CommitRemove,
      MembersTypeOK, Writable, InvitesInv, InviteReading, Open, OneOpenInvitation
    <3> QED BY <3>2, <3>3, <3>4 DEF InvitesInv
  <2>2. CASE ~req[h].gone
    <3>1. RequestEnds(h, TRUE, TRUE, {})
      BY <1>12, <2>2, EndReq DEF CommitRemove
    <3>2. InviteReading'
      BY <1>12, <2>2, <3>1, MembershipConstants DEF RequestEnds, SameRequest, Idle,
      CommitRemove, MembersTypeOK, Writable, InvitesInv, InviteReading, Open
    <3>3. WithdrawnOrUsed'
      BY <1>12, <2>2, <3>1 DEF RequestEnds, SameRequest, Idle, CommitRemove,
      MembersTypeOK, Writable, InvitesInv, InviteReading, Open, WithdrawnOrUsed
    <3>4. OneOpenInvitation'
      BY <1>12, <2>2, <3>1 DEF RequestEnds, SameRequest, Idle, CommitRemove,
      MembersTypeOK, Writable, InvitesInv, InviteReading, Open, OneOpenInvitation
    <3> QED BY <3>2, <3>3, <3>4 DEF InvitesInv
  <2> QED BY <2>1, <2>2
<1>13. ASSUME NEW h \in Handlers, CommitRevoke(h)
      PROVE  InvitesInv'
  <2>1. RequestEnds(h, FALSE, FALSE, {req[h].inv})
    BY <1>13, EndReq DEF CommitRevoke
  <2>2. InviteReading'
    BY <1>13, <2>1, MembershipConstants DEF RequestEnds, SameRequest, Idle,
      CommitRevoke, MembersTypeOK, Writable, InvitesInv, InviteReading, Open
  <2>3. WithdrawnOrUsed'
    BY <1>13, <2>1 DEF RequestEnds, SameRequest, Idle, CommitRevoke, MembersTypeOK,
      Writable, InvitesInv, InviteReading, Open, WithdrawnOrUsed
  <2>4. OneOpenInvitation'
    BY <1>13, <2>1 DEF RequestEnds, SameRequest, Idle, CommitRevoke,
      MembersTypeOK, Writable, InvitesInv, InviteReading, Open, OneOpenInvitation
  <2> QED BY <2>2, <2>3, <2>4 DEF InvitesInv
<1>14. ASSUME NEW h \in Handlers, CommitAccept(h)
      PROVE  InvitesInv'
  <2>1. RequestEnds(h, FALSE, FALSE, {req[h].inv})
    BY <1>14, EndReq DEF CommitAccept
  <2>2. InviteReading'
    BY <1>14, <2>1, MembershipConstants DEF RequestEnds, SameRequest, Idle,
      CommitAccept, MembersTypeOK, Writable, InvitesInv, InviteReading, Open
  <2>3. WithdrawnOrUsed'
    BY <1>14, <2>1 DEF RequestEnds, SameRequest, Idle, CommitAccept, MembersTypeOK,
      Writable, InvitesInv, InviteReading, Open, WithdrawnOrUsed
  <2>4. OneOpenInvitation'
    BY <1>14, <2>1 DEF RequestEnds, SameRequest, Idle, CommitAccept,
      MembersTypeOK, Writable, InvitesInv, InviteReading, Open, OneOpenInvitation
  <2> QED BY <2>2, <2>3, <2>4 DEF InvitesInv
<1>15. ASSUME NEW h \in Handlers, Abort(h)
      PROVE  InvitesInv'
  <2>1. RequestEnds(h, FALSE, FALSE, {})
    BY <1>15, EndReq DEF Abort
  <2>2. InviteReading'
    BY <1>15, <2>1, MembershipConstants DEF RequestEnds, SameRequest, Idle, Abort,
      MembersTypeOK, Writable, InvitesInv, InviteReading, Open
  <2>3. WithdrawnOrUsed'
    BY <1>15, <2>1 DEF RequestEnds, SameRequest, Idle, Abort, MembersTypeOK,
      Writable, InvitesInv, InviteReading, Open, WithdrawnOrUsed
  <2>4. OneOpenInvitation'
    BY <1>15, <2>1 DEF RequestEnds, SameRequest, Idle, Abort, MembersTypeOK,
      Writable, InvitesInv, InviteReading, Open, OneOpenInvitation
  <2> QED BY <2>2, <2>3, <2>4 DEF InvitesInv
<1>16. CASE UNCHANGED memberVars
  BY <1>16 DEF MembersTypeOK, Writable, InvitesInv, InviteReading, WithdrawnOrUsed,
      OneOpenInvitation, Open, memberVars
<1> QED BY <1>1, <1>2, <1>3, <1>4, <1>5, <1>6, <1>7, <1>8, <1>9, <1>10, <1>11, <1>12, <1>13,
      <1>14, <1>15, <1>16
  DEF MembersNext

-----------------------------------------------------------------------------
\* Types, readings, roles and invitations hold for every reachable state.
THEOREM MembershipInvariance == MembersSpec => []MembershipInv
<1>1. ASSUME MembersInit PROVE MembershipInv
  <2>1. MembersTypeOK /\ Writable
    BY <1>1, MembershipConstants DEF MembersInit, MembersTypeOK, Writable, Roles, Idle, NoInvite
  <2>2. RolesInv
    BY <1>1, MembershipConstants
    DEF MembersInit, RolesInv, RoleReading, LockoutNeedsOverlap, Admin, Idle
  <2>3. InvitesInv
    BY <1>1, MembershipConstants
    DEF MembersInit, InvitesInv, InviteReading, WithdrawnOrUsed, OneOpenInvitation, Open, Idle,
        NoInvite
  <2> QED BY <2>1, <2>2, <2>3 DEF MembershipInv
<1>2. MembershipInv /\ [MembersNext]_memberVars => MembershipInv'
  BY MembershipTypesStep, RolesStep, InvitesStep DEF MembershipInv
<1> QED BY <1>1, <1>2, PTL DEF MembersSpec

\* Every request of the members and invitations writes values of the columns' types.
THEOREM MembershipTypes == MembersSpec => []MembersTypeOK
<1>1. MembershipInv => MembersTypeOK
  BY DEF MembershipInv
<1> QED BY <1>1, MembershipInvariance, PTL

\* services/orgs.py, the guard of the last admin: only overlapping changes of roles
\* can leave an organisation without one.
THEOREM AdminRemains == MembersSpec => []LockoutNeedsOverlap
<1>1. MembershipInv => LockoutNeedsOverlap
  BY DEF MembershipInv, RolesInv
<1> QED BY <1>1, MembershipInvariance, PTL

\* services/invitations.py: an invitation is used and withdrawn by overlapping
\* requests only.
THEOREM UsedOrWithdrawn == MembersSpec => []WithdrawnOrUsed
<1>1. MembershipInv => WithdrawnOrUsed
  BY DEF MembershipInv, InvitesInv
<1> QED BY <1>1, MembershipInvariance, PTL

\* The partial unique index and the revocation of lapsed rows leave one open
\* invitation for an email.
THEOREM OneInvitation == MembersSpec => []OneOpenInvitation
<1>1. MembershipInv => OneOpenInvitation
  BY DEF MembershipInv, InvitesInv
<1> QED BY <1>1, MembershipInvariance, PTL

-----------------------------------------------------------------------------
(* Offices and reviews                                                     *)

OfficeStored(table) ==
  (\E o \in Offices : table[o] \in {"plain", "primary"}) => \E o \in Offices : table[o] = "primary"

\* What the first statement of a request saw is still so.
FirstReading(e) ==
  /\ e.op = "create" =>
       e.office \in Offices /\ office[e.office] = "new" /\ (~e.primary => \E p \in Offices : Exists(p))
  /\ e.op \in {"promote", "delete"} =>
       e.office \in Offices /\ Exists(e.office) /\ (e.primary <=> Primary(e.office))

\* An office request that nobody has outdated still leaves a primary office.
Reading(e) == IF e.ready THEN OfficeStored(Edited(e)) ELSE FirstReading(e)

EditReading ==
  ~officesSkewed => \A h \in Editors : edit[h].op # "none" /\ ~edit[h].stale => Reading(edit[h])

Planned == \A h \in Editors : edit[h].ready => edit[h].op # "none"

OfficesInv == Planned /\ EditReading /\ PrimaryOffice

\* Each number of decisions is that of one row, and a row is as new as its request.
TrailNumbered ==
  /\ \A r \in trail : r.created < r.committed /\ r.committed <= decisions
  /\ \A n \in 1..decisions : \E r \in trail : r.committed = n
  /\ \A r, s \in trail : r.committed = s.committed => r = s

\* The status before the decision with that number.
Before(n, x) == IF n = 0 THEN x = "pending" ELSE \E r \in trail : r.committed = n /\ r.after = x

By(status, u) == IF status = "pending" THEN Nobody ELSE u

\* A row nothing overlapped continues the one committed before it, and the last row
\* tells the status; when nothing overlapped it, the reviewer as well.
TrailChained ==
  /\ Before(decisions, review.status)
  /\ \A r \in trail : r.committed = r.created + 1 => Before(r.created, r.before)
  /\ \A r \in trail : r.committed = decisions /\ r.created + 1 = decisions =>
       review.by = By(r.after, r.by)

\* A decision that nobody has outdated knows the status and the reviewer stored.
DecisionReading ==
  \A h \in Deciders : decide[h].by # Nobody =>
    /\ decide[h].began <= decisions
    /\ decide[h].loaded /\ decide[h].began = decisions =>
         decide[h].old = review.status /\ decide[h].oldBy = review.by

Loaded == \A h \in Deciders : decide[h].loaded => decide[h].by # Nobody

ReviewInv == Loaded /\ DecisionReading /\ TrailNumbered /\ TrailChained
WorkspaceInv == WorkspaceTypeOK /\ OfficesInv /\ ReviewInv

-----------------------------------------------------------------------------
Office == {"new", "plain", "primary", "deleted"}
Edit == [op : {"none", "create", "promote", "delete"}, office : Offices \cup {Nobody},
         primary : BOOLEAN, ready : BOOLEAN, demote : SUBSET Offices,
         promote : Offices \cup {Nobody}, stale : BOOLEAN]
Decision == [by : Reviewers \cup {Nobody}, began : 0..MaxReviews, loaded : BOOLEAN,
             status : ReviewStatus, old : ReviewStatus, oldBy : Reviewers \cup {Nobody}]

OfficesTyped ==
  office \in [Offices -> Office] /\ edit \in [Editors -> Edit] /\ officesSkewed \in BOOLEAN

\* The table an office request leaves is a table of offices.
LEMMA EditedType ==
  ASSUME office \in [Offices -> Office], NEW e
  PROVE  Edited(e) \in [Offices -> Office]
BY DEF Edited, Office

\* The requests on offices keep the table's and their own types.
LEMMA OfficesTypes ==
  ASSUME WorkspaceTypeOK, OfficesNext
  PROVE  WorkspaceTypeOK'
<1>1. OfficesTyped
  BY DEF WorkspaceTypeOK, Office, Edit, OfficesTyped
<1>2. UNCHANGED reviewVars
  BY DEF OfficesNext, BeginCreate, BeginChange, BeginEdit, PlanCreate, PlanPromote, PlanDelete, Plan,
     CommitEdit, GiveUp
<1>3. SUFFICES OfficesTyped'
  BY <1>2 DEF WorkspaceTypeOK, Office, Edit, OfficesTyped, reviewVars
<1>4. NoEdit \in Edit
  BY DEF NoEdit, Edit
<1>5. ASSUME NEW h \in Editors, NEW e \in Edit, BeginEdit(h, e)
      PROVE  OfficesTyped'
  BY <1>1, <1>5 DEF BeginEdit, OfficesTyped
<1>6. ASSUME NEW h \in Editors, NEW demote \in SUBSET Offices, NEW promote \in Offices \cup {Nobody},
             Plan(h, demote, promote)
      PROVE  OfficesTyped'
  <2>1. [edit[h] EXCEPT !.ready = TRUE, !.demote = demote, !.promote = promote] \in Edit
    BY <1>1 DEF OfficesTyped, Edit
  <2> QED BY <1>1, <1>6, <2>1 DEF Plan, OfficesTyped
<1>7. ASSUME NEW h \in Editors, NEW o \in Offices, NEW wanted \in BOOLEAN, BeginCreate(h, o, wanted)
      PROVE  OfficesTyped'
  <2>1. (wanted \/ \A p \in Offices : ~Exists(p)) \in BOOLEAN
    OBVIOUS
  <2>2. [NoEdit EXCEPT !.op = "create", !.office = o,
                       !.primary = wanted \/ \A p \in Offices : ~Exists(p)] \in Edit
    BY <2>1 DEF NoEdit, Edit
  <2> QED BY <1>5, <1>7, <2>2 DEF BeginCreate
<1>8. ASSUME NEW h \in Editors, NEW o \in Offices, NEW op \in {"promote", "delete"}, BeginChange(h, o, op)
      PROVE  OfficesTyped'
  <2>1. [NoEdit EXCEPT !.op = op, !.office = o, !.primary = Primary(o)] \in Edit
    BY DEF NoEdit, Edit, Primary
  <2> QED BY <1>5, <1>8, <2>1 DEF BeginChange
<1>9. ASSUME NEW h \in Editors, PlanCreate(h)
      PROVE  OfficesTyped'
  BY <1>1, <1>6, <1>9 DEF PlanCreate, OfficesTyped, Edit
<1>10. ASSUME NEW h \in Editors, PlanPromote(h)
       PROVE  OfficesTyped'
  BY <1>1, <1>6, <1>10 DEF PlanPromote, OfficesTyped, Edit
<1>11. ASSUME NEW h \in Editors, NEW heir \in Offices \cup {Nobody}, PlanDelete(h, heir)
       PROVE  OfficesTyped'
  BY <1>6, <1>11 DEF PlanDelete
<1>12. ASSUME NEW h \in Editors, CommitEdit(h)
       PROVE  OfficesTyped'
  <2>1. office' \in [Offices -> Office]
    BY <1>1, <1>12, EditedType DEF CommitEdit, OfficesTyped
  <2>2. edit' \in [Editors -> Edit]
    <3>1. \A g \in Editors : [edit[g] EXCEPT !.stale = TRUE] \in Edit
      BY <1>1 DEF Edit, OfficesTyped
    <3> QED BY <1>1, <1>4, <1>12, <3>1 DEF CommitEdit, OfficesTyped
  <2>3. officesSkewed' \in BOOLEAN
    BY <1>1, <1>12 DEF CommitEdit, OfficesTyped
  <2> QED BY <2>1, <2>2, <2>3 DEF OfficesTyped
<1>13. ASSUME NEW h \in Editors, GiveUp(h)
       PROVE  OfficesTyped'
  BY <1>1, <1>4, <1>13 DEF GiveUp, OfficesTyped
<1> QED BY <1>7, <1>8, <1>9, <1>10, <1>11, <1>12, <1>13 DEF OfficesNext

\* The requests on the review keep the row's, the trail's and their own types.
LEMMA ReviewTypes ==
  ASSUME WorkspaceTypeOK, ReviewInv, ReviewNext
  PROVE  WorkspaceTypeOK'
<1>1. UNCHANGED officeVars
  BY DEF ReviewNext, OpenReview, LoadReview, CommitReview, Withdraw
<1>2. decide \in [Deciders -> Decision]
  BY DEF WorkspaceTypeOK, Decision
<1>3. SUFFICES /\ review' \in [status : ReviewStatus, by : Reviewers \cup {Nobody}]
               /\ trail' \subseteq TrailRow
               /\ decide' \in [Deciders -> Decision]
               /\ decisions' \in 0..MaxReviews
  BY <1>1 DEF WorkspaceTypeOK, Decision, officeVars
<1>4. NoDecision \in Decision
  BY WorkspaceConstants DEF NoDecision, Decision, ReviewStatus
<1>5. ASSUME NEW h \in Deciders, NEW u \in Reviewers, OpenReview(h, u)
      PROVE  decide' \in [Deciders -> Decision]
  <2>1. [NoDecision EXCEPT !.by = u, !.began = decisions] \in Decision
    BY <1>4 DEF Decision, WorkspaceTypeOK
  <2> QED BY <1>2, <1>5, <2>1 DEF OpenReview
<1>6. ASSUME NEW h \in Deciders, NEW new \in ReviewStatus, LoadReview(h, new)
      PROVE  decide' \in [Deciders -> Decision]
  <2>1. [decide[h] EXCEPT !.loaded = TRUE, !.status = new, !.old = review.status,
                          !.oldBy = review.by] \in Decision
    BY <1>2 DEF Decision, WorkspaceTypeOK
  <2> QED BY <1>2, <1>6, <2>1 DEF LoadReview
<1>7. ASSUME NEW h \in Deciders, CommitReview(h)
      PROVE  /\ review' \in [status : ReviewStatus, by : Reviewers \cup {Nobody}]
             /\ trail' \subseteq TrailRow
             /\ decide' \in [Deciders -> Decision]
             /\ decisions' \in 0..MaxReviews
  <2>1. decide[h] \in Decision /\ decide[h].by # Nobody
    BY <1>2, <1>7 DEF CommitReview, ReviewInv, Loaded
  <2>2. decisions + 1 \in 0..MaxReviews
    BY <1>7, WorkspaceConstants DEF CommitReview, WorkspaceTypeOK
  <2>3. [created |-> decide[h].began, committed |-> decisions + 1, by |-> decide[h].by,
         before |-> decide[h].old, after |-> decide[h].status] \in TrailRow
    BY <2>1, <2>2 DEF TrailRow, Decision
  <2>4. trail' \subseteq TrailRow
    BY <1>7, <2>3 DEF CommitReview, WorkspaceTypeOK
  <2>5. review' \in [status : ReviewStatus, by : Reviewers \cup {Nobody}]
    BY <1>7, <2>1 DEF CommitReview, WorkspaceTypeOK, NewReviewer, Decision
  <2> QED BY <1>2, <1>4, <1>7, <2>2, <2>4, <2>5 DEF CommitReview
<1>8. ASSUME NEW h \in Deciders, Withdraw(h)
      PROVE  decide' \in [Deciders -> Decision]
  BY <1>2, <1>4, <1>8 DEF Withdraw
<1> QED BY <1>5, <1>6, <1>7, <1>8 DEF ReviewNext, OpenReview, LoadReview, Withdraw, WorkspaceTypeOK

-----------------------------------------------------------------------------
\* A request that reads, and if it is ready leaves a primary office, outdates nobody.
LEMMA ReadingKeeps ==
  ASSUME OfficesTyped, OfficesInv, NEW h \in Editors, NEW e \in Edit,
         UNCHANGED <<office, officesSkewed>>, edit' = [edit EXCEPT ![h] = e],
         e.ready => e.op # "none", ~officesSkewed /\ ~e.stale => Reading(e)
  PROVE  OfficesInv'
<1>1. PrimaryOffice'
  BY DEF OfficesInv, PrimaryOffice, Primary, Exists
<1>2. Planned'
  BY DEF OfficesInv, Planned, OfficesTyped
<1>3. EditReading'
  <2> SUFFICES ASSUME ~officesSkewed', NEW g \in Editors, edit'[g].op # "none", ~edit'[g].stale
               PROVE  Reading(edit[g])'
    BY DEF EditReading
  <2>1. CASE g = h
    BY <2>1 DEF OfficesTyped, Reading, OfficeStored, Edited, FirstReading, Exists, Primary
  <2>2. CASE g # h
    BY <2>2 DEF OfficesTyped, OfficesInv, EditReading, Reading, OfficeStored, Edited, FirstReading,
       Exists, Primary
  <2> QED BY <2>1, <2>2
<1> QED BY <1>1, <1>2, <1>3 DEF OfficesInv

\* A primary office remains, if the requests do not overlap.
LEMMA OfficesStep ==
  ASSUME WorkspaceTypeOK, OfficesInv, OfficesNext
  PROVE  OfficesInv'
<1> USE DEF OfficesTyped
<1>1. OfficesTyped
  BY DEF WorkspaceTypeOK, Office, Edit
<1>2. ASSUME NEW h \in Editors, NEW o \in Offices, NEW wanted \in BOOLEAN, BeginCreate(h, o, wanted)
      PROVE  OfficesInv'
  <2> DEFINE primary == wanted \/ \A p \in Offices : ~Exists(p)
             e == [NoEdit EXCEPT !.op = "create", !.office = o, !.primary = primary]
  <2>1. primary \in BOOLEAN
    OBVIOUS
  <2>2. e \in Edit /\ ~e.ready
    BY <2>1 DEF NoEdit, Edit
  <2>3. Reading(e)
    BY <1>2 DEF BeginCreate, Reading, FirstReading, NoEdit
  <2>4. UNCHANGED <<office, officesSkewed>> /\ edit' = [edit EXCEPT ![h] = e]
    BY <1>2 DEF BeginCreate, BeginEdit
  <2> QED BY <1>1, <2>2, <2>3, <2>4, ReadingKeeps
<1>3. ASSUME NEW h \in Editors, NEW o \in Offices, NEW op \in {"promote", "delete"}, BeginChange(h, o, op)
      PROVE  OfficesInv'
  <2> DEFINE e == [NoEdit EXCEPT !.op = op, !.office = o, !.primary = Primary(o)]
  <2>1. e \in Edit /\ ~e.ready
    BY DEF NoEdit, Edit, Primary
  <2>2. Reading(e)
    BY <1>3 DEF BeginChange, Reading, FirstReading, NoEdit
  <2>3. UNCHANGED <<office, officesSkewed>> /\ edit' = [edit EXCEPT ![h] = e]
    BY <1>3 DEF BeginChange, BeginEdit
  <2> QED BY <1>1, <2>1, <2>2, <2>3, ReadingKeeps
<1>4. ASSUME NEW h \in Editors, NEW demote \in SUBSET Offices, NEW promote \in Offices \cup {Nobody},
             edit[h].op # "none", ~edit[h].ready, Plan(h, demote, promote),
             ~officesSkewed /\ ~edit[h].stale =>
               OfficeStored(Edited([edit[h] EXCEPT !.ready = TRUE, !.demote = demote,
                                                   !.promote = promote]))
      PROVE  OfficesInv'
  <2> DEFINE e == [edit[h] EXCEPT !.ready = TRUE, !.demote = demote, !.promote = promote]
  <2>1. e \in Edit /\ e.ready /\ e.op = edit[h].op /\ e.stale = edit[h].stale
    BY <1>1 DEF Edit
  <2>2. ~officesSkewed /\ ~e.stale => Reading(e)
    BY <1>4, <2>1 DEF Reading
  <2>3. UNCHANGED <<office, officesSkewed>> /\ edit' = [edit EXCEPT ![h] = e]
    BY <1>1, <1>4 DEF Plan
  <2> QED BY <1>1, <1>4, <2>1, <2>2, <2>3, ReadingKeeps
<1>5. ASSUME NEW h \in Editors, PlanCreate(h)
      PROVE  OfficesInv'
  <2> DEFINE d == edit[h]
             demote == IF d.primary THEN {p \in Offices : Primary(p)} ELSE {}
             promote == IF d.primary THEN d.office ELSE Nobody
             e == [d EXCEPT !.ready = TRUE, !.demote = demote, !.promote = promote]
  <2>1. d \in Edit /\ d.op = "create" /\ ~d.ready
    BY <1>1, <1>5 DEF PlanCreate, Undecided
  <2>2. Plan(h, demote, promote)
    BY <1>5 DEF PlanCreate
  <2>3. demote \in SUBSET Offices /\ promote \in Offices \cup {Nobody}
    BY <2>1 DEF Edit
  <2>4. e.op = "create" /\ e.office = d.office /\ e.demote = demote /\ e.promote = promote
    BY <2>1 DEF Edit
  <2>5. ASSUME ~officesSkewed, ~d.stale PROVE OfficeStored(Edited(e))
    <3>1. d.office \in Offices /\ office[d.office] = "new" /\ (~d.primary => \E p \in Offices : Exists(p))
      BY <2>1, <2>5 DEF OfficesInv, EditReading, Reading, FirstReading
    <3>2. CASE d.primary
      <4>1. Edited(e)[d.office] = "primary"
        BY <2>4, <3>1, <3>2 DEF Edited
      <4> QED BY <3>1, <4>1 DEF OfficeStored
    <3>3. CASE ~d.primary
      <4>1. PICK p \in Offices : Primary(p)
        BY <2>5, <3>1, <3>3 DEF OfficesInv, PrimaryOffice
      <4>2. p # d.office /\ p # Nobody
        BY <3>1, <4>1, WorkspaceConstants DEF Primary
      <4>3. Edited(e)[p] = "primary"
        BY <2>4, <3>3, <4>1, <4>2 DEF Edited, Primary
      <4> QED BY <4>3 DEF OfficeStored
    <3> QED BY <3>2, <3>3
  <2> QED BY <1>4, <2>1, <2>2, <2>3, <2>5
<1>6. ASSUME NEW h \in Editors, PlanPromote(h)
      PROVE  OfficesInv'
  <2> DEFINE d == edit[h]
             demote == {p \in Offices : Primary(p) /\ p # d.office}
             promote == IF d.primary THEN Nobody ELSE d.office
             e == [d EXCEPT !.ready = TRUE, !.demote = demote, !.promote = promote]
  <2>1. d \in Edit /\ d.op = "promote" /\ ~d.ready
    BY <1>1, <1>6 DEF PlanPromote, Undecided
  <2>2. Plan(h, demote, promote)
    BY <1>6 DEF PlanPromote
  <2>3. demote \in SUBSET Offices /\ promote \in Offices \cup {Nobody}
    BY <2>1 DEF Edit
  <2>4. e.op = "promote" /\ e.office = d.office /\ e.demote = demote /\ e.promote = promote
    BY <2>1 DEF Edit
  <2>5. ASSUME ~officesSkewed, ~d.stale PROVE OfficeStored(Edited(e))
    <3>1. d.office \in Offices /\ (d.primary <=> Primary(d.office))
      BY <2>1, <2>5 DEF OfficesInv, EditReading, Reading, FirstReading
    <3>2. d.office # Nobody
      BY <3>1, WorkspaceConstants
    <3>3. Edited(e)[d.office] = "primary"
      BY <2>4, <3>1, <3>2 DEF Edited, Primary
    <3> QED BY <3>1, <3>3 DEF OfficeStored
  <2> QED BY <1>4, <2>1, <2>2, <2>3, <2>5
<1>7. ASSUME NEW h \in Editors, NEW heir \in Offices \cup {Nobody}, PlanDelete(h, heir)
      PROVE  OfficesInv'
  <2> DEFINE d == edit[h]
             e == [d EXCEPT !.ready = TRUE, !.demote = {}, !.promote = heir]
             remaining == {p \in Offices : Exists(p) /\ p # d.office}
  <2>1. d \in Edit /\ d.op = "delete" /\ ~d.ready
    BY <1>1, <1>7 DEF PlanDelete, Undecided
  <2>2. Plan(h, {}, heir)
    BY <1>7 DEF PlanDelete
  <2>3. e.op = "delete" /\ e.office = d.office /\ e.demote = {} /\ e.promote = heir
    BY <2>1 DEF Edit
  <2>4. ASSUME ~officesSkewed, ~d.stale PROVE OfficeStored(Edited(e))
    <3>1. d.office \in Offices /\ Exists(d.office) /\ (d.primary <=> Primary(d.office))
      BY <2>1, <2>4 DEF OfficesInv, EditReading, Reading, FirstReading
    <3>2. CASE \E p \in remaining : Primary(p)
      <4>1. PICK p \in Offices : p # d.office /\ Primary(p)
        BY <3>2
      <4>2. Edited(e)[p] = "primary"
        BY <2>3, <4>1 DEF Edited, Primary
      <4> QED BY <4>2 DEF OfficeStored
    <3>3. CASE remaining = {}
      <4>1. heir = Nobody
        BY <1>7, <3>3 DEF PlanDelete
      <4>2. \A p \in Offices : p # d.office => office[p] \notin {"plain", "primary"}
        BY <3>3 DEF Exists
      <4>3. \A p \in Offices : Edited(e)[p] \notin {"plain", "primary"}
        BY <2>3, <4>1, <4>2, WorkspaceConstants DEF Edited
      <4> QED BY <4>3 DEF OfficeStored
    <3>4. CASE remaining # {} /\ \A p \in remaining : ~Primary(p)
      <4>1. PICK p \in Offices : Primary(p)
        BY <2>4, <3>1 DEF OfficesInv, PrimaryOffice
      <4>2. p = d.office
        BY <3>4, <4>1 DEF Exists, Primary
      <4>3. heir \in remaining
        BY <1>7, <3>1, <3>4, <4>1, <4>2 DEF PlanDelete
      <4>4. Edited(e)[heir] = "primary"
        BY <2>3, <4>3 DEF Edited
      <4> QED BY <4>3, <4>4 DEF OfficeStored
    <3> QED BY <3>2, <3>3, <3>4
  <2> QED BY <1>4, <2>1, <2>2, <2>4
<1>8. ASSUME NEW h \in Editors, CommitEdit(h)
      PROVE  OfficesInv'
  <2>1. /\ office' = Edited(edit[h]) /\ officesSkewed' = (officesSkewed \/ edit[h].stale)
        /\ edit[h].ready /\ edit[h].op # "none"
    BY <1>8 DEF CommitEdit, OfficesInv, Planned
  <2>2. PrimaryOffice'
    <3>1. \A o, p \in Offices : Primary(o)' /\ Primary(p)' => o = p
      BY <1>8, <2>1 DEF CommitEdit, Primary
    <3>2. ~officesSkewed' => OfficeStored(office')
      BY <2>1 DEF OfficesInv, EditReading, Reading
    <3> QED BY <3>1, <3>2 DEF PrimaryOffice, Primary, Exists, OfficeStored
  <2>3. \A g \in Editors : edit'[g].op = "none" \/ edit'[g].stale
    BY <1>1, <1>8 DEF CommitEdit, NoEdit, Edit
  <2>4. EditReading'
    BY <2>3 DEF EditReading
  <2>5. \A g \in Editors : [edit[g] EXCEPT !.stale = TRUE].ready = edit[g].ready
                           /\ [edit[g] EXCEPT !.stale = TRUE].op = edit[g].op
    BY <1>1 DEF Edit
  <2>6. Planned'
    BY <1>1, <1>8, <2>5 DEF CommitEdit, NoEdit, OfficesInv, Planned
  <2> QED BY <2>2, <2>4, <2>6 DEF OfficesInv
<1>9. ASSUME NEW h \in Editors, GiveUp(h)
      PROVE  OfficesInv'
  <2>1. NoEdit \in Edit /\ ~NoEdit.ready /\ NoEdit.op = "none"
    BY DEF NoEdit, Edit
  <2>2. Reading(NoEdit)
    BY <2>1 DEF Reading, FirstReading
  <2>3. UNCHANGED <<office, officesSkewed>> /\ edit' = [edit EXCEPT ![h] = NoEdit]
    BY <1>9 DEF GiveUp
  <2> QED BY <1>1, <2>1, <2>2, <2>3, ReadingKeeps
<1> QED BY <1>2, <1>3, <1>5, <1>6, <1>7, <1>8, <1>9 DEF OfficesNext

\* A decision adds the row its number belongs to, and continues the trail if nobody
\* outdated it.
LEMMA ReviewStep ==
  ASSUME WorkspaceTypeOK, ReviewInv, ReviewNext
  PROVE  ReviewInv'
<1>1. decide \in [Deciders -> Decision] /\ decisions \in Nat /\ trail \subseteq TrailRow
  BY WorkspaceConstants DEF WorkspaceTypeOK, Decision
<1>2. ASSUME UNCHANGED <<review, trail, decisions>>
      PROVE  TrailNumbered' /\ TrailChained'
  BY <1>2 DEF ReviewInv, TrailNumbered, TrailChained, Before
<1>3. ASSUME NEW h \in Deciders, NEW u \in Reviewers, OpenReview(h, u)
      PROVE  ReviewInv'
  <2> DEFINE d == [NoDecision EXCEPT !.by = u, !.began = decisions]
  <2>1. ~d.loaded /\ d.began = decisions
    BY DEF NoDecision
  <2>2. decide' = [decide EXCEPT ![h] = d] /\ UNCHANGED <<review, trail, decisions>>
    BY <1>3 DEF OpenReview
  <2>3. Loaded' /\ DecisionReading'
    BY <1>1, <2>1, <2>2 DEF ReviewInv, Loaded, DecisionReading
  <2> QED BY <1>2, <2>2, <2>3 DEF ReviewInv
<1>4. ASSUME NEW h \in Deciders, NEW new \in ReviewStatus, LoadReview(h, new)
      PROVE  ReviewInv'
  <2> DEFINE d == [decide[h] EXCEPT !.loaded = TRUE, !.status = new, !.old = review.status,
                                    !.oldBy = review.by]
  <2>1. d.by = decide[h].by /\ d.began = decide[h].began /\ d.old = review.status /\ d.oldBy = review.by
    BY <1>1 DEF Decision
  <2>2. /\ decide' = [decide EXCEPT ![h] = d] /\ UNCHANGED <<review, trail, decisions>>
        /\ decide[h].by # Nobody
    BY <1>4 DEF LoadReview
  <2>3. Loaded' /\ DecisionReading'
    BY <1>1, <2>1, <2>2 DEF ReviewInv, Loaded, DecisionReading
  <2> QED BY <1>2, <2>2, <2>3 DEF ReviewInv
<1>5. ASSUME NEW h \in Deciders, CommitReview(h)
      PROVE  ReviewInv'
  <2> DEFINE d == decide[h]
             row == [created |-> d.began, committed |-> decisions + 1, by |-> d.by,
                     before |-> d.old, after |-> d.status]
  <2>1. /\ d.loaded /\ d.by # Nobody /\ d \in Decision /\ d.began \in Nat /\ d.began <= decisions
        /\ d.began = decisions => d.old = review.status /\ d.oldBy = review.by
    BY <1>1, <1>5, WorkspaceConstants DEF CommitReview, ReviewInv, Loaded, DecisionReading, Decision
  <2>2. /\ trail' = trail \cup {row} /\ decisions' = decisions + 1
        /\ decide' = [decide EXCEPT ![h] = NoDecision]
        /\ review'.status = d.status
        /\ review'.by = IF NewReviewer(d) = d.oldBy THEN review.by ELSE NewReviewer(d)
    BY <1>5 DEF CommitReview
  <2>3. \A r \in trail : r.created \in Nat /\ r.committed \in Nat /\ r.committed <= decisions
    BY <1>1, WorkspaceConstants DEF TrailRow, ReviewInv, TrailNumbered
  <2>4. row.created = d.began /\ row.committed = decisions + 1 /\ row.by = d.by /\ row.before = d.old
        /\ row.after = d.status
    OBVIOUS
  <2>5. Loaded'
    BY <1>1, <2>2 DEF ReviewInv, Loaded, NoDecision
  <2>6. DecisionReading'
    <3> SUFFICES ASSUME NEW g \in Deciders, decide'[g].by # Nobody
                 PROVE  decide'[g].began <= decisions' /\ decide'[g].began # decisions'
      BY DEF DecisionReading
    <3>1. g # h /\ decide'[g] = decide[g]
      BY <1>1, <2>2 DEF NoDecision
    <3>2. decide[g].began \in Nat /\ decide[g].began <= decisions
      BY <1>1, <3>1, WorkspaceConstants DEF ReviewInv, DecisionReading, Decision
    <3> QED BY <1>1, <2>2, <3>1, <3>2
  <2>7. TrailNumbered'
    <3>1. \A r \in trail' : r.created < r.committed /\ r.committed <= decisions'
      BY <1>1, <2>1, <2>2, <2>3, <2>4 DEF ReviewInv, TrailNumbered
    <3>2. ASSUME NEW n \in 1..decisions' PROVE \E r \in trail' : r.committed = n
      <4>1. CASE n = decisions + 1
        BY <2>2, <2>4, <4>1
      <4>2. CASE n # decisions + 1
        <5>1. n \in 1..decisions
          BY <1>1, <2>2, <4>2
        <5> QED BY <2>2, <5>1 DEF ReviewInv, TrailNumbered
      <4> QED BY <4>1, <4>2
    <3>3. \A r, s \in trail' : r.committed = s.committed => r = s
      BY <1>1, <2>2, <2>3, <2>4 DEF ReviewInv, TrailNumbered
    <3> QED BY <3>1, <3>2, <3>3 DEF TrailNumbered
  <2>8. \A n, x : Before(n, x) => Before(n, x)'
    BY <2>2 DEF Before
  <2>9. TrailChained'
    <3>1. Before(decisions, review.status)'
      <4>1. row \in trail' /\ row.committed = decisions' /\ row.after = review'.status
        BY <2>2, <2>4
      <4>2. decisions' # 0
        BY <1>1, <2>2
      <4> QED BY <4>1, <4>2 DEF Before
    <3>2. ASSUME NEW r \in trail', r.committed = r.created + 1
          PROVE  Before(r.created, r.before)'
      <4>1. CASE r \in trail
        BY <2>8, <3>2, <4>1 DEF ReviewInv, TrailChained
      <4>2. CASE r = row
        <5>1. d.began = decisions
          BY <1>1, <2>1, <2>4, <3>2, <4>2
        <5>2. Before(r.created, r.before)
          BY <2>1, <2>4, <4>2, <5>1 DEF ReviewInv, TrailChained
        <5> QED BY <2>8, <5>2
      <4> QED BY <2>2, <4>1, <4>2
    <3>3. ASSUME NEW r \in trail', r.committed = decisions', r.created + 1 = decisions'
          PROVE  review'.by = By(r.after, r.by)
      <4>1. r = row
        BY <1>1, <2>2, <2>3, <3>3
      <4>2. d.began = decisions
        BY <1>1, <2>1, <2>2, <2>4, <3>3, <4>1
      <4>3. review'.by = NewReviewer(d)
        BY <2>1, <2>2, <4>2
      <4> QED BY <2>4, <4>1, <4>3 DEF NewReviewer, By
    <3> QED BY <3>1, <3>2, <3>3 DEF TrailChained, By
  <2> QED BY <2>5, <2>6, <2>7, <2>9 DEF ReviewInv
<1>6. ASSUME NEW h \in Deciders, Withdraw(h)
      PROVE  ReviewInv'
  <2>1. decide' = [decide EXCEPT ![h] = NoDecision] /\ UNCHANGED <<review, trail, decisions>>
    BY <1>6 DEF Withdraw
  <2>2. Loaded' /\ DecisionReading'
    BY <1>1, <2>1 DEF ReviewInv, Loaded, DecisionReading, NoDecision
  <2> QED BY <1>2, <2>1, <2>2 DEF ReviewInv
<1> QED BY <1>3, <1>4, <1>5, <1>6 DEF ReviewNext

\* The numbered and chained rows are, in the order of created_at, the trail the
\* property speaks of: a row nothing overlapped was committed next after it was begun.
LEMMA ChainTells ==
  ASSUME WorkspaceTypeOK, ReviewInv
  PROVE  TrailTellsStatus
<1>1. decisions \in Nat
  BY WorkspaceConstants DEF WorkspaceTypeOK
<1>2. \A r \in trail : /\ r.created \in Nat /\ r.committed \in Nat
                       /\ r.created < r.committed /\ r.committed <= decisions
  BY WorkspaceConstants DEF WorkspaceTypeOK, TrailRow, ReviewInv, TrailNumbered
<1>3. \A n \in 1..decisions : \E r \in trail : r.committed = n
  BY DEF ReviewInv, TrailNumbered
<1>4. \A r, s \in trail : r.committed = s.committed => r = s
  BY DEF ReviewInv, TrailNumbered
<1>5. SUFFICES ASSUME NEW s \in trail, Alone(s)
               PROVE  /\ Newest(s) => /\ review.status = s.after
                                      /\ review.by = By(s.after, s.by)
                      /\ \A r \in trail : Alone(r) /\ NextTo(r, s) => s.before = r.after
  <2>1. review = [status |-> review.status, by |-> review.by]
    BY DEF WorkspaceTypeOK
  <2> QED BY <2>1 DEF TrailTellsStatus, By
<1>6. s.committed = s.created + 1
  <2> SUFFICES ASSUME s.created + 1 < s.committed PROVE FALSE
    BY <1>1, <1>2
  <2>1. s.created + 1 \in 1..decisions
    BY <1>1, <1>2
  <2>2. PICK t \in trail : t.committed = s.created + 1
    BY <1>3, <2>1
  <2>3. t.committed <= s.created \/ s.committed <= t.created
    BY <1>2, <1>5, <2>2 DEF Alone
  <2> QED BY <1>2, <2>2, <2>3
<1>7. ASSUME Newest(s) PROVE review.status = s.after /\ review.by = By(s.after, s.by)
  <2>1. decisions \in 1..decisions
    BY <1>1, <1>2
  <2>2. PICK t \in trail : t.committed = decisions
    BY <1>3, <2>1
  <2>3. t = s
    <3> SUFFICES ASSUME t # s PROVE FALSE
      OBVIOUS
    <3>1. s.committed <= decisions /\ s.committed # decisions
      BY <1>2, <1>4, <2>2
    <3>2. t.committed <= s.created \/ s.committed <= t.created
      BY <1>5 DEF Alone
    <3>3. t.created <= s.created
      BY <1>7 DEF Newest
    <3> QED BY <1>1, <1>2, <2>2, <3>1, <3>2, <3>3
  <2>4. review.by = By(s.after, s.by)
    BY <1>6, <2>2, <2>3 DEF ReviewInv, TrailChained
  <2>5. review.status = s.after
    BY <1>4, <2>1, <2>2, <2>3 DEF ReviewInv, TrailChained, Before
  <2> QED BY <2>4, <2>5
<1>8. ASSUME NEW r \in trail, Alone(r), NextTo(r, s) PROVE s.before = r.after
  <2>1. r.created < s.created
    BY <1>8 DEF NextTo
  <2>2. s.created \in 1..decisions
    BY <1>1, <1>2, <2>1
  <2>3. PICK t \in trail : t.committed = s.created
    BY <1>3, <2>2
  <2>4. t # s
    BY <1>2, <2>3
  <2>5. t = r
    <3> SUFFICES ASSUME t # r PROVE FALSE
      OBVIOUS
    <3>1. t.created <= r.created \/ s.created <= t.created
      BY <1>8, <2>4 DEF NextTo
    <3>2. t.committed <= r.created \/ r.committed <= t.created
      BY <1>8 DEF Alone
    <3> QED BY <1>2, <2>1, <2>3, <3>1, <3>2
  <2>6. Before(s.created, s.before)
    BY <1>6 DEF ReviewInv, TrailChained
  <2>7. PICK u \in trail : u.committed = s.created /\ u.after = s.before
    BY <2>2, <2>6 DEF Before
  <2> QED BY <1>4, <2>3, <2>5, <2>7
<1> QED BY <1>7, <1>8

-----------------------------------------------------------------------------
\* Types, readings, offices and trail hold in every reachable state.
THEOREM WorkspaceInvariance == WorkspaceSpec => []WorkspaceInv
<1>1. WorkspaceInit => WorkspaceInv
  <2> SUFFICES ASSUME WorkspaceInit PROVE WorkspaceInv
    OBVIOUS
  <2>1. WorkspaceTypeOK
    <3>1. NoDecision \in Decision
      BY WorkspaceConstants DEF NoDecision, ReviewStatus, Decision
    <3>2. NoEdit \in Edit
      BY DEF NoEdit, Edit
    <3>3. /\ office \in [Offices -> Office] /\ edit \in [Editors -> Edit] /\ officesSkewed \in BOOLEAN
          /\ decide \in [Deciders -> Decision]
      BY <3>1, <3>2 DEF WorkspaceInit, Office
    <3>4. /\ review \in [status : ReviewStatus, by : Reviewers \cup {Nobody}]
          /\ trail \subseteq TrailRow /\ decisions \in 0..MaxReviews
      BY WorkspaceConstants DEF WorkspaceInit, ReviewStatus
    <3> QED BY <3>3, <3>4 DEF WorkspaceTypeOK, Decision, Edit, Office
  <2>2. OfficesInv
    BY DEF WorkspaceInit, OfficesInv, Planned, EditReading, PrimaryOffice, Primary, Exists, NoEdit
  <2>3. ReviewInv
    BY DEF WorkspaceInit, ReviewInv, Loaded, DecisionReading, TrailNumbered, TrailChained, Before,
       NoDecision
  <2> QED BY <2>1, <2>2, <2>3 DEF WorkspaceInv
<1>2. ASSUME WorkspaceInv, [WorkspaceNext]_workspaceVars PROVE WorkspaceInv'
  <2>1. CASE OfficesNext
    <3>1. UNCHANGED reviewVars
      BY <2>1 DEF OfficesNext, BeginCreate, BeginChange, BeginEdit, PlanCreate, PlanPromote, PlanDelete,
         Plan, CommitEdit, GiveUp
    <3>2. ReviewInv'
      BY <1>2, <3>1 DEF WorkspaceInv, ReviewInv, Loaded, DecisionReading, TrailNumbered, TrailChained,
         Before, reviewVars
    <3> QED BY <1>2, <2>1, <3>2, OfficesTypes, OfficesStep DEF WorkspaceInv
  <2>2. CASE ReviewNext
    <3>1. UNCHANGED officeVars
      BY <2>2 DEF ReviewNext, OpenReview, LoadReview, CommitReview, Withdraw
    <3>2. OfficesInv'
      BY <1>2, <3>1 DEF WorkspaceInv, OfficesInv, Planned, EditReading, Reading, FirstReading,
         PrimaryOffice, Primary, Exists, OfficeStored, Edited, officeVars
    <3> QED BY <1>2, <2>2, <3>2, ReviewTypes, ReviewStep DEF WorkspaceInv
  <2>3. CASE UNCHANGED workspaceVars
    BY <1>2, <2>3 DEF workspaceVars, officeVars, reviewVars, WorkspaceInv, WorkspaceTypeOK, OfficesInv,
       Planned, EditReading, Reading, FirstReading, PrimaryOffice, Primary, Exists, OfficeStored, Edited,
       ReviewInv, Loaded, DecisionReading, TrailNumbered, TrailChained, Before
  <2> QED BY <1>2, <2>1, <2>2, <2>3 DEF WorkspaceNext
<1> QED BY <1>1, <1>2, PTL DEF WorkspaceSpec

\* Every request on offices and reviews keeps the types of the rows.
THEOREM WorkspaceTypes == WorkspaceSpec => []WorkspaceTypeOK
<1>1. WorkspaceInv => WorkspaceTypeOK
  BY DEF WorkspaceInv
<1> QED BY <1>1, WorkspaceInvariance, PTL

\* services/org_profile.py: there is never a second primary office, and always one
\* where there is an office, unless two requests overlapped.
THEOREM OnePrimaryOffice == WorkspaceSpec => []PrimaryOffice
<1>1. WorkspaceInv => PrimaryOffice
  BY DEF WorkspaceInv, OfficesInv
<1> QED BY <1>1, WorkspaceInvariance, PTL

\* services/review.py and the order of list_audit: wherever decisions did not overlap,
\* the newest row of the trail tells the stored status and its reviewer, and each row
\* continues the one before it.
THEOREM TrailIsTrue == WorkspaceSpec => []TrailTellsStatus
<1>1. WorkspaceInv => TrailTellsStatus
  BY ChainTells DEF WorkspaceInv
<1> QED BY <1>1, WorkspaceInvariance, PTL

-----------------------------------------------------------------------------
(* The components side by side                                             *)

\* A behaviour of the composition is one of each component: what moves one of them
\* is a step of it and leaves the others as they are.
THEOREM AccountsComponents == Spec => MembersSpec /\ WorkspaceSpec /\ SessionsSpec /\ DocumentsSpec
<1>1. Init => MembersInit /\ WorkspaceInit /\ SessionsInit /\ DocumentsInit
  BY DEF Init
<1>2. [Next]_vars => [MembersNext]_memberVars
  BY DEF Next, vars, Members, OfficeList, Reviews, SignIns, Intake
<1>3. [Next]_vars => [WorkspaceNext]_workspaceVars
  BY DEF Next, vars, Members, OfficeList, Reviews, SignIns, Intake, WorkspaceNext
<1>4. [Next]_vars => [SessionsNext]_sessionVars
  BY DEF Next, vars, Members, OfficeList, Reviews, SignIns, Intake
<1>5. [Next]_vars => [DocumentsNext]_documentVars
  BY DEF Next, vars, Members, OfficeList, Reviews, SignIns, Intake
<1> QED
  BY <1>1, <1>2, <1>3, <1>4, <1>5, PTL DEF Spec, MembersSpec, WorkspaceSpec, SessionsSpec, DocumentsSpec

\* Every request on members, offices, reviews, sessions and documents keeps the types
\* of the rows, whichever of the components moves.
THEOREM AccountTypes == Spec => []TypesOK
<1>1. MembersTypeOK /\ WorkspaceTypeOK /\ SessionsTypeOK /\ DocumentsTypeOK => TypesOK
  BY DEF TypesOK
<1> QED
  BY <1>1, AccountsComponents, MembershipTypes, WorkspaceTypes, TypeCorrect, DocumentsTypes, PTL
=============================================================================
