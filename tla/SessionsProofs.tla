--------------------------- MODULE SessionsProofs ---------------------------
(***************************************************************************)
(* Proofs about Sessions, for every set of tokens, links and requests in   *)
(* flight.                                                                 *)
(***************************************************************************)
EXTENDS Sessions, TLAPS

\* A refresh or a logout knows a token that exists, and that is live unless the
\* reading is outdated; a sign-out knows tokens that exist; a login's first token is
\* never given away.
RowsKnown ==
  \A t \in Tokens : token[t].row # "none" =>
    token[t].login \in Tokens /\ token[token[t].login].row # "none"

CallsKnown ==
  \A c \in Clients :
    /\ \A t \in call[c].seen : token[t].row # "none"
    /\ call[c].op \in {"rotate", "logout"} =>
         /\ call[c].token \in Tokens /\ token[call[c].token].row # "none"
         /\ call[c].stale \/ token[call[c].token].row = "live"

TokenReading == RowsKnown /\ CallsKnown

\* A live token of a login to be ended is known to the sign-out that will end it,
\* or will be when that looks.
SignOutReading ==
  \A t \in Tokens : token[t].row = "live" /\ token[t].old /\ ~token[t].spared =>
    \E c \in Clients : call[c].op = "select" \/ (call[c].op = "sweep" /\ t \in call[c].seen)

\* A reset that nobody has outdated knows a link that was not used.
LinkReading ==
  \A c \in Clients : call[c].op = "reset" =>
    /\ call[c].link \in Links
    /\ call[c].stale \/ link[call[c].link] \notin {"used", "reused"}

LoginsInv == TokenReading /\ OneTokenPerLogin
LinksInv == LinkReading /\ LinkUsedOnce
IInv == SessionsTypeOK /\ LoginsInv /\ SignOutReading /\ LinksInv

-----------------------------------------------------------------------------
TokenRow == [row : {"none", "live", "revoked"}, expired : BOOLEAN,
             login : Tokens \cup {Null}, old : BOOLEAN, spared : BOOLEAN]
Request == [op : {"none", "login", "rotate", "logout", "reset", "select", "sweep"},
            token : Tokens \cup {Null}, link : Links \cup {Null}, seen : SUBSET Tokens,
            stale : BOOLEAN, old : BOOLEAN]

\* What no other request changes of a request in flight.
Kept(d) == /\ call'[d].op = call[d].op /\ call'[d].token = call[d].token
           /\ call'[d].link = call[d].link /\ call'[d].seen = call[d].seen

Ended(c, S) ==
  /\ call' \in [Clients -> Request]
  /\ call'[c] = NoCall
  /\ \A d \in Clients : d # c =>
       /\ Kept(d)
       /\ call'[d].stale <=> call[d].stale \/ d \in S

\* A request that ends outdates the readers it names, and changes nothing else.
LEMMA ReturnedCalls ==
  ASSUME SessionsTypeOK, NEW c \in Clients, NEW S, Returned(c, S)
  PROVE  Ended(c, S)
<1>1. call \in [Clients -> Request] /\ NoCall \in Request
  BY DEF SessionsTypeOK, Request, NoCall
<1>2. ASSUME NEW d \in Clients, d # c
      PROVE  call'[d] \in Request /\ Kept(d) /\ (call'[d].stale <=> call[d].stale \/ d \in S)
  <2> DEFINE b == call[d].stale \/ d \in S
  <2>1. call'[d] = [call[d] EXCEPT !.stale = b]
    BY <1>2 DEF Returned
  <2>2. b \in BOOLEAN /\ call[d] \in Request
    BY <1>1 DEF Request
  <2> HIDE DEF b
  <2>3. call'[d] \in Request /\ Kept(d) /\ call'[d].stale = b
    BY <2>1, <2>2 DEF Request, Kept
  <2> QED BY <2>3 DEF b
<1>3. call'[c] = NoCall /\ call' = [d \in Clients |-> call'[d]]
  BY DEF Returned
<1> QED BY <1>1, <1>2, <1>3 DEF Ended

\* An order to sign everybody out marks what there is and revokes nothing.
LEMMA OldRows ==
  ASSUME SessionsTypeOK
  PROVE  /\ OldTokens \in [Tokens -> TokenRow]
         /\ \A t \in Tokens : /\ OldTokens[t].row = token[t].row
                              /\ OldTokens[t].login = token[t].login
                              /\ ~OldTokens[t].spared
                              /\ OldTokens[t].old <=> token[t].row # "none"
         /\ OldCalls \in [Clients -> Request]
         /\ \A d \in Clients : /\ OldCalls[d].op = call[d].op
                               /\ OldCalls[d].token = call[d].token
                               /\ OldCalls[d].link = call[d].link
                               /\ OldCalls[d].seen = call[d].seen
                               /\ OldCalls[d].stale = call[d].stale
<1>1. ASSUME NEW t \in Tokens
      PROVE  /\ OldTokens[t] \in TokenRow
             /\ OldTokens[t].row = token[t].row /\ OldTokens[t].login = token[t].login
             /\ ~OldTokens[t].spared /\ (OldTokens[t].old <=> token[t].row # "none")
  <2> DEFINE b == token[t].row # "none"
  <2>1. OldTokens[t] = [token[t] EXCEPT !.old = b, !.spared = FALSE]
    BY DEF OldTokens
  <2>2. b \in BOOLEAN /\ token[t] \in TokenRow
    BY DEF SessionsTypeOK, TokenRow
  <2> HIDE DEF b
  <2>3. /\ OldTokens[t] \in TokenRow
        /\ OldTokens[t].row = token[t].row /\ OldTokens[t].login = token[t].login
        /\ OldTokens[t].spared = FALSE /\ OldTokens[t].old = b
    BY <2>1, <2>2 DEF TokenRow
  <2> QED BY <2>3 DEF b
<1>2. ASSUME NEW d \in Clients
      PROVE  /\ OldCalls[d] \in Request
             /\ OldCalls[d].op = call[d].op /\ OldCalls[d].token = call[d].token
             /\ OldCalls[d].link = call[d].link /\ OldCalls[d].seen = call[d].seen
             /\ OldCalls[d].stale = call[d].stale
  <2> DEFINE b == call[d].op \in {"login", "rotate"}
  <2>1. OldCalls[d] = [call[d] EXCEPT !.old = b]
    BY DEF OldCalls
  <2>2. b \in BOOLEAN /\ call[d] \in Request
    BY DEF SessionsTypeOK, Request
  <2> HIDE DEF b
  <2> QED BY <2>1, <2>2 DEF Request
<1>3. /\ OldTokens = [t \in Tokens |-> OldTokens[t]]
      /\ OldCalls = [d \in Clients |-> OldCalls[d]]
  BY DEF OldTokens, OldCalls
<1> QED BY <1>1, <1>2, <1>3

-----------------------------------------------------------------------------
(* What each action makes of the tokens and of the requests, field by field. *)

Same(s) == /\ token'[s].row = token[s].row /\ token'[s].login = token[s].login
           /\ token'[s].old = token[s].old /\ token'[s].spared = token[s].spared

New(n, c, login) ==
  /\ token'[n].row = "live" /\ token'[n].login = login
  /\ token'[n].old = call[c].old /\ token'[n].spared = call[c].old

Revoked(s) == token'[s].row = "revoked" /\ token'[s].login = token[s].login

LoggedIn(c, t) ==
  /\ call[c].op = "login" /\ token[t].row = "none"
  /\ token' \in [Tokens -> TokenRow]
  /\ New(t, c, t) /\ \A s \in Tokens \ {t} : Same(s)
  /\ Ended(c, {}) /\ UNCHANGED <<link, tangled>>

LEMMA LoginEffect ==
  ASSUME SessionsTypeOK, NEW c \in Clients, NEW t \in Tokens, CommitLogin(c, t)
  PROVE  LoggedIn(c, t)
<1>1. Issued(c, t, t) \in TokenRow
  BY DEF SessionsTypeOK, Issued, TokenRow
<1>2. Ended(c, {})
  BY ReturnedCalls DEF CommitLogin
<1> QED BY <1>1, <1>2 DEF SessionsTypeOK, CommitLogin, TokenRow, New, Same, Issued, LoggedIn

Rotated(c, n, t) ==
  /\ call[c].op = "rotate" /\ token' \in [Tokens -> TokenRow]
  /\ t \in Tokens /\ t # n /\ token[n].row = "none" /\ token[t].row # "none"
  /\ call[c].stale \/ token[t].row = "live"
  /\ New(n, c, token[t].login) /\ Revoked(t)
  /\ \A s \in Tokens \ {n, t} : Same(s)
  /\ Ended(c, Readers({t})) /\ UNCHANGED link
  /\ tangled' = IF call[c].stale THEN tangled \cup {token[t].login} ELSE tangled

LEMMA RotateEffect ==
  ASSUME SessionsTypeOK, TokenReading, NEW c \in Clients, NEW n \in Tokens, CommitRotate(c, n)
  PROVE  Rotated(c, n, call[c].token)
<1> DEFINE t == call[c].token
<1>1. /\ t \in Tokens /\ token[n].row = "none" /\ token[t].row # "none"
      /\ call[c].stale \/ token[t].row = "live"
  BY DEF CommitRotate, TokenReading, CallsKnown
<1>2. t # n
  BY <1>1
<1>3. Issued(c, n, token[t].login) \in TokenRow
  BY <1>1 DEF SessionsTypeOK, Issued, TokenRow
<1>4. token' = [token EXCEPT ![n] = Issued(c, n, token[t].login), ![t].row = "revoked"]
  BY DEF CommitRotate
<1>5. token \in [Tokens -> TokenRow]
  BY DEF SessionsTypeOK, TokenRow
<1>6. /\ token' \in [Tokens -> TokenRow]
      /\ token'[n] = Issued(c, n, token[t].login)
      /\ token'[t] = [token[t] EXCEPT !.row = "revoked"]
      /\ \A s \in Tokens \ {n, t} : token'[s] = token[s]
  BY <1>1, <1>2, <1>3, <1>4, <1>5 DEF TokenRow
<1>7. New(n, c, token[t].login) /\ Revoked(t) /\ \A s \in Tokens \ {n, t} : Same(s)
  BY <1>1, <1>5, <1>6 DEF New, Revoked, Same, Issued, TokenRow
<1>8. Ended(c, Readers({t}))
  BY ReturnedCalls DEF CommitRotate
<1> QED BY <1>1, <1>2, <1>6, <1>7, <1>8 DEF CommitRotate, TangledBy, Rotated

LoggedOut(c, t) ==
  /\ call[c].op = "logout" /\ token' \in [Tokens -> TokenRow]
  /\ t \in Tokens /\ token[t].row # "none" /\ Revoked(t)
  /\ \A s \in Tokens \ {t} : Same(s)
  /\ Ended(c, Readers({t})) /\ UNCHANGED link
  /\ tangled' = IF call[c].stale THEN tangled \cup {token[t].login} ELSE tangled

LEMMA LogoutEffect ==
  ASSUME SessionsTypeOK, TokenReading, NEW c \in Clients, CommitLogout(c)
  PROVE  LoggedOut(c, call[c].token)
<1> DEFINE t == call[c].token
<1>1. t \in Tokens /\ token[t].row # "none"
  BY DEF CommitLogout, TokenReading, CallsKnown
<1>2. token \in [Tokens -> TokenRow]
  BY DEF SessionsTypeOK, TokenRow
<1>3. /\ token' \in [Tokens -> TokenRow]
      /\ token'[t] = [token[t] EXCEPT !.row = "revoked"]
      /\ \A s \in Tokens \ {t} : token'[s] = token[s]
  BY <1>1, <1>2 DEF CommitLogout, TokenRow
<1>4. Ended(c, Readers({t}))
  BY ReturnedCalls DEF CommitLogout
<1> QED BY <1>1, <1>2, <1>3, <1>4 DEF CommitLogout, Revoked, Same, TokenRow, TangledBy, LoggedOut

Swept(c, seen) ==
  /\ call[c].op = "sweep" /\ call[c].seen = seen
  /\ token' \in [Tokens -> TokenRow]
  /\ \A s \in seen : Revoked(s)
  /\ \A s \in Tokens \ seen : Same(s)
  /\ Ended(c, Readers(seen)) /\ UNCHANGED <<link, tangled>>

LEMMA SweepEffect ==
  ASSUME SessionsTypeOK, NEW c \in Clients, CommitSweep(c)
  PROVE  Swept(c, call[c].seen)
<1>1. token \in [Tokens -> TokenRow] /\ call[c].seen \subseteq Tokens
  BY DEF SessionsTypeOK, TokenRow
<1>2. \A s \in Tokens : [token[s] EXCEPT !.row = "revoked"] \in TokenRow
  BY <1>1 DEF TokenRow
<1>3. Ended(c, Readers(call[c].seen))
  BY ReturnedCalls DEF CommitSweep
<1> QED BY <1>1, <1>2, <1>3 DEF CommitSweep, Revoked, Same, TokenRow, Swept

\* A dropped request changes no row; a sign-out that breaks off spares what it had not
\* revoked.
Dropped(c) ==
  /\ token' \in [Tokens -> TokenRow]
  /\ \A s \in Tokens : token'[s].row = token[s].row /\ token'[s].login = token[s].login
  /\ \/ \A s \in Tokens : token'[s].spared = token'[s].old
     \/ UNCHANGED token /\ call[c].op \notin {"select", "sweep"}
  /\ Ended(c, {}) /\ UNCHANGED <<link, tangled>>

LEMMA DropEffect ==
  ASSUME SessionsTypeOK, NEW c \in Clients, Drop(c)
  PROVE  Dropped(c)
<1>1. token \in [Tokens -> TokenRow]
  BY DEF SessionsTypeOK, TokenRow
<1>2. Ended(c, {})
  BY ReturnedCalls DEF Drop
<1>3. CASE call[c].op \in {"select", "sweep"}
  BY <1>1, <1>2, <1>3 DEF Drop, TokenRow, Dropped
<1>4. CASE call[c].op \notin {"select", "sweep"}
  BY <1>1, <1>2, <1>4 DEF Drop, Dropped
<1> QED BY <1>3, <1>4

Ordered == /\ token' \in [Tokens -> TokenRow]
           /\ \A s \in Tokens : /\ token'[s].row = token[s].row
                                /\ token'[s].login = token[s].login
                                /\ ~token'[s].spared

AllOut(c) ==
  /\ Ordered /\ call' \in [Clients -> Request]
  /\ call'[c].op = "sweep" /\ call'[c].seen = {t \in Tokens : token[t].row = "live"}
  /\ \A d \in Clients : d # c => Kept(d) /\ (call'[d].stale <=> call[d].stale)
  /\ call[c].op = "none" /\ UNCHANGED <<link, tangled>>

LEMMA LogoutAllEffect ==
  ASSUME SessionsTypeOK, NEW c \in Clients, BeginLogoutAll(c)
  PROVE  AllOut(c)
<1>1. [NoCall EXCEPT !.op = "sweep", !.seen = LiveTokens] \in Request
  BY DEF NoCall, Request, LiveTokens
<1>2. /\ call' = [OldCalls EXCEPT ![c] = [NoCall EXCEPT !.op = "sweep", !.seen = LiveTokens]]
      /\ token' = OldTokens
  BY DEF BeginLogoutAll
<1> QED BY <1>1, <1>2, OldRows DEF BeginLogoutAll, Kept, Ordered, AllOut, NoCall, LiveTokens

Reset(c, l) ==
  /\ call[c].op = "reset" /\ Ordered /\ call' \in [Clients -> Request]
  /\ call'[c] = [NoCall EXCEPT !.op = "select"]
  /\ \A d \in Clients : d # c => Kept(d) /\ (call'[d].stale <=> call[d].stale \/ call[d].link = l)
  /\ link' \in [Links -> {"none", "open", "expired", "used", "reused"}]
  /\ \A k \in Links : k # l => link'[k] = link[k]
  /\ link[l] \notin {"used", "reused"} \/ call[c].stale => (link'[l] = "reused" => link[l] = "reused")
  /\ UNCHANGED tangled

Looked(c) ==
  /\ call[c].op = "select" /\ call' \in [Clients -> Request]
  /\ call'[c].op = "sweep" /\ call'[c].seen = {t \in Tokens : token[t].row = "live"}
  /\ \A d \in Clients : d # c => call'[d] = call[d]
  /\ UNCHANGED <<token, link, tangled>>

LEMMA SelectEffect ==
  ASSUME SessionsTypeOK, NEW c \in Clients, SelectTokens(c)
  PROVE  Looked(c)
<1>1. call \in [Clients -> Request] /\ LiveTokens \in SUBSET Tokens
  BY DEF SessionsTypeOK, Request, LiveTokens
<1>2. call' = [call EXCEPT ![c] = [call[c] EXCEPT !.op = "sweep", !.seen = LiveTokens]]
  BY <1>1 DEF SelectTokens, Request
<1>3. [call[c] EXCEPT !.op = "sweep", !.seen = LiveTokens] \in Request
  BY <1>1 DEF Request
<1>4. call'[c].op = "sweep" /\ call'[c].seen = LiveTokens
  BY <1>1, <1>2 DEF Request
<1>5. call' \in [Clients -> Request] /\ \A d \in Clients : d # c => call'[d] = call[d]
  BY <1>1, <1>2, <1>3
<1> QED BY <1>4, <1>5 DEF SelectTokens, Looked, LiveTokens

LEMMA ResetEffect ==
  ASSUME SessionsTypeOK, LinkReading, NEW c \in Clients, CommitReset(c)
  PROVE  Reset(c, call[c].link)
<1>1. [NoCall EXCEPT !.op = "select"] \in Request
  BY DEF NoCall, Request
<1>2. ASSUME NEW d \in Clients, d # c
      PROVE  /\ call'[d] \in Request /\ Kept(d)
             /\ call'[d].stale <=> call[d].stale \/ call[d].link = call[c].link
  <2> DEFINE b == OldCalls[d].stale \/ call[d].link = call[c].link
  <2>1. call'[d] = [OldCalls[d] EXCEPT !.stale = b]
    BY <1>2 DEF CommitReset
  <2>2. b \in BOOLEAN /\ OldCalls[d] \in Request
    BY OldRows DEF Request
  <2> HIDE DEF b
  <2>3. call'[d] \in Request /\ Kept(d) /\ call'[d].stale = b
    BY <2>1, <2>2, OldRows DEF Request, Kept
  <2> QED BY <2>3, OldRows DEF b
<1>3. /\ call'[c] = [NoCall EXCEPT !.op = "select"] /\ call' = [d \in Clients |-> call'[d]]
      /\ token' = OldTokens
  BY DEF CommitReset
<1>4. Ordered
  BY <1>3, OldRows DEF Ordered
<1>5. call' \in [Clients -> Request]
  BY <1>1, <1>2, <1>3
<1>6. /\ call[c].op = "reset" /\ UNCHANGED tangled
      /\ link' \in [Links -> {"none", "open", "expired", "used", "reused"}]
      /\ \A k \in Links : k # call[c].link => link'[k] = link[k]
      /\ link[call[c].link] \notin {"used", "reused"} \/ call[c].stale =>
           (link'[call[c].link] = "reused" => link[call[c].link] = "reused")
  BY DEF CommitReset, SessionsTypeOK, LinkReading
<1> QED BY <1>2, <1>3, <1>4, <1>5, <1>6 DEF Reset

-----------------------------------------------------------------------------
\* The requests write values of the columns' types.
LEMMA TypesStep ==
  ASSUME SessionsTypeOK, TokenReading, LinkReading, [SessionsNext]_sessionVars
  PROVE  SessionsTypeOK'
<1>1. ASSUME NEW c \in Clients, NEW t \in Tokens, CommitLogin(c, t)
      PROVE  SessionsTypeOK'
  <2>1. LoggedIn(c, t)
    BY <1>1, LoginEffect
  <2>2. SessionsTypeOK'
    BY <2>1 DEF LoggedIn, New, Same, Ended, Kept, NoCall,
      SessionsTypeOK, TokenReading, RowsKnown, TokenRow, Request
  <2> QED BY <2>2
<1>2. ASSUME NEW c \in Clients, NEW t \in Tokens, BeginRotate(c, t)
      PROVE  SessionsTypeOK'
  BY <1>2 DEF SessionsTypeOK, BeginRotate, Call, NoCall
<1>3. ASSUME NEW c \in Clients, NEW t \in Tokens, CommitRotate(c, t)
      PROVE  SessionsTypeOK'
  <2>1. Rotated(c, t, call[c].token)
    BY <1>3, RotateEffect
  <2>2. SessionsTypeOK'
    BY <2>1 DEF Rotated, New, Same, Revoked, Ended, Kept, Readers,
      NoCall, SessionsTypeOK, TokenReading, RowsKnown, TokenRow, Request
  <2> QED BY <2>2
<1>4. ASSUME NEW c \in Clients, NEW t \in Tokens, BeginLogout(c, t)
      PROVE  SessionsTypeOK'
  BY <1>4 DEF SessionsTypeOK, BeginLogout, Call, NoCall
<1>5. ASSUME NEW c \in Clients, NEW t \in Tokens, BeginReuse(c, t)
      PROVE  SessionsTypeOK'
  <2>1. AllOut(c)
    BY <1>5, LogoutAllEffect DEF BeginReuse
  <2>2. SessionsTypeOK'
    BY <2>1 DEF AllOut, Ordered, Kept, NoCall, SessionsTypeOK,
      TokenReading, RowsKnown, TokenRow, Request
  <2> QED BY <2>2
<1>6. ASSUME NEW c \in Clients, BeginLogin(c)
      PROVE  SessionsTypeOK'
  BY <1>6 DEF SessionsTypeOK, BeginLogin, Call, NoCall
<1>7. ASSUME NEW c \in Clients, CommitLogout(c)
      PROVE  SessionsTypeOK'
  <2>1. LoggedOut(c, call[c].token)
    BY <1>7, LogoutEffect
  <2>2. SessionsTypeOK'
    BY <2>1 DEF LoggedOut, Same, Revoked, Ended, Kept, Readers,
      NoCall, SessionsTypeOK, TokenReading, RowsKnown, TokenRow, Request
  <2> QED BY <2>2
<1>8. ASSUME NEW c \in Clients, BeginLogoutAll(c)
      PROVE  SessionsTypeOK'
  <2>1. AllOut(c)
    BY <1>8, LogoutAllEffect
  <2>2. SessionsTypeOK'
    BY <2>1 DEF AllOut, Ordered, Kept, NoCall, SessionsTypeOK,
      TokenReading, RowsKnown, TokenRow, Request
  <2> QED BY <2>2
<1>9. ASSUME NEW c \in Clients, CommitSweep(c)
      PROVE  SessionsTypeOK'
  <2>1. Swept(c, call[c].seen)
    BY <1>9, SweepEffect
  <2>2. SessionsTypeOK'
    BY <2>1 DEF Swept, Same, Revoked, Ended, Kept, Readers, NoCall,
      SessionsTypeOK, TokenReading, RowsKnown, TokenRow, Request
  <2> QED BY <2>2
<1>10. ASSUME NEW c \in Clients, CommitReset(c)
      PROVE  SessionsTypeOK'
  <2>1. Reset(c, call[c].link)
    BY <1>10, ResetEffect
  <2>2. SessionsTypeOK'
    BY <2>1 DEF Reset, Ordered, Kept, NoCall, SessionsTypeOK,
      TokenReading, RowsKnown, TokenRow, Request
  <2> QED BY <2>2
<1>11. ASSUME NEW c \in Clients, SelectTokens(c)
      PROVE  SessionsTypeOK'
  <2>1. Looked(c)
    BY <1>11, SelectEffect
  <2>2. SessionsTypeOK'
    BY <2>1 DEF Looked, Kept, NoCall, SessionsTypeOK, TokenReading,
      RowsKnown, TokenRow, Request
  <2> QED BY <2>2
<1>12. ASSUME NEW c \in Clients, Drop(c)
      PROVE  SessionsTypeOK'
  <2>1. Dropped(c)
    BY <1>12, DropEffect
  <2>2. SessionsTypeOK'
    BY <2>1 DEF Dropped, Ended, Kept, NoCall, SessionsTypeOK,
      TokenReading, RowsKnown, TokenRow, Request
  <2> QED BY <2>2
<1>13. ASSUME NEW c \in Clients, NEW l \in Links, BeginReset(c, l)
      PROVE  SessionsTypeOK'
  BY <1>13 DEF SessionsTypeOK, BeginReset, Call, NoCall
<1>14. ASSUME NEW t \in Tokens, TokenExpires(t)
      PROVE  SessionsTypeOK'
  BY <1>14 DEF SessionsTypeOK, TokenExpires
<1>15. ASSUME NEW l \in Links, ForgotPassword(l)
      PROVE  SessionsTypeOK'
  BY <1>15 DEF SessionsTypeOK, ForgotPassword
<1>16. ASSUME NEW l \in Links, LinkExpires(l)
      PROVE  SessionsTypeOK'
  BY <1>16 DEF SessionsTypeOK, LinkExpires
<1>17. CASE UNCHANGED sessionVars
  BY <1>17 DEF SessionsTypeOK, sessionVars
<1> QED BY <1>1, <1>2, <1>3, <1>4, <1>5, <1>6, <1>7, <1>8, <1>9, <1>10, <1>11, <1>12, <1>13,
      <1>14, <1>15, <1>16, <1>17
  DEF SessionsNext

\* A commit that nobody outdated leaves a login one live token, and outdates the others.
LEMMA LoginsStep ==
  ASSUME SessionsTypeOK, LoginsInv, LinkReading, [SessionsNext]_sessionVars
  PROVE  LoginsInv'
<1>1. ASSUME NEW c \in Clients, NEW t \in Tokens, CommitLogin(c, t)
      PROVE  LoginsInv'
  <2>1. LoggedIn(c, t)
    BY <1>1, LoginEffect DEF LoginsInv
  <2>2. RowsKnown'
    BY <2>1 DEF LoggedIn, New, Same, Ended, Kept, NoCall, SessionsTypeOK,
      LoginsInv, TokenReading, RowsKnown
  <2>3. CallsKnown'
    BY <2>1 DEF LoggedIn, New, Same, Ended, Kept, NoCall,
      SessionsTypeOK, LoginsInv, TokenReading, CallsKnown
  <2>4. OneTokenPerLogin'
    BY <2>1 DEF LoggedIn, New, Same, Ended, Kept, NoCall,
      SessionsTypeOK, LoginsInv, TokenReading, RowsKnown, OneTokenPerLogin, LiveTokens
  <2> QED BY <2>2, <2>3, <2>4 DEF LoginsInv, TokenReading
<1>2. ASSUME NEW c \in Clients, NEW t \in Tokens, BeginRotate(c, t)
      PROVE  LoginsInv'
  BY <1>2 DEF SessionsTypeOK, LoginsInv, TokenReading, RowsKnown, CallsKnown,
      OneTokenPerLogin, LiveTokens, BeginRotate, Call, NoCall
<1>3. ASSUME NEW c \in Clients, NEW t \in Tokens, CommitRotate(c, t)
      PROVE  LoginsInv'
  <2>1. Rotated(c, t, call[c].token)
    BY <1>3, RotateEffect DEF LoginsInv
  <2>2. RowsKnown'
    <3> DEFINE u == call[c].token
    <3>1. \A s \in Tokens : token[s].row # "none" => token'[s].row # "none"
      BY <2>1 DEF Rotated, New, Same, Revoked
    <3>2. \A s \in Tokens : s # t => token'[s].login = token[s].login /\
                                     (token'[s].row # "none" => token[s].row # "none")
      BY <2>1 DEF Rotated, Same, Revoked
    <3>3. token'[t].login = token[u].login /\ u \in Tokens /\ token[u].row # "none"
      BY <2>1 DEF Rotated, New
    <3> QED BY <3>1, <3>2, <3>3 DEF LoginsInv, TokenReading, RowsKnown
  <2>3. CallsKnown'
    <3> DEFINE u == call[c].token
    <3>1. \A s \in Tokens : token[s].row # "none" => token'[s].row # "none"
      BY <2>1 DEF Rotated, New, Same, Revoked
    <3>2. \A s \in Tokens : s # u /\ token[s].row = "live" => token'[s].row = "live"
      BY <2>1 DEF Rotated, New, Same
    <3>3. ASSUME NEW d \in Clients, d # c
          PROVE  Kept(d) /\ (call'[d].stale <=> call[d].stale \/ call[d].token = u)
      BY <2>1, <3>3 DEF Rotated, Ended, Readers
    <3>4. call'[c].seen = {} /\ call'[c].op = "none"
      BY <2>1 DEF Rotated, Ended, NoCall
    <3>5. \A d \in Clients : call[d].seen \subseteq Tokens
      BY DEF SessionsTypeOK
    <3> QED BY <3>1, <3>2, <3>3, <3>4, <3>5 DEF Kept, LoginsInv, TokenReading, CallsKnown
  <2>4. OneTokenPerLogin'
    BY <2>1 DEF Rotated, New, Same, Revoked, Ended, Kept, Readers,
      NoCall, SessionsTypeOK, LoginsInv, TokenReading, RowsKnown, OneTokenPerLogin,
      LiveTokens
  <2> QED BY <2>2, <2>3, <2>4 DEF LoginsInv, TokenReading
<1>4. ASSUME NEW c \in Clients, NEW t \in Tokens, BeginLogout(c, t)
      PROVE  LoginsInv'
  BY <1>4 DEF SessionsTypeOK, LoginsInv, TokenReading, RowsKnown, CallsKnown,
      OneTokenPerLogin, LiveTokens, BeginLogout, Call, NoCall
<1>5. ASSUME NEW c \in Clients, NEW t \in Tokens, BeginReuse(c, t)
      PROVE  LoginsInv'
  <2>1. AllOut(c)
    BY <1>5, LogoutAllEffect DEF BeginReuse, LoginsInv
  <2>2. RowsKnown'
    BY <2>1 DEF AllOut, Ordered, Kept, NoCall, SessionsTypeOK, LoginsInv,
      TokenReading, RowsKnown
  <2>3. CallsKnown'
    BY <2>1 DEF AllOut, Ordered, Kept, NoCall, SessionsTypeOK,
      LoginsInv, TokenReading, CallsKnown
  <2>4. OneTokenPerLogin'
    BY <2>1 DEF AllOut, Ordered, Kept, NoCall, SessionsTypeOK,
      LoginsInv, TokenReading, RowsKnown, OneTokenPerLogin, LiveTokens
  <2> QED BY <2>2, <2>3, <2>4 DEF LoginsInv, TokenReading
<1>6. ASSUME NEW c \in Clients, BeginLogin(c)
      PROVE  LoginsInv'
  BY <1>6 DEF SessionsTypeOK, LoginsInv, TokenReading, RowsKnown, CallsKnown,
      OneTokenPerLogin, LiveTokens, BeginLogin, Call, NoCall
<1>7. ASSUME NEW c \in Clients, CommitLogout(c)
      PROVE  LoginsInv'
  <2>1. LoggedOut(c, call[c].token)
    BY <1>7, LogoutEffect DEF LoginsInv
  <2>2. RowsKnown'
    BY <2>1 DEF LoggedOut, Same, Revoked, Ended, Kept, Readers, NoCall,
      SessionsTypeOK, LoginsInv, TokenReading, RowsKnown
  <2>3. CallsKnown'
    BY <2>1 DEF LoggedOut, Same, Revoked, Ended, Kept, Readers, NoCall,
      SessionsTypeOK, LoginsInv, TokenReading, CallsKnown
  <2>4. OneTokenPerLogin'
    BY <2>1 DEF LoggedOut, Same, Revoked, Ended, Kept, Readers,
      NoCall, SessionsTypeOK, LoginsInv, TokenReading, RowsKnown, OneTokenPerLogin,
      LiveTokens
  <2> QED BY <2>2, <2>3, <2>4 DEF LoginsInv, TokenReading
<1>8. ASSUME NEW c \in Clients, BeginLogoutAll(c)
      PROVE  LoginsInv'
  <2>1. AllOut(c)
    BY <1>8, LogoutAllEffect DEF LoginsInv
  <2>2. RowsKnown'
    BY <2>1 DEF AllOut, Ordered, Kept, NoCall, SessionsTypeOK, LoginsInv,
      TokenReading, RowsKnown
  <2>3. CallsKnown'
    BY <2>1 DEF AllOut, Ordered, Kept, NoCall, SessionsTypeOK,
      LoginsInv, TokenReading, CallsKnown
  <2>4. OneTokenPerLogin'
    BY <2>1 DEF AllOut, Ordered, Kept, NoCall, SessionsTypeOK,
      LoginsInv, TokenReading, RowsKnown, OneTokenPerLogin, LiveTokens
  <2> QED BY <2>2, <2>3, <2>4 DEF LoginsInv, TokenReading
<1>9. ASSUME NEW c \in Clients, CommitSweep(c)
      PROVE  LoginsInv'
  <2>1. Swept(c, call[c].seen)
    BY <1>9, SweepEffect DEF LoginsInv
  <2>2. RowsKnown'
    <3>1. \A s \in Tokens : token'[s].login = token[s].login
                            /\ (token'[s].row # "none" <=> token[s].row # "none")
      BY <2>1 DEF Swept, Same, Revoked, LoginsInv, TokenReading, CallsKnown
    <3> QED BY <3>1 DEF LoginsInv, TokenReading, RowsKnown
  <2>3. CallsKnown'
    BY <2>1 DEF Swept, Same, Revoked, Ended, Kept, Readers, NoCall,
      SessionsTypeOK, LoginsInv, TokenReading, CallsKnown
  <2>4. OneTokenPerLogin'
    BY <2>1 DEF Swept, Same, Revoked, Ended, Kept, Readers,
      NoCall, SessionsTypeOK, LoginsInv, TokenReading, RowsKnown, OneTokenPerLogin,
      LiveTokens
  <2> QED BY <2>2, <2>3, <2>4 DEF LoginsInv, TokenReading
<1>10. ASSUME NEW c \in Clients, CommitReset(c)
      PROVE  LoginsInv'
  <2>1. Reset(c, call[c].link)
    BY <1>10, ResetEffect DEF LoginsInv
  <2>2. RowsKnown'
    BY <2>1 DEF Reset, Ordered, Kept, NoCall, SessionsTypeOK, LoginsInv,
      TokenReading, RowsKnown
  <2>3. CallsKnown'
    BY <2>1 DEF Reset, Ordered, Kept, NoCall, SessionsTypeOK, LoginsInv,
      TokenReading, CallsKnown
  <2>4. OneTokenPerLogin'
    BY <2>1 DEF Reset, Ordered, Kept, NoCall, SessionsTypeOK,
      LoginsInv, TokenReading, RowsKnown, OneTokenPerLogin, LiveTokens
  <2> QED BY <2>2, <2>3, <2>4 DEF LoginsInv, TokenReading
<1>11. ASSUME NEW c \in Clients, SelectTokens(c)
      PROVE  LoginsInv'
  <2>1. Looked(c)
    BY <1>11, SelectEffect DEF LoginsInv
  <2>2. RowsKnown'
    BY <2>1 DEF Looked, Kept, NoCall, SessionsTypeOK, LoginsInv,
      TokenReading, RowsKnown
  <2>3. CallsKnown'
    BY <2>1 DEF Looked, Kept, NoCall, SessionsTypeOK, LoginsInv,
      TokenReading, CallsKnown
  <2>4. OneTokenPerLogin'
    BY <2>1 DEF Looked, Kept, NoCall, SessionsTypeOK, LoginsInv,
      TokenReading, RowsKnown, OneTokenPerLogin, LiveTokens
  <2> QED BY <2>2, <2>3, <2>4 DEF LoginsInv, TokenReading
<1>12. ASSUME NEW c \in Clients, Drop(c)
      PROVE  LoginsInv'
  <2>1. Dropped(c)
    BY <1>12, DropEffect DEF LoginsInv
  <2>2. RowsKnown'
    BY <2>1 DEF Dropped, Ended, Kept, NoCall, SessionsTypeOK, LoginsInv,
      TokenReading, RowsKnown
  <2>3. CallsKnown'
    BY <2>1 DEF Dropped, Ended, Kept, NoCall, SessionsTypeOK, LoginsInv,
      TokenReading, CallsKnown
  <2>4. OneTokenPerLogin'
    BY <2>1 DEF Dropped, Ended, Kept, NoCall, SessionsTypeOK,
      LoginsInv, TokenReading, RowsKnown, OneTokenPerLogin, LiveTokens
  <2> QED BY <2>2, <2>3, <2>4 DEF LoginsInv, TokenReading
<1>13. ASSUME NEW c \in Clients, NEW l \in Links, BeginReset(c, l)
      PROVE  LoginsInv'
  BY <1>13 DEF SessionsTypeOK, LoginsInv, TokenReading, RowsKnown, CallsKnown,
      OneTokenPerLogin, LiveTokens, BeginReset, Call, NoCall
<1>14. ASSUME NEW t \in Tokens, TokenExpires(t)
      PROVE  LoginsInv'
  BY <1>14 DEF SessionsTypeOK, LoginsInv, TokenReading, RowsKnown, CallsKnown,
      OneTokenPerLogin, LiveTokens, TokenExpires
<1>15. ASSUME NEW l \in Links, ForgotPassword(l)
      PROVE  LoginsInv'
  BY <1>15 DEF SessionsTypeOK, LoginsInv, TokenReading, RowsKnown, CallsKnown,
      OneTokenPerLogin, LiveTokens, ForgotPassword
<1>16. ASSUME NEW l \in Links, LinkExpires(l)
      PROVE  LoginsInv'
  BY <1>16 DEF SessionsTypeOK, LoginsInv, TokenReading, RowsKnown, CallsKnown,
      OneTokenPerLogin, LiveTokens, LinkExpires
<1>17. CASE UNCHANGED sessionVars
  BY <1>17 DEF SessionsTypeOK, LoginsInv, TokenReading, RowsKnown, CallsKnown,
      OneTokenPerLogin, LiveTokens, sessionVars
<1> QED BY <1>1, <1>2, <1>3, <1>4, <1>5, <1>6, <1>7, <1>8, <1>9, <1>10, <1>11, <1>12, <1>13,
      <1>14, <1>15, <1>16, <1>17
  DEF SessionsNext

\* A sign-out ends the tokens that were live when it was ordered.
LEMMA SignOutStep ==
  ASSUME SessionsTypeOK, TokenReading, LinkReading, SignOutReading, [SessionsNext]_sessionVars
  PROVE  SignOutReading'
<1>1. ASSUME NEW c \in Clients, NEW t \in Tokens, CommitLogin(c, t)
      PROVE  SignOutReading'
  <2>1. LoggedIn(c, t)
    BY <1>1, LoginEffect
  <2>2. SignOutReading'
    BY <2>1 DEF LoggedIn, New, Same, Ended, Kept, NoCall,
      SessionsTypeOK, SignOutReading
  <2> QED BY <2>2
<1>2. ASSUME NEW c \in Clients, NEW t \in Tokens, BeginRotate(c, t)
      PROVE  SignOutReading'
  BY <1>2 DEF SessionsTypeOK, SignOutReading, BeginRotate, Call, NoCall
<1>3. ASSUME NEW c \in Clients, NEW t \in Tokens, CommitRotate(c, t)
      PROVE  SignOutReading'
  <2>1. Rotated(c, t, call[c].token)
    BY <1>3, RotateEffect
  <2>2. SignOutReading'
    <3> SUFFICES ASSUME NEW s \in Tokens, token'[s].row = "live", token'[s].old, ~token'[s].spared
                 PROVE  \E d \in Clients : \/ call'[d].op = "select"
                                           \/ call'[d].op = "sweep" /\ s \in call'[d].seen
      BY DEF SignOutReading
    <3>1. token[s].row = "live" /\ token[s].old /\ ~token[s].spared
      BY <2>1 DEF Rotated, New, Same, Revoked
    <3>2. PICK d \in Clients : call[d].op = "select" \/ (call[d].op = "sweep" /\ s \in call[d].seen)
      BY <3>1 DEF SignOutReading
    <3>3. d # c
      BY <2>1, <3>1, <3>2 DEF Rotated
    <3> QED BY <2>1, <3>2, <3>3 DEF Rotated, Ended, Kept
  <2> QED BY <2>2
<1>4. ASSUME NEW c \in Clients, NEW t \in Tokens, BeginLogout(c, t)
      PROVE  SignOutReading'
  BY <1>4 DEF SessionsTypeOK, SignOutReading, BeginLogout, Call, NoCall
<1>5. ASSUME NEW c \in Clients, NEW t \in Tokens, BeginReuse(c, t)
      PROVE  SignOutReading'
  <2>1. AllOut(c)
    BY <1>5, LogoutAllEffect DEF BeginReuse
  <2>2. SignOutReading'
    BY <2>1 DEF AllOut, Ordered, Kept, NoCall, SessionsTypeOK,
      SignOutReading
  <2> QED BY <2>2
<1>6. ASSUME NEW c \in Clients, BeginLogin(c)
      PROVE  SignOutReading'
  BY <1>6 DEF SessionsTypeOK, SignOutReading, BeginLogin, Call, NoCall
<1>7. ASSUME NEW c \in Clients, CommitLogout(c)
      PROVE  SignOutReading'
  <2>1. LoggedOut(c, call[c].token)
    BY <1>7, LogoutEffect
  <2>2. SignOutReading'
    <3> SUFFICES ASSUME NEW s \in Tokens, token'[s].row = "live", token'[s].old, ~token'[s].spared
                 PROVE  \E d \in Clients : \/ call'[d].op = "select"
                                           \/ call'[d].op = "sweep" /\ s \in call'[d].seen
      BY DEF SignOutReading
    <3>1. token[s].row = "live" /\ token[s].old /\ ~token[s].spared
      BY <2>1 DEF LoggedOut, Same, Revoked
    <3>2. PICK d \in Clients : call[d].op = "select" \/ (call[d].op = "sweep" /\ s \in call[d].seen)
      BY <3>1 DEF SignOutReading
    <3>3. d # c
      BY <2>1, <3>1, <3>2 DEF LoggedOut
    <3> QED BY <2>1, <3>2, <3>3 DEF LoggedOut, Ended, Kept
  <2> QED BY <2>2
<1>8. ASSUME NEW c \in Clients, BeginLogoutAll(c)
      PROVE  SignOutReading'
  <2>1. AllOut(c)
    BY <1>8, LogoutAllEffect
  <2>2. SignOutReading'
    BY <2>1 DEF AllOut, Ordered, Kept, NoCall, SessionsTypeOK,
      SignOutReading
  <2> QED BY <2>2
<1>9. ASSUME NEW c \in Clients, CommitSweep(c)
      PROVE  SignOutReading'
  <2>1. Swept(c, call[c].seen)
    BY <1>9, SweepEffect
  <2>2. SignOutReading'
    <3> SUFFICES ASSUME NEW s \in Tokens, token'[s].row = "live", token'[s].old, ~token'[s].spared
                 PROVE  \E d \in Clients : \/ call'[d].op = "select"
                                           \/ call'[d].op = "sweep" /\ s \in call'[d].seen
      BY DEF SignOutReading
    <3>1. token[s].row = "live" /\ token[s].old /\ ~token[s].spared /\ s \notin call[c].seen
      BY <2>1 DEF Swept, Same, Revoked
    <3>2. PICK d \in Clients : call[d].op = "select" \/ (call[d].op = "sweep" /\ s \in call[d].seen)
      BY <3>1 DEF SignOutReading
    <3>3. d # c
      BY <2>1, <3>1, <3>2 DEF Swept
    <3> QED BY <2>1, <3>2, <3>3 DEF Swept, Ended, Kept
  <2> QED BY <2>2
<1>10. ASSUME NEW c \in Clients, CommitReset(c)
      PROVE  SignOutReading'
  <2>1. Reset(c, call[c].link)
    BY <1>10, ResetEffect
  <2>2. SignOutReading'
    BY <2>1 DEF Reset, Ordered, Kept, NoCall, SessionsTypeOK,
      SignOutReading
  <2> QED BY <2>2
<1>11. ASSUME NEW c \in Clients, SelectTokens(c)
      PROVE  SignOutReading'
  <2>1. Looked(c)
    BY <1>11, SelectEffect
  <2>2. SignOutReading'
    BY <2>1 DEF Looked, Kept, NoCall, SessionsTypeOK, SignOutReading
  <2> QED BY <2>2
<1>12. ASSUME NEW c \in Clients, Drop(c)
      PROVE  SignOutReading'
  <2>1. Dropped(c)
    BY <1>12, DropEffect
  <2>2. SignOutReading'
    BY <2>1 DEF Dropped, Ended, Kept, NoCall, SessionsTypeOK,
      SignOutReading
  <2> QED BY <2>2
<1>13. ASSUME NEW c \in Clients, NEW l \in Links, BeginReset(c, l)
      PROVE  SignOutReading'
  BY <1>13 DEF SessionsTypeOK, SignOutReading, BeginReset, Call, NoCall
<1>14. ASSUME NEW t \in Tokens, TokenExpires(t)
      PROVE  SignOutReading'
  BY <1>14 DEF SessionsTypeOK, SignOutReading, TokenExpires
<1>15. ASSUME NEW l \in Links, ForgotPassword(l)
      PROVE  SignOutReading'
  BY <1>15 DEF SessionsTypeOK, SignOutReading, ForgotPassword
<1>16. ASSUME NEW l \in Links, LinkExpires(l)
      PROVE  SignOutReading'
  BY <1>16 DEF SessionsTypeOK, SignOutReading, LinkExpires
<1>17. CASE UNCHANGED sessionVars
  BY <1>17 DEF SessionsTypeOK, SignOutReading, sessionVars
<1> QED BY <1>1, <1>2, <1>3, <1>4, <1>5, <1>6, <1>7, <1>8, <1>9, <1>10, <1>11, <1>12, <1>13,
      <1>14, <1>15, <1>16, <1>17
  DEF SessionsNext

\* A link is used once by requests that do not overlap.
LEMMA LinksStep ==
  ASSUME SessionsTypeOK, TokenReading, LinksInv, [SessionsNext]_sessionVars
  PROVE  LinksInv'
<1>1. ASSUME NEW c \in Clients, NEW t \in Tokens, CommitLogin(c, t)
      PROVE  LinksInv'
  <2>1. LoggedIn(c, t)
    BY <1>1, LoginEffect DEF LinksInv
  <2>2. LinksInv'
    BY <2>1 DEF LoggedIn, New, Same, Ended, Kept, NoCall, SessionsTypeOK,
      LinksInv, LinkReading, LinkUsedOnce
  <2> QED BY <2>2
<1>2. ASSUME NEW c \in Clients, NEW t \in Tokens, BeginRotate(c, t)
      PROVE  LinksInv'
  BY <1>2 DEF SessionsTypeOK, LinksInv, LinkReading, LinkUsedOnce, BeginRotate, Call, NoCall
<1>3. ASSUME NEW c \in Clients, NEW t \in Tokens, CommitRotate(c, t)
      PROVE  LinksInv'
  <2>1. Rotated(c, t, call[c].token)
    BY <1>3, RotateEffect DEF LinksInv
  <2>2. LinksInv'
    BY <2>1 DEF Rotated, New, Same, Revoked, Ended, Kept, Readers, NoCall,
      SessionsTypeOK, LinksInv, LinkReading, LinkUsedOnce
  <2> QED BY <2>2
<1>4. ASSUME NEW c \in Clients, NEW t \in Tokens, BeginLogout(c, t)
      PROVE  LinksInv'
  BY <1>4 DEF SessionsTypeOK, LinksInv, LinkReading, LinkUsedOnce, BeginLogout, Call, NoCall
<1>5. ASSUME NEW c \in Clients, NEW t \in Tokens, BeginReuse(c, t)
      PROVE  LinksInv'
  <2>1. AllOut(c)
    BY <1>5, LogoutAllEffect DEF BeginReuse, LinksInv
  <2>2. LinksInv'
    BY <2>1 DEF AllOut, Ordered, Kept, NoCall, SessionsTypeOK, LinksInv,
      LinkReading, LinkUsedOnce
  <2> QED BY <2>2
<1>6. ASSUME NEW c \in Clients, BeginLogin(c)
      PROVE  LinksInv'
  BY <1>6 DEF SessionsTypeOK, LinksInv, LinkReading, LinkUsedOnce, BeginLogin, Call, NoCall
<1>7. ASSUME NEW c \in Clients, CommitLogout(c)
      PROVE  LinksInv'
  <2>1. LoggedOut(c, call[c].token)
    BY <1>7, LogoutEffect DEF LinksInv
  <2>2. LinksInv'
    BY <2>1 DEF LoggedOut, Same, Revoked, Ended, Kept, Readers, NoCall,
      SessionsTypeOK, LinksInv, LinkReading, LinkUsedOnce
  <2> QED BY <2>2
<1>8. ASSUME NEW c \in Clients, BeginLogoutAll(c)
      PROVE  LinksInv'
  <2>1. AllOut(c)
    BY <1>8, LogoutAllEffect DEF LinksInv
  <2>2. LinksInv'
    BY <2>1 DEF AllOut, Ordered, Kept, NoCall, SessionsTypeOK, LinksInv,
      LinkReading, LinkUsedOnce
  <2> QED BY <2>2
<1>9. ASSUME NEW c \in Clients, CommitSweep(c)
      PROVE  LinksInv'
  <2>1. Swept(c, call[c].seen)
    BY <1>9, SweepEffect DEF LinksInv
  <2>2. LinksInv'
    BY <2>1 DEF Swept, Same, Revoked, Ended, Kept, Readers, NoCall,
      SessionsTypeOK, LinksInv, LinkReading, LinkUsedOnce
  <2> QED BY <2>2
<1>10. ASSUME NEW c \in Clients, CommitReset(c)
      PROVE  LinksInv'
  <2>1. Reset(c, call[c].link)
    BY <1>10, ResetEffect DEF LinksInv
  <2>2. LinksInv'
    BY <2>1 DEF Reset, Ordered, Kept, NoCall, SessionsTypeOK, LinksInv,
      LinkReading, LinkUsedOnce
  <2> QED BY <2>2
<1>11. ASSUME NEW c \in Clients, SelectTokens(c)
      PROVE  LinksInv'
  <2>1. Looked(c)
    BY <1>11, SelectEffect DEF LinksInv
  <2>2. LinksInv'
    BY <2>1 DEF Looked, Kept, NoCall, SessionsTypeOK, LinksInv,
      LinkReading, LinkUsedOnce
  <2> QED BY <2>2
<1>12. ASSUME NEW c \in Clients, Drop(c)
      PROVE  LinksInv'
  <2>1. Dropped(c)
    BY <1>12, DropEffect DEF LinksInv
  <2>2. LinksInv'
    BY <2>1 DEF Dropped, Ended, Kept, NoCall, SessionsTypeOK, LinksInv,
      LinkReading, LinkUsedOnce
  <2> QED BY <2>2
<1>13. ASSUME NEW c \in Clients, NEW l \in Links, BeginReset(c, l)
      PROVE  LinksInv'
  BY <1>13 DEF SessionsTypeOK, LinksInv, LinkReading, LinkUsedOnce, BeginReset, Call, NoCall
<1>14. ASSUME NEW t \in Tokens, TokenExpires(t)
      PROVE  LinksInv'
  BY <1>14 DEF SessionsTypeOK, LinksInv, LinkReading, LinkUsedOnce, TokenExpires
<1>15. ASSUME NEW l \in Links, ForgotPassword(l)
      PROVE  LinksInv'
  BY <1>15 DEF SessionsTypeOK, LinksInv, LinkReading, LinkUsedOnce, ForgotPassword
<1>16. ASSUME NEW l \in Links, LinkExpires(l)
      PROVE  LinksInv'
  BY <1>16 DEF SessionsTypeOK, LinksInv, LinkReading, LinkUsedOnce, LinkExpires
<1>17. CASE UNCHANGED sessionVars
  BY <1>17 DEF SessionsTypeOK, LinksInv, LinkReading, LinkUsedOnce, sessionVars
<1> QED BY <1>1, <1>2, <1>3, <1>4, <1>5, <1>6, <1>7, <1>8, <1>9, <1>10, <1>11, <1>12, <1>13,
      <1>14, <1>15, <1>16, <1>17
  DEF SessionsNext

-----------------------------------------------------------------------------
\* Types, readings and properties hold in every reachable state.
THEOREM Invariance == SessionsSpec => []IInv
<1>1. SessionsInit => IInv
  BY SessionsConstants
  DEF SessionsInit, IInv, SessionsTypeOK, LoginsInv, TokenReading, RowsKnown, CallsKnown,
      OneTokenPerLogin, LiveTokens,
      SignOutReading, LinksInv, LinkReading, LinkUsedOnce, NoToken, NoCall
<1>2. IInv /\ [SessionsNext]_sessionVars => IInv'
  BY TypesStep, LoginsStep, SignOutStep, LinksStep DEF IInv, LoginsInv, LinksInv
<1> QED BY <1>1, <1>2, PTL DEF SessionsSpec

\* Every request on sessions and links writes values of the columns' types.
THEOREM TypeCorrect == SessionsSpec => []SessionsTypeOK
<1>1. IInv => SessionsTypeOK
  BY DEF IInv
<1> QED BY <1>1, Invariance, PTL

\* auth/refresh_tokens.py, rotate: a login has one live token, unless two requests
\* with one of its tokens overlapped.
THEOREM OneLiveToken == SessionsSpec => []OneTokenPerLogin
<1>1. IInv => OneTokenPerLogin
  BY DEF IInv, LoginsInv
<1> QED BY <1>1, Invariance, PTL

\* auth/refresh_tokens.py, revoke_all: a completed sign-out leaves no token of a login
\* it was to end.
THEOREM AllSignedOut == SessionsSpec => []EverybodyOut
<1>1. IInv => EverybodyOut
  BY DEF IInv, SignOutReading, EverybodyOut, LiveTokens
<1> QED BY <1>1, Invariance, PTL

\* services/password_reset.py: a link sets one password, unless two requests
\* overlapped.
THEOREM LinkOnce == SessionsSpec => []LinkUsedOnce
<1>1. IInv => LinkUsedOnce
  BY DEF IInv, LinksInv
<1> QED BY <1>1, Invariance, PTL
=============================================================================
