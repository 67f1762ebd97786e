------------------------------ MODULE Sessions ------------------------------
(***************************************************************************)
(* The refresh tokens of one user and the links that reset his password.   *)
(* rotate, revoke, revoke_all and reset_password read rows, decide, and    *)
(* write later without a lock.  A reset is two transactions: the password  *)
(* and the link first, the revocation of the tokens second.                *)
(***************************************************************************)
EXTENDS Naturals, FiniteSets

CONSTANTS
  Tokens,    \* refresh token ids
  Links,     \* password reset token ids
  Clients,   \* requests in flight together
  Null

ASSUME SessionsConstants == Null \notin Tokens \cup Links

VARIABLES
  token,    \* refresh tokens; "login" is the token the login chain began with
  link,     \* password reset tokens
  call,     \* what each request read and is about to write
  tangled   \* history: logins of which a token was written on an outdated reading

sessionVars == <<token, link, call, tangled>>

(* "old" and "spared" are history.  Old: everybody was to be signed out    *)
(* after the login or the refresh began.  Spared: the token was issued      *)
(* since the last such order, or that sign-out did not get to its end.      *)
NoToken == [row |-> "none", expired |-> FALSE, login |-> Null, old |-> FALSE, spared |-> FALSE]
NoCall == [op |-> "none", token |-> Null, link |-> Null, seen |-> {}, stale |-> FALSE,
           old |-> FALSE]

SessionsTypeOK ==
  /\ token \in [Tokens -> [row : {"none", "live", "revoked"}, expired : BOOLEAN,
                           login : Tokens \cup {Null}, old : BOOLEAN, spared : BOOLEAN]]
  /\ link \in [Links -> {"none", "open", "expired", "used", "reused"}]
  /\ call \in [Clients ->
       [op : {"none", "login", "rotate", "logout", "reset", "select", "sweep"},
        token : Tokens \cup {Null}, link : Links \cup {Null}, seen : SUBSET Tokens,
        stale : BOOLEAN, old : BOOLEAN]]
  /\ tangled \in SUBSET Tokens

SessionsInit ==
  /\ token = [t \in Tokens |-> NoToken]
  /\ link = [l \in Links |-> "none"]
  /\ call = [c \in Clients |-> NoCall]
  /\ tangled = {}

-----------------------------------------------------------------------------
\* revoked_at is NULL, expired or not: what revoke_all selects.
LiveTokens == {t \in Tokens : token[t].row = "live"}

Call(c, r) ==
  /\ call[c] = NoCall
  /\ call' = [call EXCEPT ![c] = r]

\* Requests "S" of the others in flight that hold an outdated reading from now on.
Returned(c, S) ==
  call' = [d \in Clients |->
             IF d = c THEN NoCall ELSE [call[d] EXCEPT !.stale = @ \/ d \in S]]

Readers(T) == {d \in Clients : call[d].token \in T}

\* An order to sign everybody out: every session there is, or is about to be, is old.
OldTokens == [t \in Tokens |-> [token[t] EXCEPT !.old = token[t].row # "none", !.spared = FALSE]]
OldCalls == [d \in Clients |-> [call[d] EXCEPT !.old = call[d].op \in {"login", "rotate"}]]

-----------------------------------------------------------------------------
\* authenticate, or a Google identity resolved to the account: the caller may log in.
BeginLogin(c) ==
  /\ Call(c, [NoCall EXCEPT !.op = "login"])
  /\ UNCHANGED <<token, link, tangled>>

Issued(c, t, login) ==
  [row |-> "live", expired |-> FALSE, login |-> login,
   old |-> call[c].old, spared |-> call[c].old]

\* issue
CommitLogin(c, t) ==
  /\ call[c].op = "login"
  /\ token[t].row = "none"
  /\ token' = [token EXCEPT ![t] = Issued(c, t, t)]
  /\ Returned(c, {})
  /\ UNCHANGED <<link, tangled>>

TokenExpires(t) ==
  /\ token[t].row = "live" /\ ~token[t].expired
  /\ token' = [token EXCEPT ![t].expired = TRUE]
  /\ UNCHANGED <<link, call, tangled>>

\* rotate, to the checks; a token that is unknown or expired is refused.
BeginRotate(c, t) ==
  /\ token[t].row = "live" /\ ~token[t].expired
  /\ Call(c, [NoCall EXCEPT !.op = "rotate", !.token = t, !.old = token[t].old])
  /\ UNCHANGED <<token, link, tangled>>

TangledBy(c) ==
  tangled' = IF call[c].stale THEN tangled \cup {token[call[c].token].login} ELSE tangled

\* Mutation: the presented token stays valid.
CommitRotateKeeping(c, n) ==
  LET t == call[c].token
  IN  /\ call[c].op = "rotate"
      /\ token[n].row = "none"
      /\ token' = [token EXCEPT ![n] = Issued(c, n, token[t].login)]
      /\ TangledBy(c)
      /\ Returned(c, Readers({t}))
      /\ UNCHANGED link

\* rotate, the transaction: the successor in, the presented token revoked.
CommitRotate(c, n) ==
  LET t == call[c].token
  IN  /\ call[c].op = "rotate"
      /\ token[n].row = "none"
      /\ token' = [token EXCEPT ![n] = Issued(c, n, token[t].login), ![t].row = "revoked"]
      /\ TangledBy(c)
      /\ Returned(c, Readers({t}))
      /\ UNCHANGED link

\* revoke: a token that is revoked already is left alone.
BeginLogout(c, t) ==
  /\ token[t].row = "live"
  /\ Call(c, [NoCall EXCEPT !.op = "logout", !.token = t])
  /\ UNCHANGED <<token, link, tangled>>

CommitLogout(c) ==
  LET t == call[c].token
  IN  /\ call[c].op = "logout"
      /\ token' = [token EXCEPT ![t].row = "revoked"]
      /\ TangledBy(c)
      /\ Returned(c, Readers({t}))
      /\ UNCHANGED link

-----------------------------------------------------------------------------
(* Everybody out                                                           *)

\* revoke_all, its SELECT: logout_all has a valid access token.
BeginLogoutAll(c) ==
  /\ call[c] = NoCall
  /\ token' = OldTokens
  /\ call' = [OldCalls EXCEPT ![c] = [NoCall EXCEPT !.op = "sweep", !.seen = LiveTokens]]
  /\ UNCHANGED <<link, tangled>>

\* rotate of a token that is revoked: reuse, which signs everybody out.
BeginReuse(c, t) ==
  /\ token[t].row = "revoked"
  /\ BeginLogoutAll(c)

\* revoke_all, its UPDATE: the tokens its SELECT saw, and no others.
CommitSweep(c) ==
  LET seen == call[c].seen
  IN  /\ call[c].op = "sweep"
      /\ token' = [t \in Tokens |->
                     IF t \in seen THEN [token[t] EXCEPT !.row = "revoked"] ELSE token[t]]
      /\ Returned(c, Readers(seen))
      /\ UNCHANGED <<link, tangled>>

-----------------------------------------------------------------------------
(* Password reset                                                          *)

\* create_reset_token
ForgotPassword(l) ==
  /\ link[l] = "none"
  /\ link' = [link EXCEPT ![l] = "open"]
  /\ UNCHANGED <<token, call, tangled>>

LinkExpires(l) ==
  /\ link[l] = "open"
  /\ link' = [link EXCEPT ![l] = "expired"]
  /\ UNCHANGED <<token, call, tangled>>

\* Mutation: a used link opens again.
BeginResetAgain(c, l) ==
  /\ link[l] \in {"open", "used"}
  /\ Call(c, [NoCall EXCEPT !.op = "reset", !.link = l])
  /\ UNCHANGED <<token, link, tangled>>

BeginReset(c, l) ==
  /\ link[l] = "open"
  /\ Call(c, [NoCall EXCEPT !.op = "reset", !.link = l])
  /\ UNCHANGED <<token, link, tangled>>

\* Mutation: the tokens are not revoked after the password is set.
CommitResetOnly(c) ==
  LET l == call[c].link
  IN  /\ call[c].op = "reset"
      /\ link' = [link EXCEPT ![l] = "used"]
      /\ token' = OldTokens
      /\ call' = [OldCalls EXCEPT ![c] = NoCall]
      /\ UNCHANGED tangled

\* The first transaction: the new password, used_at.  "reused" is history: a
\* request that began after the link was used has set a password.
CommitReset(c) ==
  LET l == call[c].link
  IN  /\ call[c].op = "reset"
      /\ link' = [link EXCEPT ![l] = IF @ \in {"used", "reused"} /\ ~call[c].stale
                                       THEN "reused" ELSE IF @ = "reused" THEN @ ELSE "used"]
      /\ token' = OldTokens
      /\ call' = [d \in Clients |->
                    IF d = c THEN [NoCall EXCEPT !.op = "select"]
                    ELSE [OldCalls[d] EXCEPT !.stale = @ \/ call[d].link = l]]
      /\ UNCHANGED tangled

\* The second one begins: revoke_all, its SELECT.
SelectTokens(c) ==
  /\ call[c].op = "select"
  /\ call' = [call EXCEPT ![c] = [@ EXCEPT !.op = "sweep", !.seen = LiveTokens]]
  /\ UNCHANGED <<token, link, tangled>>

\* A crash or an error before the commit; what a sign-out would have revoked is spared.
Drop(c) ==
  /\ call[c].op # "none"
  /\ IF call[c].op \in {"select", "sweep"}
       THEN token' = [t \in Tokens |-> [token[t] EXCEPT !.spared = token[t].old]]
       ELSE UNCHANGED token
  /\ Returned(c, {})
  /\ UNCHANGED <<link, tangled>>

-----------------------------------------------------------------------------
SessionsNext ==
  \/ \E c \in Clients, t \in Tokens :
       \/ CommitLogin(c, t) \/ BeginRotate(c, t) \/ CommitRotate(c, t)
       \/ BeginLogout(c, t) \/ BeginReuse(c, t)
  \/ \E c \in Clients : BeginLogin(c) \/ CommitLogout(c) \/ BeginLogoutAll(c) \/ CommitSweep(c)
                          \/ CommitReset(c) \/ SelectTokens(c) \/ Drop(c)
  \/ \E c \in Clients, l \in Links : BeginReset(c, l)
  \/ \E t \in Tokens : TokenExpires(t)
  \/ \E l \in Links : ForgotPassword(l) \/ LinkExpires(l)

SessionsSpec == SessionsInit /\ [][SessionsNext]_sessionVars

-----------------------------------------------------------------------------
(* Properties                                                              *)

\* auth/refresh_tokens.py "a crash between the two can no longer leave both the
\* old and new tokens simultaneously valid": a login has one live token at most,
\* unless two requests with one of its tokens overlapped.
OneTokenPerLogin ==
  \A s, t \in LiveTokens : token[s].login = token[t].login => s = t \/ token[t].login \in tangled

\* services/password_reset.py "kick everyone out", and the same for a reused token
\* and for logout-all: when that is over, a token of a login from before is live
\* only if it was issued while the sign-out was at work, or if that broke off.
EverybodyOut ==
  \A t \in LiveTokens :
    token[t].old => token[t].spared \/ \E c \in Clients : call[c].op \in {"select", "sweep"}

\* models.py "single-use password reset token": a link sets a second password only
\* for requests that overlapped.
LinkUsedOnce == \A l \in Links : link[l] # "reused"
=============================================================================
