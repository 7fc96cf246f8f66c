-------------------------- MODULE RefreshSessions --------------------------
(***************************************************************************)
(* The refresh sessions of signed-in browsers: auth/refresh.rs, the        *)
(* handlers of routes/auth.rs, the refresh cookie of auth/browser.rs and   *)
(* the refresh part of database.rs.                                        *)
(*                                                                         *)
(* A request is sent with the cookie the browser has at that moment, does  *)
(* its one transaction, is answered, and its Set-Cookie reaches the        *)
(* browser.  Between any two of these steps any other request may run.  A  *)
(* request or an answer that is lost, or whose process died, is one whose  *)
(* next step is never taken.  BEGIN IMMEDIATE makes rotation one step;     *)
(* creation, revocation and cleanup are single write transactions.         *)
(*                                                                         *)
(* A credential stands for its hash; 256 random bits never repeat.         *)
(***************************************************************************)
EXTENDS Integers, FiniteSets

CONSTANTS
  Browsers,     \* cookie jars
  Users,        \* accounts
  Tokens,       \* refresh credentials the random source may return
  Requests,     \* HTTP requests that may ever be sent
  SessionIds,   \* row ids of refresh_sessions
  NoUser,       \* no account (yet)
  NoToken,      \* no refresh cookie
  Lifetime,     \* SESSION_SECONDS: 30 days in the code
  MaxTime       \* bound on the clock

ASSUME SessionAssumption ==
  /\ NoUser \notin Users
  /\ NoToken \notin Tokens
  /\ SessionIds \subseteq Nat \ {0}
  /\ Lifetime \in Nat \ {0}
  /\ MaxTime \in Nat

VARIABLES
  session,   \* refresh_sessions: id |-> row
  token,     \* refresh_tokens: credential |-> row
  request,   \* the HTTP requests and how far they are
  jar,       \* the refresh cookie of every browser
  issued,    \* history: the login every credential descends from
  now        \* the server's clock in seconds

vars == <<session, token, request, jar, issued, now>>

Cookie == [token: Tokens \cup {NoToken}, expires: Nat]
NoCookie == [token |-> NoToken, expires |-> 0]

SessionRow == [user: Users, expires: Nat, revoked: BOOLEAN]
TokenRow == [session: SessionIds, consumed: BOOLEAN]
Login == [user: Users, root: Tokens, deadline: Nat]

\* credential: the cookie that was sent; given: the RefreshCredential returned.
Request == [phase: {"unused", "sent", "done", "answered", "closed"},
            kind: {"none", "login", "refresh", "logout"},
            browser: Browsers, user: Users \cup {NoUser},
            credential: Tokens \cup {NoToken},
            outcome: {"none", "ok", "unauthorized", "internal"},
            given: Cookie]

\* A table: rows of a type under some of the keys.
Table(f, Keys, Rows) == DOMAIN f \subseteq Keys /\ f \in [DOMAIN f -> Rows]

TypeOK ==
  /\ Table(session, SessionIds, SessionRow)
  /\ Table(token, Tokens, TokenRow)
  /\ Table(issued, Tokens, Login)
  /\ request \in [Requests -> Request]
  /\ \A r \in Requests :
       request[r].kind = "login" /\ request[r].phase = "sent" => request[r].user \in Users
  /\ jar \in [Browsers -> Cookie]
  /\ now \in 0..MaxTime

Init ==
  /\ session = <<>>
  /\ token = <<>>
  /\ issued = <<>>
  /\ \E b \in Browsers :
       request = [r \in Requests |->
                    [phase |-> "unused", kind |-> "none", browser |-> b, user |-> NoUser,
                     credential |-> NoToken, outcome |-> "none", given |-> NoCookie]]
  /\ jar = [b \in Browsers |-> NoCookie]
  /\ now = 0

-----------------------------------------------------------------------------
(* The tables.                                                             *)

Put(f, k, row) == [x \in DOMAIN f \cup {k} |-> IF x = k THEN row ELSE f[x]]
Without(f, keys) == [x \in DOMAIN f \ keys |-> f[x]]

\* The rowid SQLite gives the next row: one more than the largest in use.
IsNextId(id) ==
  /\ \A s \in DOMAIN session : s < id
  /\ id - 1 \in DOMAIN session \cup {0}

\* The join finds the credential's row and its session.
Known(h) == h \in DOMAIN token /\ token[h].session \in DOMAIN session
Over(h) == session[token[h].session].revoked \/ session[token[h].session].expires <= now

Fresh(h) == h \in Tokens \ DOMAIN issued

-----------------------------------------------------------------------------
(* The browser.                                                            *)

\* A request leaves with the cookie of the moment; a login is for the account
\* Google will vouch for.
Send(r, b, kind, user) ==
  /\ request[r].phase = "unused"
  /\ request' = [request EXCEPT ![r] =
       [phase |-> "sent", kind |-> kind, browser |-> b, user |-> user,
        credential |-> jar[b].token, outcome |-> "none", given |-> NoCookie]]
  /\ UNCHANGED <<session, token, jar, issued, now>>

\* The answer's Set-Cookie: a new cookie, a removal, or none.
Receive(r) ==
  LET q == request[r] IN
  /\ q.phase = "answered"
  /\ request' = [request EXCEPT ![r].phase = "closed"]
  /\ jar' = IF q.outcome = "ok" /\ q.kind # "logout"
            THEN [jar EXCEPT ![q.browser] = q.given]
            ELSE IF q.outcome = "unauthorized" \/ (q.outcome = "ok" /\ q.kind = "logout")
                 THEN [jar EXCEPT ![q.browser] = NoCookie]
                 ELSE jar
  /\ UNCHANGED <<session, token, issued, now>>

\* Max-Age ran out.
DropCookie(b) ==
  /\ jar[b] # NoCookie /\ jar[b].expires <= now
  /\ jar' = [jar EXCEPT ![b] = NoCookie]
  /\ UNCHANGED <<session, token, request, issued, now>>

-----------------------------------------------------------------------------
(* The handlers' transactions.                                             *)

Arrived(r, kind) == request[r].phase = "sent" /\ request[r].kind = kind

Finish(r, outcome, user, given) ==
  request' = [request EXCEPT ![r] =
                [@ EXCEPT !.phase = "done", !.outcome = outcome, !.user = user, !.given = given]]

\* Mutant: the deadline lies as far in the past as it should in the future.
CreateExpired(r, h) ==
  LET user == request[r].user
      deadline == now - Lifetime
  IN
  /\ Arrived(r, "login")
  /\ Fresh(h)
  /\ \E id \in SessionIds :
       /\ IsNextId(id)
       /\ session' = Put(session, id, [user |-> user, expires |-> deadline, revoked |-> FALSE])
       /\ token' = Put(token, h, [session |-> id, consumed |-> FALSE])
  /\ issued' = Put(issued, h, [user |-> user, root |-> h, deadline |-> deadline])
  /\ Finish(r, "ok", user, [token |-> h, expires |-> deadline])
  /\ UNCHANGED <<jar, now>>

\* issue and create_refresh_session, once Google vouched for the user.
CreateSession(r, h) ==
  LET user == request[r].user
      deadline == now + Lifetime
  IN
  /\ Arrived(r, "login")
  /\ Fresh(h)
  /\ \E id \in SessionIds :
       /\ IsNextId(id)
       /\ session' = Put(session, id, [user |-> user, expires |-> deadline, revoked |-> FALSE])
       /\ token' = Put(token, h, [session |-> id, consumed |-> FALSE])
  /\ issued' = Put(issued, h, [user |-> user, root |-> h, deadline |-> deadline])
  /\ Finish(r, "ok", user, [token |-> h, expires |-> deadline])
  /\ UNCHANGED <<jar, now>>

\* Mutant: the credential that was used stays good.
RotateKeepingOld(r, h) ==
  LET c == request[r].credential
      row == session[token[c].session]
  IN
  /\ Arrived(r, "refresh")
  /\ Known(c) /\ ~Over(c) /\ ~token[c].consumed
  /\ Fresh(h)
  /\ token' = Put(token, h, [session |-> token[c].session, consumed |-> FALSE])
  /\ issued' = Put(issued, h, issued[c])
  /\ Finish(r, "ok", row.user, [token |-> h, expires |-> row.expires])
  /\ UNCHANGED <<session, jar, now>>

\* Mutant: a consumed credential is accepted again.
RotateReused(r, h) ==
  LET c == request[r].credential
      row == session[token[c].session]
  IN
  /\ Arrived(r, "refresh")
  /\ Known(c) /\ ~Over(c)
  /\ Fresh(h)
  /\ token' = Put([token EXCEPT ![c].consumed = TRUE], h,
                  [session |-> token[c].session, consumed |-> FALSE])
  /\ issued' = Put(issued, h, issued[c])
  /\ Finish(r, "ok", row.user, [token |-> h, expires |-> row.expires])
  /\ UNCHANGED <<session, jar, now>>

\* Mutant: every rotation gives the session another lifetime.
RotateSliding(r, h) ==
  LET c == request[r].credential
      row == session[token[c].session]
  IN
  /\ Arrived(r, "refresh")
  /\ Known(c) /\ ~Over(c) /\ ~token[c].consumed
  /\ Fresh(h)
  /\ session' = [session EXCEPT ![token[c].session].expires = now + Lifetime]
  /\ token' = Put([token EXCEPT ![c].consumed = TRUE], h,
                  [session |-> token[c].session, consumed |-> FALSE])
  /\ issued' = Put(issued, h, issued[c])
  /\ Finish(r, "ok", row.user, [token |-> h, expires |-> now + Lifetime])
  /\ UNCHANGED <<jar, now>>

\* rotate: the access token is issued for the session's user and the cookie
\* keeps the session's deadline.
Rotate(r, h) ==
  LET c == request[r].credential
      row == session[token[c].session]
  IN
  /\ Arrived(r, "refresh")
  /\ Known(c) /\ ~Over(c) /\ ~token[c].consumed
  /\ Fresh(h)
  /\ token' = Put([token EXCEPT ![c].consumed = TRUE], h,
                  [session |-> token[c].session, consumed |-> FALSE])
  /\ issued' = Put(issued, h, issued[c])
  /\ Finish(r, "ok", row.user, [token |-> h, expires |-> row.expires])
  /\ UNCHANGED <<session, jar, now>>

\* No cookie, or a credential nothing is known of, or of a session that is over.
Reject(r) ==
  LET c == request[r].credential IN
  /\ Arrived(r, "refresh")
  /\ Known(c) => Over(c)
  /\ Finish(r, "unauthorized", NoUser, NoCookie)
  /\ UNCHANGED <<session, token, jar, issued, now>>

\* Mutant: the revocation is rolled back with the refusal.
RejectReusedOnly(r) ==
  LET c == request[r].credential IN
  /\ Arrived(r, "refresh")
  /\ Known(c) /\ ~Over(c) /\ token[c].consumed
  /\ Finish(r, "unauthorized", NoUser, NoCookie)
  /\ UNCHANGED <<session, token, jar, issued, now>>

\* A consumed credential came again: the session is revoked before the refusal.
RejectReused(r) ==
  LET c == request[r].credential IN
  /\ Arrived(r, "refresh")
  /\ Known(c) /\ ~Over(c) /\ token[c].consumed
  /\ session' = [session EXCEPT ![token[c].session].revoked = TRUE]
  /\ Finish(r, "unauthorized", NoUser, NoCookie)
  /\ UNCHANGED <<token, jar, issued, now>>

\* Mutant: a credential that was consumed meanwhile does not revoke.
RevokeCurrent(r) ==
  LET c == request[r].credential IN
  /\ Arrived(r, "logout")
  /\ session' = [s \in DOMAIN session |->
                   IF Known(c) /\ ~token[c].consumed /\ s = token[c].session
                   THEN [session[s] EXCEPT !.revoked = TRUE] ELSE session[s]]
  /\ Finish(r, "ok", NoUser, NoCookie)
  /\ UNCHANGED <<token, jar, issued, now>>

\* Mutant: all sessions of the account are revoked.
RevokeUser(r) ==
  LET c == request[r].credential IN
  /\ Arrived(r, "logout")
  /\ session' = [s \in DOMAIN session |->
                   IF Known(c) /\ session[s].user = session[token[c].session].user
                   THEN [session[s] EXCEPT !.revoked = TRUE] ELSE session[s]]
  /\ Finish(r, "ok", NoUser, NoCookie)
  /\ UNCHANGED <<token, jar, issued, now>>

\* revoke: by a current or a consumed credential; nothing to do for others.
Revoke(r) ==
  LET c == request[r].credential IN
  /\ Arrived(r, "logout")
  /\ session' = [s \in DOMAIN session |->
                   IF Known(c) /\ s = token[c].session
                   THEN [session[s] EXCEPT !.revoked = TRUE] ELSE session[s]]
  /\ Finish(r, "ok", NoUser, NoCookie)
  /\ UNCHANGED <<token, jar, issued, now>>

\* Storage, randomness or signing failed, or Google did not vouch for the
\* user: nothing is changed and the cookie is left alone.
Fail(r) ==
  /\ request[r].phase = "sent"
  /\ Finish(r, "internal", NoUser, NoCookie)
  /\ UNCHANGED <<session, token, jar, issued, now>>

\* The response is built with the clock read once more: a cookie that would
\* already have expired becomes a refusal.
Answer(r) ==
  LET q == request[r]
      late == q.outcome = "ok" /\ q.kind # "logout" /\ q.given.expires <= now
  IN
  /\ q.phase = "done"
  /\ request' = [request EXCEPT ![r] =
       [q EXCEPT !.phase = "answered",
                 !.outcome = IF late THEN "unauthorized" ELSE q.outcome]]
  /\ UNCHANGED <<session, token, jar, issued, now>>

\* Mutant: the tokens of a deleted session stay.
CleanupSessions ==
  LET expired == {s \in DOMAIN session : session[s].expires <= now} IN
  /\ expired # {}
  /\ session' = Without(session, expired)
  /\ UNCHANGED <<token, request, jar, issued, now>>

\* delete_expired_refresh_sessions: sessions and their tokens, in one transaction.
Cleanup ==
  LET expired == {s \in DOMAIN session : session[s].expires <= now} IN
  /\ expired # {}
  /\ session' = Without(session, expired)
  /\ token' = Without(token, {h \in DOMAIN token : token[h].session \in expired})
  /\ UNCHANGED <<request, jar, issued, now>>

Tick ==
  /\ now < MaxTime
  /\ now' = now + 1
  /\ UNCHANGED <<session, token, request, jar, issued>>

Browse(b) ==
  \/ \E r \in Requests :
       \/ \E user \in Users : Send(r, b, "login", user)
       \/ \E kind \in {"refresh", "logout"} : Send(r, b, kind, NoUser)
  \/ DropCookie(b)

Handle(r) ==
  \/ \E h \in Tokens : CreateSession(r, h) \/ Rotate(r, h)
  \/ Reject(r)
  \/ RejectReused(r)
  \/ Revoke(r)
  \/ Fail(r)
  \/ Answer(r)

Next ==
  \/ \E b \in Browsers : Browse(b)
  \/ \E r \in Requests : Handle(r) \/ Receive(r)
  \/ Cleanup
  \/ Tick

Spec == Init /\ [][Next]_vars

-----------------------------------------------------------------------------
(* Properties.                                                             *)

Granted(r) == request[r].kind = "refresh" /\ request[r].given # NoCookie
Refused(r) == request[r].kind = "refresh" /\ request[r].outcome = "unauthorized"
LoggedOut(r) == request[r].kind = "logout" /\ request[r].outcome = "ok"

\* Both credentials descend from the same login.
SameLogin(h, k) ==
  h \in DOMAIN issued /\ k \in DOMAIN issued /\ issued[h].root = issued[k].root

\* However many requests refresh at once, fail or get lost, a session has
\* exactly one credential that was not used yet (rotate_refresh_session).
OneCurrentToken ==
  \A s \in DOMAIN session : \E h \in Tokens :
    {k \in DOMAIN token : token[k].session = s /\ ~token[k].consumed} = {h}

\* Two refreshes are never both granted with the same credential, whatever
\* copies of it are under way (the consumed flag under BEGIN IMMEDIATE).
CredentialSpentOnce ==
  \A r, q \in Requests :
    Granted(r) /\ Granted(q) /\ request[r].credential = request[q].credential => r = q

\* A 401 is final: the session of the refused credential is revoked, expired
\* or deleted, so clearing the cookie never throws away a session that could
\* go on (the revocation commits before the refusal).
RefusedMeansOver ==
  \A r \in Requests : LET c == request[r].credential IN
    Refused(r) /\ Known(c) => Over(c)

\* A credential refreshes only the account it was issued to, although row ids
\* of deleted sessions are given to later ones (cleanup deletes both tables).
CredentialKeepsUser ==
  \A r \in Requests : LET c == request[r].credential IN
    Granted(r) => c \in DOMAIN issued /\ request[r].user = issued[c].user

\* A session is revoked only because one of its own credentials came with a
\* logout or came twice; the account's other sessions are left alone.
RevokedForCause ==
  \A h \in DOMAIN token :
    Known(h) /\ session[token[h].session].revoked =>
      \E r \in Requests :
        (LoggedOut(r) \/ Refused(r)) /\ SameLogin(h, request[r].credential)

\* The session and every cookie handed out for it keep the deadline of the
\* login, however often they are rotated.
DeadlineNeverMoves ==
  /\ \A h \in DOMAIN token : Known(h) => session[token[h].session].expires = issued[h].deadline
  /\ \A b \in Browsers : LET h == jar[b].token IN
       h # NoToken => h \in DOMAIN issued /\ jar[b].expires = issued[h].deadline

\* Once a logout is done or a refresh refused, no credential that descends from
\* the same login is granted a refresh, in whatever order requests arrive.
EndedLoginGrantsNothing ==
  [][\A r, q \in Requests :
       (LoggedOut(q) \/ Refused(q)) /\ ~Granted(r) /\ Granted(r)'
         => ~SameLogin(request[r].credential, request[q].credential)]_vars
=============================================================================
