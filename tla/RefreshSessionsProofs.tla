----------------------- MODULE RefreshSessionsProofs -----------------------
(***************************************************************************)
(* Theorems about RefreshSessions, for every number of browsers, accounts, *)
(* credentials and requests.                                               *)
(***************************************************************************)
EXTENDS RefreshSessions, TLAPS

-----------------------------------------------------------------------------
(* Tables.                                                                 *)

\* Adding a row of the right type to a table.
LEMMA PutType ==
  ASSUME NEW f, NEW Keys, NEW Rows, Table(f, Keys, Rows), NEW k \in Keys, NEW row \in Rows
  PROVE  /\ Table(Put(f, k, row), Keys, Rows)
         /\ DOMAIN Put(f, k, row) = DOMAIN f \cup {k}
         /\ Put(f, k, row)[k] = row
         /\ \A x \in DOMAIN f \ {k} : Put(f, k, row)[x] = f[x]
BY DEF Table, Put

\* Deleting rows of a table.
LEMMA WithoutType ==
  ASSUME NEW f, NEW Keys, NEW Rows, Table(f, Keys, Rows), NEW keys
  PROVE  /\ Table(Without(f, keys), Keys, Rows)
         /\ DOMAIN Without(f, keys) = DOMAIN f \ keys
         /\ \A x \in DOMAIN f \ keys : Without(f, keys)[x] = f[x]
BY DEF Table, Without

\* The next row id is not in use.
LEMMA NextIdIsFree ==
  ASSUME TypeOK, NEW id \in SessionIds, IsNextId(id)
  PROVE  id \notin DOMAIN session
BY SessionAssumption DEF IsNextId, TypeOK, Table

\* No cookie is a cookie.
LEMMA NoCookieType == NoCookie \in Cookie /\ NoCookie.token = NoToken
BY DEF NoCookie, Cookie

\* What ends a request's transaction keeps the requests well-formed and
\* touches no other request.
LEMMA FinishType ==
  ASSUME TypeOK, NEW r \in Requests, NEW outcome \in {"ok", "unauthorized", "internal"},
         NEW user \in Users \cup {NoUser}, NEW given \in Cookie,
         Finish(r, outcome, user, given)
  PROVE  /\ request' \in [Requests -> Request]
         /\ \A q \in Requests \ {r} : request'[q] = request[q]
         /\ request'[r] = [phase |-> "done", kind |-> request[r].kind,
                           browser |-> request[r].browser, user |-> user,
                           credential |-> request[r].credential, outcome |-> outcome,
                           given |-> given]
         /\ \A q \in Requests : request'[q].kind = "login" /\ request'[q].phase = "sent"
                                  => request'[q].user \in Users
<1>1. request[r] \in Request
  BY DEF TypeOK
<1>2. request'[r] = [phase |-> "done", kind |-> request[r].kind,
                     browser |-> request[r].browser, user |-> user,
                     credential |-> request[r].credential, outcome |-> outcome,
                     given |-> given]
  BY <1>1 DEF Finish, Request, TypeOK
<1>3. request'[r] \in Request
  BY <1>1, <1>2 DEF Request
<1> QED
  BY <1>2, <1>3 DEF Finish, TypeOK

-----------------------------------------------------------------------------
(* The inductive invariant.                                                *)

\* Every credential in the table was issued.
Recorded == DOMAIN token \subseteq DOMAIN issued

\* Tokens go with their session (the foreign key).
TokensHaveSessions == \A h \in DOMAIN token : token[h].session \in DOMAIN session

\* The session's row says what the login said.
RowsOfLogin ==
  \A h \in DOMAIN token : LET row == session[token[h].session] IN
    row.user = issued[h].user /\ row.expires = issued[h].deadline

\* A login is named by its first credential.
RootsIssued == \A h \in DOMAIN issued : issued[h].root \in DOMAIN issued

\* Stored credentials have the same session exactly if they have the same login.
LoginIsSession ==
  \A h, k \in DOMAIN token :
    issued[h].root = issued[k].root <=> token[h].session = token[k].session

\* The history of a session is kept or deleted as a whole.
LoginsWhole ==
  \A h, k \in DOMAIN issued :
    issued[h].root = issued[k].root /\ h \in DOMAIN token => k \in DOMAIN token

Tables ==
  /\ Recorded /\ TokensHaveSessions /\ RowsOfLogin
  /\ RootsIssued /\ LoginIsSession /\ LoginsWhole
  /\ OneCurrentToken

\* A cookie is a credential that was issued, with its login's deadline.
CookieOfLogin(cookie) ==
  cookie.token # NoToken =>
    cookie.token \in DOMAIN issued /\ cookie.expires = issued[cookie.token].deadline

Cookies ==
  /\ \A b \in Browsers : CookieOfLogin(jar[b])
  /\ \A r \in Requests :
       /\ CookieOfLogin(request[r].given)
       /\ request[r].credential # NoToken => request[r].credential \in DOMAIN issued

\* Nothing came yet of a request that did not run its transaction, and only a
\* granted refresh is ok.
Outcomes ==
  \A r \in Requests :
    /\ request[r].phase \in {"unused", "sent"} =>
         request[r].outcome = "none" /\ request[r].given = NoCookie
    /\ request[r].kind = "refresh" /\ request[r].outcome = "ok" => Granted(r)

\* A refresh that was granted spent its credential.
GrantedSpent ==
  \A r \in Requests : LET c == request[r].credential IN
    Granted(r) =>
      /\ c \in DOMAIN issued
      /\ request[r].user = issued[c].user
      /\ request[r].given.expires = issued[c].deadline
      /\ c \in DOMAIN token => token[c].consumed

\* A logout that was done and a refresh that was refused ended their session.
EndedIsOver ==
  \A r \in Requests : LET c == request[r].credential IN
    (LoggedOut(r) \/ Refused(r)) /\ Known(c) => Over(c)

IInv ==
  /\ TypeOK /\ Tables /\ Cookies /\ Outcomes
  /\ GrantedSpent /\ EndedIsOver /\ CredentialSpentOnce /\ RevokedForCause

-----------------------------------------------------------------------------
(* What the transactions do to the tables, row by row.                     *)

\* A login adds one session with a new id, one credential and its history.
LEMMA CreateEffect ==
  ASSUME TypeOK, Recorded, NEW r \in Requests, NEW h \in Tokens, CreateSession(r, h)
  PROVE  \E id \in SessionIds :
           /\ id \notin DOMAIN session /\ h \notin DOMAIN issued /\ h \notin DOMAIN token
           /\ DOMAIN session' = DOMAIN session \cup {id}
           /\ session'[id] = [user |-> request[r].user, expires |-> now + Lifetime,
                              revoked |-> FALSE]
           /\ \A s \in DOMAIN session : session'[s] = session[s]
           /\ DOMAIN token' = DOMAIN token \cup {h}
           /\ token'[h] = [session |-> id, consumed |-> FALSE]
           /\ \A k \in DOMAIN token : token'[k] = token[k]
           /\ DOMAIN issued' = DOMAIN issued \cup {h}
           /\ issued'[h] = [user |-> request[r].user, root |-> h, deadline |-> now + Lifetime]
           /\ \A k \in DOMAIN issued : issued'[k] = issued[k]
<1> DEFINE deadline == now + Lifetime
<1>1. PICK id \in SessionIds :
        /\ IsNextId(id)
        /\ session' = Put(session, id, [user |-> request[r].user, expires |-> deadline,
                                        revoked |-> FALSE])
        /\ token' = Put(token, h, [session |-> id, consumed |-> FALSE])
  BY DEF CreateSession
<1>2. id \notin DOMAIN session
  BY <1>1, NextIdIsFree
<1>3. h \notin DOMAIN issued /\ h \notin DOMAIN token
  BY DEF CreateSession, Fresh, Recorded
<1>4. issued' = Put(issued, h, [user |-> request[r].user, root |-> h, deadline |-> deadline])
  BY DEF CreateSession
<1> QED
  BY <1>1, <1>2, <1>3, <1>4 DEF Put

\* A rotation of c to h: c is current and becomes consumed, h joins its session
\* and its login, nothing else changes.
RotateRows(c, h) ==
  /\ c \in DOMAIN token /\ c \in DOMAIN issued /\ ~token[c].consumed /\ ~Over(c)
  /\ token[c].session \in DOMAIN session
  /\ h \notin DOMAIN issued /\ h \notin DOMAIN token
  /\ session' = session
  /\ DOMAIN token' = DOMAIN token \cup {h}
  /\ token'[h] = [session |-> token[c].session, consumed |-> FALSE]
  /\ token'[c] = [session |-> token[c].session, consumed |-> TRUE]
  /\ \A k \in DOMAIN token \ {c} : token'[k] = token[k]
  /\ DOMAIN issued' = DOMAIN issued \cup {h}
  /\ issued'[h] = issued[c]
  /\ \A k \in DOMAIN issued : issued'[k] = issued[k]

\* That is what rotate does.
LEMMA RotateEffect ==
  ASSUME TypeOK, Recorded, NEW r \in Requests, NEW h \in Tokens, Rotate(r, h)
  PROVE  RotateRows(request[r].credential, h)
<1> DEFINE c == request[r].credential
<1>1. c \in DOMAIN token /\ c \in DOMAIN issued /\ ~token[c].consumed /\ ~Over(c)
      /\ token[c].session \in DOMAIN session
  BY DEF Rotate, Known, Recorded
<1>2. h \notin DOMAIN issued /\ h \notin DOMAIN token
  BY DEF Rotate, Fresh, Recorded
<1>3. token[c] \in TokenRow
  BY <1>1 DEF TypeOK, Table
<1>4. [token EXCEPT ![c].consumed = TRUE][c] = [session |-> token[c].session, consumed |-> TRUE]
  BY <1>1, <1>3 DEF TokenRow
<1>5. token' = Put([token EXCEPT ![c].consumed = TRUE], h,
                   [session |-> token[c].session, consumed |-> FALSE])
  BY DEF Rotate
<1>6. session' = session /\ issued' = Put(issued, h, issued[c])
  BY DEF Rotate
<1> QED
  BY <1>1, <1>2, <1>4, <1>5, <1>6 DEF Put, RotateRows

\* Reuse and logout revoke one session and change nothing else of it.
LEMMA RevokeEffect ==
  ASSUME TypeOK, NEW r \in Requests, RejectReused(r) \/ Revoke(r),
         NEW c, c = request[r].credential
  PROVE  /\ DOMAIN session' = DOMAIN session /\ token' = token /\ issued' = issued
         /\ \A s \in DOMAIN session :
              /\ session'[s].user = session[s].user
              /\ session'[s].expires = session[s].expires
              /\ session[s].revoked => session'[s].revoked
              /\ session'[s].revoked => session[s].revoked \/ (Known(c) /\ s = token[c].session)
         /\ Known(c) => session'[token[c].session].revoked
<1>1. \A s \in DOMAIN session : session[s] \in SessionRow
  BY DEF TypeOK, Table
<1>2. CASE RejectReused(r)
  <2>1. Known(c) /\ session' = [session EXCEPT ![token[c].session].revoked = TRUE]
        /\ token' = token /\ issued' = issued
    BY <1>2 DEF RejectReused
  <2> QED
    BY <1>1, <2>1 DEF Known, SessionRow
<1>3. CASE Revoke(r)
  <2>1. session' = [s \in DOMAIN session |->
                      IF Known(c) /\ s = token[c].session
                      THEN [session[s] EXCEPT !.revoked = TRUE] ELSE session[s]]
        /\ token' = token /\ issued' = issued
    BY <1>3 DEF Revoke
  <2> QED
    BY <1>1, <2>1 DEF Known, SessionRow
<1> QED
  BY <1>2, <1>3

\* Cleanup deletes sessions with exactly their tokens.
LEMMA CleanupEffect ==
  ASSUME TypeOK, TokensHaveSessions, Cleanup
  PROVE  /\ issued' = issued
         /\ DOMAIN session' \subseteq DOMAIN session
         /\ \A s \in DOMAIN session' : session'[s] = session[s]
         /\ DOMAIN token' \subseteq DOMAIN token
         /\ \A h \in DOMAIN token' : token'[h] = token[h]
         /\ \A h \in DOMAIN token : h \in DOMAIN token' <=> token[h].session \in DOMAIN session'
<1> DEFINE expired == {s \in DOMAIN session : session[s].expires <= now}
<1>1. session' = Without(session, expired)
      /\ token' = Without(token, {h \in DOMAIN token : token[h].session \in expired})
      /\ issued' = issued
  BY DEF Cleanup
<1> HIDE DEF expired
<1> QED
  BY <1>1 DEF Without, TokensHaveSessions

\* The answer only turns a cookie that expired meanwhile into a refusal.
LEMMA AnswerEffect ==
  ASSUME TypeOK, NEW r \in Requests, Answer(r)
  PROVE  \E outcome \in {"none", "ok", "unauthorized", "internal"} :
           /\ request' = [request EXCEPT ![r] =
                            [request[r] EXCEPT !.phase = "answered", !.outcome = outcome]]
           /\ outcome # request[r].outcome =>
                outcome = "unauthorized" /\ request[r].kind # "logout"
                /\ request[r].outcome = "ok" /\ request[r].given.expires <= now
           /\ request[r].phase = "done"
<1>1. request[r] \in Request
  BY DEF TypeOK
<1> DEFINE outcome == IF request[r].outcome = "ok" /\ request[r].kind # "logout"
                         /\ request[r].given.expires <= now
                      THEN "unauthorized" ELSE request[r].outcome
<1>2. request' = [request EXCEPT ![r] =
                    [request[r] EXCEPT !.phase = "answered", !.outcome = outcome]]
  BY <1>1 DEF Answer, Request
<1>3. outcome \in {"none", "ok", "unauthorized", "internal"}
  BY <1>1 DEF Request
<1> QED
  BY <1>2, <1>3 DEF Answer

-----------------------------------------------------------------------------
(* Type correctness.                                                       *)

\* The empty tables and unused requests are well-formed.
LEMMA TypeInit == Init => TypeOK
<1> SUFFICES ASSUME Init PROVE TypeOK
  OBVIOUS
<1>1. \A Keys, Rows : Table(<<>>, Keys, Rows)
  BY DEF Table
<1>2. request \in [Requests -> Request]
  BY NoCookieType DEF Init, Request
<1>3. now \in 0..MaxTime
  BY SessionAssumption DEF Init
<1> QED
  BY <1>1, <1>2, <1>3, NoCookieType DEF Init, TypeOK

\* Every step keeps the types.
LEMMA TypeStep == TypeOK /\ Recorded /\ [Next]_vars => TypeOK'
<1> SUFFICES ASSUME TypeOK, Recorded, [Next]_vars PROVE TypeOK'
  OBVIOUS
<1>0. now \in Nat
  BY SessionAssumption DEF TypeOK
<1>u. Users \subseteq Users \cup {NoUser} /\ NoUser \in Users \cup {NoUser}
  OBVIOUS
<1>1. ASSUME NEW r \in Requests, NEW b \in Browsers, NEW user \in Users \cup {NoUser},
             NEW kind \in {"login", "refresh", "logout"}, Send(r, b, kind, user),
             kind = "login" => user \in Users
      PROVE  TypeOK'
  <2>1. jar[b].token \in Tokens \cup {NoToken}
    BY DEF TypeOK, Cookie
  <2>2. request' \in [Requests -> Request]
    BY <1>1, <2>1, NoCookieType DEF Send, Request, TypeOK
  <2>3. \A q \in Requests : request'[q].kind = "login" /\ request'[q].phase = "sent"
                              => request'[q].user \in Users
    BY <1>1 DEF Send, TypeOK
  <2> QED
    BY <1>1, <2>2, <2>3 DEF Send, TypeOK
<1>2. ASSUME NEW r \in Requests, Receive(r)
      PROVE  TypeOK'
  <2>1. request[r] \in Request
    BY DEF TypeOK
  <2>2. request' \in [Requests -> Request]
    BY <1>2, <2>1 DEF Receive, Request, TypeOK
  <2>3. request[r].given \in Cookie
    BY <2>1 DEF Request
  <2>4. jar' \in [Browsers -> Cookie]
    BY <1>2, <2>3, NoCookieType DEF Receive, TypeOK
  <2>5. \A q \in Requests : request'[q].kind = "login" /\ request'[q].phase = "sent"
                              => request'[q].user \in Users
    BY <1>2, <2>1 DEF Receive, TypeOK, Request
  <2> QED
    BY <1>2, <2>2, <2>4, <2>5 DEF Receive, TypeOK
<1>3. ASSUME NEW b \in Browsers, DropCookie(b)
      PROVE  TypeOK'
  BY <1>3, NoCookieType DEF DropCookie, TypeOK
<1>4. ASSUME NEW r \in Requests, NEW h \in Tokens, CreateSession(r, h)
      PROVE  TypeOK'
  <2> DEFINE deadline == now + Lifetime
  <2>1. request[r].user \in Users
    BY <1>4 DEF CreateSession, Arrived, TypeOK
  <2>2. deadline \in Nat
    BY <1>0, SessionAssumption
  <2>3. PICK id \in SessionIds :
          /\ session' = Put(session, id, [user |-> request[r].user, expires |-> deadline,
                                          revoked |-> FALSE])
          /\ token' = Put(token, h, [session |-> id, consumed |-> FALSE])
    BY <1>4 DEF CreateSession
  <2> HIDE DEF deadline
  <2>4. Table(session', SessionIds, SessionRow)
    BY <2>1, <2>2, <2>3, PutType DEF TypeOK, SessionRow
  <2>5. Table(token', Tokens, TokenRow)
    BY <2>3, PutType DEF TypeOK, TokenRow
  <2>6. Table(issued', Tokens, Login)
    <3>1. [user |-> request[r].user, root |-> h, deadline |-> deadline] \in Login
      BY <2>1, <2>2 DEF Login
    <3>2. issued' = Put(issued, h, [user |-> request[r].user, root |-> h, deadline |-> deadline])
      BY <1>4 DEF CreateSession, deadline
    <3> QED
      BY <3>1, <3>2, PutType DEF TypeOK
  <2>7. Finish(r, "ok", request[r].user, [token |-> h, expires |-> deadline])
    BY <1>4 DEF CreateSession, deadline
  <2>8. [token |-> h, expires |-> deadline] \in Cookie
    BY <2>2 DEF Cookie
  <2>9. request[r].user \in Users \cup {NoUser}
    BY <2>1
  <2> QED
    BY <1>4, <2>4, <2>5, <2>6, <2>7, <2>8, <2>9, FinishType DEF CreateSession, TypeOK
<1>5. ASSUME NEW r \in Requests, NEW h \in Tokens, Rotate(r, h)
      PROVE  TypeOK'
  <2> DEFINE c == request[r].credential
             row == session[token[c].session]
  <2>1. Known(c) /\ row \in SessionRow /\ token[c].session \in SessionIds
    BY <1>5 DEF Rotate, Known, TypeOK, Table, TokenRow
  <2>2. Table([token EXCEPT ![c].consumed = TRUE], Tokens, TokenRow)
    BY <2>1 DEF Known, TypeOK, Table, TokenRow
  <2>3. Table(token', Tokens, TokenRow)
    <3>1. [session |-> token[c].session, consumed |-> FALSE] \in TokenRow
      BY <2>1 DEF TokenRow
    <3>2. token' = Put([token EXCEPT ![c].consumed = TRUE], h,
                       [session |-> token[c].session, consumed |-> FALSE])
      BY <1>5 DEF Rotate
    <3> QED
      BY <2>2, <3>1, <3>2, PutType
  <2>4. Table(issued', Tokens, Login)
    <3>1. issued[c] \in Login
      BY <2>1 DEF Known, Recorded, TypeOK, Table
    <3>2. issued' = Put(issued, h, issued[c])
      BY <1>5 DEF Rotate
    <3> QED
      BY <3>1, <3>2, PutType DEF TypeOK
  <2>5. Finish(r, "ok", row.user, [token |-> h, expires |-> row.expires])
    BY <1>5 DEF Rotate
  <2>6. [token |-> h, expires |-> row.expires] \in Cookie /\ row.user \in Users \cup {NoUser}
    BY <2>1 DEF Cookie, SessionRow
  <2> QED
    BY <1>5, <2>3, <2>4, <2>5, <2>6, FinishType DEF Rotate, TypeOK
<1>6. ASSUME NEW r \in Requests, Reject(r)
      PROVE  TypeOK'
  BY <1>6, FinishType, NoCookieType DEF Reject, TypeOK
<1>7. ASSUME NEW r \in Requests, RejectReused(r)
      PROVE  TypeOK'
  <2>1. Table(session', SessionIds, SessionRow)
    BY <1>7 DEF RejectReused, TypeOK, Table, SessionRow
  <2> QED
    BY <1>7, <2>1, FinishType, NoCookieType DEF RejectReused, TypeOK
<1>8. ASSUME NEW r \in Requests, Revoke(r)
      PROVE  TypeOK'
  <2>1. \A s \in DOMAIN session : [session[s] EXCEPT !.revoked = TRUE] \in SessionRow
    BY DEF TypeOK, Table, SessionRow
  <2>2. Table(session', SessionIds, SessionRow)
    BY <1>8, <2>1 DEF Revoke, TypeOK, Table
  <2> QED
    BY <1>8, <2>2, FinishType, NoCookieType DEF Revoke, TypeOK
<1>9. ASSUME NEW r \in Requests, Fail(r)
       PROVE  TypeOK'
  BY <1>9, FinishType, NoCookieType DEF Fail, TypeOK
<1>10. ASSUME NEW r \in Requests, Answer(r)
       PROVE  TypeOK'
  <2>1. request[r] \in Request
    BY DEF TypeOK
  <2>2. request' \in [Requests -> Request]
    <3>1. PICK outcome \in {"none", "ok", "unauthorized", "internal"} :
            request' = [request EXCEPT ![r] =
                          [request[r] EXCEPT !.phase = "answered", !.outcome = outcome]]
      BY <1>10, AnswerEffect
    <3>2. [request[r] EXCEPT !.phase = "answered", !.outcome = outcome] \in Request
      BY <2>1 DEF Request
    <3> QED
      BY <3>1, <3>2 DEF TypeOK
  <2>3. \A q \in Requests : request'[q].kind = "login" /\ request'[q].phase = "sent"
                              => request'[q].user \in Users
    BY <1>10, <2>1 DEF Answer, TypeOK, Request
  <2> QED
    BY <1>10, <2>2, <2>3 DEF Answer, TypeOK
<1>11. CASE Cleanup
  BY <1>11, WithoutType DEF Cleanup, TypeOK
<1>12. CASE Tick
  BY <1>12, <1>0, SessionAssumption DEF Tick, TypeOK
<1>13. CASE UNCHANGED vars
  BY <1>13 DEF vars, TypeOK
<1> QED
  BY <1>1, <1>2, <1>3, <1>4, <1>5, <1>6, <1>7, <1>8, <1>9, <1>10, <1>11, <1>12, <1>13
     DEF Next, Browse, Handle

-----------------------------------------------------------------------------
(* The tables.                                                             *)

\* Every step keeps the tables consistent with one another and with the logins.
LEMMA TablesStep == TypeOK /\ Tables /\ [Next]_vars => Tables'
<1> SUFFICES ASSUME TypeOK, Tables, [Next]_vars PROVE Tables'
  OBVIOUS
<1>t. /\ Recorded /\ TokensHaveSessions /\ RowsOfLogin
      /\ RootsIssued /\ LoginIsSession /\ LoginsWhole /\ OneCurrentToken
  BY DEF Tables
<1>1. ASSUME NEW r \in Requests, NEW h \in Tokens, CreateSession(r, h)
      PROVE  Tables'
  <2>1. PICK id \in SessionIds :
           /\ id \notin DOMAIN session /\ h \notin DOMAIN issued /\ h \notin DOMAIN token
           /\ DOMAIN session' = DOMAIN session \cup {id}
           /\ session'[id] = [user |-> request[r].user, expires |-> now + Lifetime,
                              revoked |-> FALSE]
           /\ \A s \in DOMAIN session : session'[s] = session[s]
           /\ DOMAIN token' = DOMAIN token \cup {h}
           /\ token'[h] = [session |-> id, consumed |-> FALSE]
           /\ \A k \in DOMAIN token : token'[k] = token[k]
           /\ DOMAIN issued' = DOMAIN issued \cup {h}
           /\ issued'[h] = [user |-> request[r].user, root |-> h, deadline |-> now + Lifetime]
           /\ \A k \in DOMAIN issued : issued'[k] = issued[k]
    BY <1>1, <1>t, CreateEffect
  <2>2. Recorded' /\ TokensHaveSessions' /\ RootsIssued'
    BY <1>t, <2>1 DEF Recorded, TokensHaveSessions, RootsIssued
  <2>3. RowsOfLogin'
    BY <1>t, <2>1 DEF RowsOfLogin, Recorded, TokensHaveSessions
  <2>4. LoginIsSession'
    BY <1>t, <2>1 DEF LoginIsSession, Recorded, TokensHaveSessions, RootsIssued
  <2>5. LoginsWhole'
    BY <1>t, <2>1 DEF LoginsWhole, Recorded, RootsIssued
  <2>6. OneCurrentToken'
    <3> SUFFICES ASSUME NEW s \in DOMAIN session'
                 PROVE  \E t \in Tokens :
                          {k \in DOMAIN token' : token'[k].session = s /\ ~token'[k].consumed} = {t}
      BY DEF OneCurrentToken
    <3>1. CASE s = id
      <4>1. \A k \in DOMAIN token : token[k].session # id
        BY <1>t, <2>1 DEF TokensHaveSessions
      <4>2. {k \in DOMAIN token' : token'[k].session = s /\ ~token'[k].consumed} = {h}
        BY <2>1, <3>1, <4>1
      <4> QED
        BY <4>2
    <3>2. CASE s # id
      <4>1. s \in DOMAIN session
        BY <2>1, <3>2
      <4>2. {k \in DOMAIN token' : token'[k].session = s /\ ~token'[k].consumed}
              = {k \in DOMAIN token : token[k].session = s /\ ~token[k].consumed}
        BY <2>1, <3>2
      <4> QED
        BY <1>t, <4>1, <4>2 DEF OneCurrentToken
    <3> QED
      BY <3>1, <3>2
  <2> QED
    BY <2>2, <2>3, <2>4, <2>5, <2>6 DEF Tables
<1>2. ASSUME NEW r \in Requests, NEW h \in Tokens, Rotate(r, h)
      PROVE  Tables'
  <2> DEFINE c == request[r].credential
  <2> HIDE DEF c
  <2>1. RotateRows(c, h)
    BY <1>2, <1>t, RotateEffect DEF c
  <2>2. \A k \in DOMAIN token : token'[k].session = token[k].session
    BY <2>1 DEF RotateRows
  <2>3. Recorded' /\ TokensHaveSessions' /\ RootsIssued'
    BY <1>t, <2>1, <2>2 DEF Recorded, TokensHaveSessions, RootsIssued, RotateRows
  <2>4. RowsOfLogin'
    BY <1>t, <2>1, <2>2 DEF RowsOfLogin, Recorded, RotateRows
  <2>5. LoginIsSession'
    BY <1>t, <2>1, <2>2 DEF LoginIsSession, Recorded, RotateRows
  <2>6. LoginsWhole'
    BY <1>t, <2>1 DEF LoginsWhole, Recorded, RotateRows
  <2>7. OneCurrentToken'
    <3> SUFFICES ASSUME NEW s \in DOMAIN session
                 PROVE  \E t \in Tokens :
                          {k \in DOMAIN token' : token'[k].session = s /\ ~token'[k].consumed} = {t}
      BY <2>1 DEF OneCurrentToken, RotateRows
    <3>1. PICK t \in Tokens :
            {k \in DOMAIN token : token[k].session = s /\ ~token[k].consumed} = {t}
      BY <1>t DEF OneCurrentToken
    <3>2. CASE s = token[c].session
      <4>1. t = c
        BY <2>1, <3>1, <3>2 DEF RotateRows
      <4>2. {k \in DOMAIN token' : token'[k].session = s /\ ~token'[k].consumed} = {h}
        BY <2>1, <3>1, <3>2, <4>1 DEF RotateRows
      <4> QED
        BY <4>2
    <3>3. CASE s # token[c].session
      <4>1. {k \in DOMAIN token' : token'[k].session = s /\ ~token'[k].consumed} = {t}
        BY <2>1, <3>1, <3>3 DEF RotateRows
      <4> QED
        BY <4>1
    <3> QED
      BY <3>2, <3>3
  <2> QED
    BY <2>3, <2>4, <2>5, <2>6, <2>7 DEF Tables
<1>3. ASSUME NEW r \in Requests, RejectReused(r) \/ Revoke(r)
      PROVE  Tables'
  <2>1. /\ DOMAIN session' = DOMAIN session /\ token' = token /\ issued' = issued
        /\ \A s \in DOMAIN session : session'[s].user = session[s].user
                                     /\ session'[s].expires = session[s].expires
    BY <1>3, RevokeEffect
  <2>2. RowsOfLogin'
    BY <1>t, <2>1 DEF RowsOfLogin, TokensHaveSessions
  <2> QED
    BY <1>t, <2>1, <2>2 DEF Tables, Recorded, TokensHaveSessions, RootsIssued,
                            LoginIsSession, LoginsWhole, OneCurrentToken
<1>4. CASE Cleanup
  <2>1. /\ issued' = issued
        /\ DOMAIN session' \subseteq DOMAIN session
        /\ \A s \in DOMAIN session' : session'[s] = session[s]
        /\ DOMAIN token' \subseteq DOMAIN token
        /\ \A h \in DOMAIN token' : token'[h] = token[h]
        /\ \A h \in DOMAIN token : h \in DOMAIN token' <=> token[h].session \in DOMAIN session'
    BY <1>4, <1>t, CleanupEffect
  <2>2. Recorded' /\ TokensHaveSessions' /\ RootsIssued' /\ LoginIsSession'
    BY <1>t, <2>1 DEF Recorded, TokensHaveSessions, RootsIssued, LoginIsSession
  <2>3. RowsOfLogin'
    BY <1>t, <2>1, <2>2 DEF RowsOfLogin, TokensHaveSessions
  <2>4. LoginsWhole'
    BY <1>t, <2>1 DEF LoginsWhole, LoginIsSession
  <2>5. OneCurrentToken'
    <3> SUFFICES ASSUME NEW s \in DOMAIN session'
                 PROVE  {k \in DOMAIN token' : token'[k].session = s /\ ~token'[k].consumed}
                          = {k \in DOMAIN token : token[k].session = s /\ ~token[k].consumed}
      BY <1>t, <2>1 DEF OneCurrentToken
    <3> QED
      BY <2>1
  <2> QED
    BY <2>2, <2>3, <2>4, <2>5 DEF Tables
<1>5. CASE UNCHANGED <<session, token, issued>>
  BY <1>5, <1>t DEF Tables, Recorded, TokensHaveSessions, RowsOfLogin, RootsIssued,
                    LoginIsSession, LoginsWhole, OneCurrentToken
<1> QED
  BY <1>1, <1>2, <1>3, <1>4, <1>5
     DEF Next, Browse, Handle, Send, Receive, DropCookie, Reject, Fail, Answer, Tick, vars

-----------------------------------------------------------------------------
(* What a step may do to rows and requests.                                *)

\* Rows that stay keep what they say: a session only gets revoked, a
\* credential only consumed, and no credential comes back.
RowsAge ==
  /\ now <= now'
  /\ \A k \in DOMAIN issued : k \in DOMAIN issued' /\ issued'[k] = issued[k]
  /\ \A k \in DOMAIN token' : k \in DOMAIN token \/ k \notin DOMAIN issued
  /\ \A k \in DOMAIN token' \cap DOMAIN token :
       LET row == session[token[k].session]
           after == session'[token[k].session]
       IN
       /\ token'[k].session = token[k].session
       /\ token[k].consumed => token'[k].consumed
       /\ after.expires = row.expires
       /\ row.revoked => after.revoked

\* Every step lets the rows only age.
LEMMA RowsOnlyAge == TypeOK /\ Tables /\ [Next]_vars => RowsAge
<1> SUFFICES ASSUME TypeOK, Tables, [Next]_vars PROVE RowsAge
  OBVIOUS
<1>t. Recorded /\ TokensHaveSessions
  BY DEF Tables
<1>n. now \in Nat
  BY SessionAssumption DEF TypeOK
<1>1. ASSUME NEW r \in Requests, NEW h \in Tokens, CreateSession(r, h)
      PROVE  RowsAge
  <2>1. now' = now
    BY <1>1 DEF CreateSession
  <2>2. PICK id \in SessionIds :
           /\ id \notin DOMAIN session /\ h \notin DOMAIN issued /\ h \notin DOMAIN token
           /\ \A s \in DOMAIN session : session'[s] = session[s]
           /\ DOMAIN token' = DOMAIN token \cup {h}
           /\ \A k \in DOMAIN token : token'[k] = token[k]
           /\ DOMAIN issued' = DOMAIN issued \cup {h}
           /\ \A k \in DOMAIN issued : issued'[k] = issued[k]
    BY <1>1, <1>t, CreateEffect
  <2> QED
    BY <1>n, <1>t, <2>1, <2>2 DEF RowsAge, TokensHaveSessions
<1>2. ASSUME NEW r \in Requests, NEW h \in Tokens, Rotate(r, h)
      PROVE  RowsAge
  <2> DEFINE c == request[r].credential
  <2> HIDE DEF c
  <2>1. now' = now
    BY <1>2 DEF Rotate
  <2>2. RotateRows(c, h)
    BY <1>2, <1>t, RotateEffect DEF c
  <2>3. \A k \in DOMAIN token : /\ token'[k].session = token[k].session
                                /\ token[k].consumed => token'[k].consumed
    BY <2>2 DEF RotateRows
  <2> QED
    BY <1>n, <2>1, <2>2, <2>3 DEF RowsAge, RotateRows
<1>3. ASSUME NEW r \in Requests, RejectReused(r) \/ Revoke(r)
      PROVE  RowsAge
  <2>1. now' = now
    BY <1>3 DEF RejectReused, Revoke
  <2>2. /\ token' = token /\ issued' = issued
        /\ \A s \in DOMAIN session : /\ session'[s].expires = session[s].expires
                                     /\ session[s].revoked => session'[s].revoked
    BY <1>3, RevokeEffect
  <2> QED
    BY <1>n, <1>t, <2>1, <2>2 DEF RowsAge, TokensHaveSessions
<1>4. CASE Cleanup
  <2>1. now' = now
    BY <1>4 DEF Cleanup
  <2>2. /\ issued' = issued
        /\ \A s \in DOMAIN session' : session'[s] = session[s]
        /\ DOMAIN token' \subseteq DOMAIN token
        /\ \A h \in DOMAIN token' : token'[h] = token[h]
        /\ \A h \in DOMAIN token : h \in DOMAIN token' <=> token[h].session \in DOMAIN session'
    BY <1>4, <1>t, CleanupEffect
  <2> QED
    BY <1>n, <2>1, <2>2 DEF RowsAge
<1>5. CASE UNCHANGED <<session, token, issued>> /\ (now' = now \/ now' = now + 1)
  BY <1>5, <1>n DEF RowsAge
<1> QED
  BY <1>1, <1>2, <1>3, <1>4, <1>5
     DEF Next, Browse, Handle, Send, Receive, DropCookie, Reject, Fail, Answer, Tick, vars

\* A step leaves what a request said alone ...
Same(r) ==
  /\ request'[r].kind = request[r].kind
  /\ request'[r].credential = request[r].credential
  /\ request'[r].user = request[r].user
  /\ request'[r].outcome = request[r].outcome
  /\ request'[r].given = request[r].given
  /\ request[r].phase \notin {"unused", "sent"} => request'[r].phase \notin {"unused", "sent"}
  /\ request'[r].phase \in {"unused", "sent"} => request[r].phase \in {"unused", "sent"}

\* ... or turns its cookie, which expired, into a refusal ...
Late(r) ==
  /\ UNCHANGED <<session, token, issued, now>>
  /\ request'[r].kind = request[r].kind /\ request[r].kind # "logout"
  /\ request'[r].credential = request[r].credential
  /\ request'[r].user = request[r].user
  /\ request[r].outcome = "ok" /\ request'[r].outcome = "unauthorized"
  /\ request'[r].given = request[r].given /\ request[r].given.expires <= now
  /\ request'[r].phase = "answered"

\* ... or sends it ...
Sent(r) ==
  /\ \E b \in Browsers : request'[r].credential = jar[b].token
  /\ request[r].phase = "unused" /\ request'[r].phase = "sent"
  /\ request'[r].outcome = "none" /\ request'[r].given = NoCookie

\* ... or runs its transaction.
Ran(r, kind, outcome, given) ==
  /\ request[r].phase = "sent" /\ request'[r].phase = "done"
  /\ request'[r].kind = request[r].kind /\ (kind # "any" => request[r].kind = kind)
  /\ request'[r].credential = request[r].credential
  /\ request'[r].outcome = outcome
  /\ request'[r].given = given

Created(r) ==
  \E h \in Tokens : CreateSession(r, h) /\ Ran(r, "login", "ok", [token |-> h, expires |-> now + Lifetime])
Rotated(r) ==
  \E h \in Tokens : LET row == session[token[request[r].credential].session] IN
    /\ Rotate(r, h)
    /\ Ran(r, "refresh", "ok", [token |-> h, expires |-> row.expires])
    /\ request'[r].user = row.user
    /\ \A q \in Requests \ {r} : request'[q] = request[q]
Ended(r) ==
  \/ (Reject(r) \/ RejectReused(r)) /\ Ran(r, "refresh", "unauthorized", NoCookie)
  \/ Revoke(r) /\ Ran(r, "logout", "ok", NoCookie)
Failed(r) == Ran(r, "any", "internal", NoCookie)

\* These are all the things a step can do to a request.
LEMMA RequestSteps ==
  ASSUME TypeOK, [Next]_vars, NEW q \in Requests
  PROVE  Same(q) \/ Late(q) \/ Sent(q) \/ Created(q) \/ Rotated(q) \/ Ended(q) \/ Failed(q)
<1> DEFINE P == Same(q) \/ Late(q) \/ Sent(q) \/ Created(q) \/ Rotated(q) \/ Ended(q) \/ Failed(q)
<1>q. request[q] \in Request
  BY DEF TypeOK
<1>n. now \in Nat
  BY SessionAssumption DEF TypeOK
<1>0. CASE request'[q] = request[q]
  BY <1>0 DEF Same
<1>1. ASSUME NEW r \in Requests, NEW b \in Browsers, NEW user \in Users \cup {NoUser},
             NEW kind \in {"login", "refresh", "logout"}, Send(r, b, kind, user)
      PROVE  P
  <2>1. r # q => request'[q] = request[q]
    BY <1>1 DEF Send, TypeOK
  <2>2. r = q => Sent(q)
    BY <1>1 DEF Send, Sent, TypeOK
  <2> QED
    BY <1>0, <2>1, <2>2
<1>2. ASSUME NEW r \in Requests, Receive(r)
      PROVE  P
  <2>1. r # q => request'[q] = request[q]
    BY <1>2 DEF Receive, TypeOK
  <2>2. r = q => Same(q)
    BY <1>2, <1>q DEF Receive, Same, TypeOK, Request
  <2> QED
    BY <1>0, <2>1, <2>2
<1>3. ASSUME NEW r \in Requests, NEW h \in Tokens, CreateSession(r, h)
      PROVE  P
  <2>1. Finish(r, "ok", request[r].user, [token |-> h, expires |-> now + Lifetime])
        /\ Arrived(r, "login")
    BY <1>3 DEF CreateSession
  <2>2. [token |-> h, expires |-> now + Lifetime] \in Cookie /\ request[r].user \in Users \cup {NoUser}
    BY <1>n, SessionAssumption DEF Cookie, TypeOK, Request
  <2>3. r # q => request'[q] = request[q]
    <3>1. \A k \in Requests \ {r} : request'[k] = request[k]
      BY <2>1, <2>2, FinishType, Zenon
    <3> QED
      BY <3>1
  <2>4. Ran(r, "login", "ok", [token |-> h, expires |-> now + Lifetime])
    <3>1. request'[r] = [phase |-> "done", kind |-> request[r].kind,
                       browser |-> request[r].browser, user |-> request[r].user,
                       credential |-> request[r].credential, outcome |-> "ok",
                       given |-> [token |-> h, expires |-> now + Lifetime]]
      BY <2>1, <2>2, FinishType
    <3> QED
      BY <2>1, <3>1 DEF Ran, Arrived
  <2>5. r = q => Created(q)
    BY <1>3, <2>4 DEF Created
  <2> QED
    BY <1>0, <2>3, <2>5
<1>4. ASSUME NEW r \in Requests, NEW h \in Tokens, Rotate(r, h)
      PROVE  P
  <2> DEFINE row == session[token[request[r].credential].session]
             given == [token |-> h, expires |-> row.expires]
  <2>1. Finish(r, "ok", row.user, given) /\ Arrived(r, "refresh")
    BY <1>4 DEF Rotate
  <2>2. row \in SessionRow
    BY <1>4 DEF Rotate, Known, TypeOK, Table
  <2>3. given \in Cookie /\ row.user \in Users \cup {NoUser}
    BY <2>2 DEF Cookie, SessionRow
  <2> HIDE DEF row, given
  <2>4. \A k \in Requests \ {r} : request'[k] = request[k]
    BY <2>1, <2>3, FinishType, Zenon
  <2>5. Ran(r, "refresh", "ok", given) /\ request'[r].user = row.user
    <3>1. request'[r] = [phase |-> "done", kind |-> request[r].kind,
                       browser |-> request[r].browser, user |-> row.user,
                       credential |-> request[r].credential, outcome |-> "ok",
                       given |-> given]
      BY <2>1, <2>3, FinishType
    <3> QED
      BY <2>1, <3>1 DEF Ran, Arrived
  <2>6. r = q => Rotated(q)
    BY <1>4, <2>4, <2>5 DEF Rotated, row, given
  <2> QED
    BY <1>0, <2>4, <2>6
<1>5. ASSUME NEW r \in Requests, NEW kind, NEW outcome \in {"ok", "unauthorized", "internal"},
             request[r].phase = "sent" /\ (kind # "any" => request[r].kind = kind),
             Finish(r, outcome, NoUser, NoCookie),
             Ran(r, kind, outcome, NoCookie) => Ended(r) \/ Failed(r)
      PROVE  P
  <2>1. NoUser \in Users \cup {NoUser}
    OBVIOUS
  <2>2. r # q => request'[q] = request[q]
    <3>1. \A k \in Requests \ {r} : request'[k] = request[k]
      BY <1>5, <2>1, NoCookieType, FinishType, Zenon
    <3> QED
      BY <3>1
  <2>3. Ran(r, kind, outcome, NoCookie)
    <3>1. request'[r] = [phase |-> "done", kind |-> request[r].kind,
                       browser |-> request[r].browser, user |-> NoUser,
                       credential |-> request[r].credential, outcome |-> outcome,
                       given |-> NoCookie]
      BY <1>5, <2>1, NoCookieType, FinishType
    <3> QED
      BY <1>5, <3>1 DEF Ran
  <2> QED
    BY <1>0, <1>5, <2>2, <2>3
<1>6. ASSUME NEW r \in Requests, Reject(r) \/ RejectReused(r)
      PROVE  P
  <2>1. Arrived(r, "refresh") /\ Finish(r, "unauthorized", NoUser, NoCookie)
    BY <1>6 DEF Reject, RejectReused
  <2> QED
    BY <1>5, <1>6, <2>1 DEF Arrived, Ended
<1>7. ASSUME NEW r \in Requests, Revoke(r)
      PROVE  P
  <2>1. Arrived(r, "logout") /\ Finish(r, "ok", NoUser, NoCookie)
    BY <1>7 DEF Revoke
  <2> QED
    BY <1>5, <1>7, <2>1 DEF Arrived, Ended
<1>8. ASSUME NEW r \in Requests, Fail(r)
      PROVE  P
  <2>1. request[r].phase = "sent" /\ Finish(r, "internal", NoUser, NoCookie)
    BY <1>8 DEF Fail
  <2> QED
    BY <1>5, <2>1 DEF Failed
<1>9. ASSUME NEW r \in Requests, Answer(r)
      PROVE  P
  <2>1. r # q => request'[q] = request[q]
    BY <1>9 DEF Answer, TypeOK
  <2>2. UNCHANGED <<session, token, issued, now>>
    BY <1>9 DEF Answer
  <2>3. PICK outcome \in {"none", "ok", "unauthorized", "internal"} :
          /\ request' = [request EXCEPT ![r] =
                           [request[r] EXCEPT !.phase = "answered", !.outcome = outcome]]
          /\ outcome # request[r].outcome =>
               outcome = "unauthorized" /\ request[r].kind # "logout"
               /\ request[r].outcome = "ok" /\ request[r].given.expires <= now
          /\ request[r].phase = "done"
    BY <1>9, AnswerEffect
  <2>4. /\ request'[r].phase = "answered" /\ request'[r].outcome = outcome
        /\ request'[r].kind = request[r].kind /\ request'[r].user = request[r].user
        /\ request'[r].credential = request[r].credential /\ request'[r].given = request[r].given
    <3>1. request[r] \in Request
      BY DEF TypeOK
    <3> QED
      BY <2>3, <3>1 DEF TypeOK, Request
  <2>5. r = q => Same(q) \/ Late(q)
    BY <2>2, <2>3, <2>4 DEF Same, Late
  <2> QED
    BY <1>0, <2>1, <2>5
<1>10. ASSUME UNCHANGED request
       PROVE  P
  BY <1>0, <1>10
<1> HIDE DEF P
<1>11. P
  BY <1>1, <1>2, <1>3, <1>4, <1>6, <1>7, <1>8, <1>9, <1>10
     DEF Next, Browse, Handle, DropCookie, Cleanup, Tick, vars
<1> QED
  BY <1>11 DEF P

-----------------------------------------------------------------------------
(* The requests.                                                           *)

\* An outcome is only there after the transaction.
LEMMA OutcomesStep == TypeOK /\ Outcomes /\ [Next]_vars => Outcomes'
<1> SUFFICES ASSUME TypeOK, Outcomes, [Next]_vars, NEW q \in Requests
             PROVE  /\ request'[q].phase \in {"unused", "sent"} =>
                         request'[q].outcome = "none" /\ request'[q].given = NoCookie
                    /\ request'[q].kind = "refresh" /\ request'[q].outcome = "ok" =>
                         request'[q].given # NoCookie
  BY DEF Outcomes, Granted
<1>o. /\ request[q].phase \in {"unused", "sent"} =>
           request[q].outcome = "none" /\ request[q].given = NoCookie
      /\ request[q].kind = "refresh" /\ request[q].outcome = "ok" =>
           request[q].given # NoCookie
  BY DEF Outcomes, Granted
<1>1. CASE Same(q)
  BY <1>1, <1>o DEF Same
<1>2. CASE Late(q)
  BY <1>2 DEF Late
<1>3. CASE Sent(q)
  BY <1>3 DEF Sent
<1>4. CASE Created(q)
  BY <1>4 DEF Created, Ran
<1>5. CASE Rotated(q)
  <2>1. PICK h \in Tokens : request'[q].given =
          [token |-> h, expires |-> session[token[request[q].credential].session].expires]
          /\ request'[q].phase = "done"
    BY <1>5 DEF Rotated, Ran
  <2>2. request'[q].given.token # NoCookie.token
    BY <2>1, NoCookieType, SessionAssumption
  <2> QED
    BY <2>1, <2>2
<1>6. CASE Ended(q)
  BY <1>6 DEF Ended, Ran
<1>7. CASE Failed(q)
  BY <1>7 DEF Failed, Ran
<1> QED
  BY <1>1, <1>2, <1>3, <1>4, <1>5, <1>6, <1>7, RequestSteps

\* A credential that was granted a refresh stays consumed, its account and
\* deadline stay those of its login.
LEMMA GrantedStep ==
  TypeOK /\ Tables /\ GrantedSpent /\ [Next]_vars => GrantedSpent'
<1> SUFFICES ASSUME TypeOK, Tables, GrantedSpent, [Next]_vars, NEW q \in Requests, Granted(q)',
                    NEW c, c = request'[q].credential
             PROVE  /\ c \in DOMAIN issued'
                    /\ request'[q].user = issued'[c].user
                    /\ request'[q].given.expires = issued'[c].deadline
                    /\ c \in DOMAIN token' => token'[c].consumed
  BY DEF GrantedSpent
<1>t. Recorded /\ TokensHaveSessions /\ RowsOfLogin
  BY DEF Tables
<1>1. CASE Same(q) \/ Late(q)
  <2>1. Granted(q) /\ c = request[q].credential /\ request'[q].user = request[q].user
        /\ request'[q].given = request[q].given
    BY <1>1 DEF Same, Late, Granted
  <2>2. /\ c \in DOMAIN issued
        /\ request[q].user = issued[c].user
        /\ request[q].given.expires = issued[c].deadline
        /\ c \in DOMAIN token => token[c].consumed
    BY <2>1 DEF GrantedSpent
  <2> QED
    BY <2>1, <2>2, RowsOnlyAge DEF RowsAge
<1>2. CASE Rotated(q)
  <2>1. PICK h \in Tokens :
          /\ Rotate(q, h)
          /\ c = request[q].credential
          /\ request'[q].user = session[token[c].session].user
          /\ request'[q].given = [token |-> h, expires |-> session[token[c].session].expires]
    BY <1>2 DEF Rotated, Ran
  <2>2. RotateRows(c, h)
    BY <1>t, <2>1, RotateEffect
  <2> QED
    BY <1>t, <2>1, <2>2 DEF RowsOfLogin, RotateRows
<1>3. CASE Sent(q) \/ Created(q) \/ Ended(q) \/ Failed(q)
  BY <1>3 DEF Granted, Sent, Created, Ended, Failed, Ran
<1> QED
  BY <1>1, <1>2, <1>3, RequestSteps

\* Only a rotation grants a refresh.
LEMMA OnlyRotationGrants ==
  ASSUME TypeOK, [Next]_vars, NEW q \in Requests, Granted(q)'
  PROVE  \/ Granted(q) /\ request'[q].credential = request[q].credential
         \/ Rotated(q)
<1>1. Same(q) \/ Late(q) => Granted(q) /\ request'[q].credential = request[q].credential
  BY DEF Same, Late, Granted
<1>2. ~Sent(q) /\ ~Created(q) /\ ~Ended(q) /\ ~Failed(q)
  BY DEF Granted, Sent, Created, Ended, Failed, Ran
<1> QED
  BY <1>1, <1>2, RequestSteps

\* A rotation needs an unconsumed credential, so it is the first one of it.
LEMMA SpentOnceStep ==
  TypeOK /\ Tables /\ GrantedSpent /\ CredentialSpentOnce /\ [Next]_vars => CredentialSpentOnce'
<1> SUFFICES ASSUME TypeOK, Tables, GrantedSpent, CredentialSpentOnce, [Next]_vars
             PROVE  CredentialSpentOnce'
  OBVIOUS
<1>t. Recorded
  BY DEF Tables
<1>1. \A q \in Requests : Granted(q)' =>
        \/ Granted(q) /\ request'[q].credential = request[q].credential
        \/ Rotated(q)
  BY OnlyRotationGrants
<1>2. ASSUME NEW r \in Requests, NEW q \in Requests, Rotated(r), Granted(q)', r # q
      PROVE  request'[r].credential # request'[q].credential
  <2>1. PICK h \in Tokens : Rotate(r, h) /\ request'[q] = request[q]
                            /\ request'[r].credential = request[r].credential
    BY <1>2 DEF Rotated, Ran
  <2>2. request[r].credential \in DOMAIN token /\ ~token[request[r].credential].consumed
    BY <1>t, <2>1, RotateEffect DEF RotateRows
  <2>3. Granted(q)
    BY <1>2, <2>1 DEF Granted
  <2>4. request[q].credential \in DOMAIN token => token[request[q].credential].consumed
    BY <2>3 DEF GrantedSpent
  <2> QED
    BY <2>1, <2>2, <2>4
<1>3. ASSUME NEW r \in Requests, NEW q \in Requests, Granted(r)', Granted(q)',
             request'[r].credential = request'[q].credential
      PROVE  r = q
  <2>1. CASE Rotated(r) \/ Rotated(q)
    BY <1>2, <1>3, <2>1
  <2>2. CASE ~Rotated(r) /\ ~Rotated(q)
    BY <1>1, <1>3, <2>2 DEF CredentialSpentOnce
  <2> QED
    BY <2>1, <2>2
<1> QED
  BY <1>3 DEF CredentialSpentOnce

\* A session that is over stays over as long as its row is there.
LEMMA OverStays ==
  ASSUME TypeOK, TypeOK', TokensHaveSessions, TokensHaveSessions', RowsAge,
         NEW c \in DOMAIN token \cap DOMAIN token', Over(c)
  PROVE  Over(c)'
<1>1. now \in Int /\ now' \in Int /\ now <= now'
  BY SessionAssumption DEF TypeOK, RowsAge
<1>2. session[token[c].session].expires \in Int
  BY DEF TypeOK, Table, TokensHaveSessions, SessionRow
<1>3. /\ token'[c].session = token[c].session
      /\ session'[token[c].session].expires = session[token[c].session].expires
      /\ session[token[c].session].revoked => session'[token[c].session].revoked
  BY DEF RowsAge
<1> QED
  BY <1>1, <1>2, <1>3 DEF Over

\* What was ended stays over, and what is ended now is over.
LEMMA EndedStep ==
  IInv /\ TypeOK' /\ Tables' /\ [Next]_vars => EndedIsOver'
<1> SUFFICES ASSUME IInv, TypeOK', Tables', [Next]_vars, NEW q \in Requests,
                    (LoggedOut(q) \/ Refused(q))',
                    NEW c, c = request'[q].credential, Known(c)'
             PROVE  Over(c)'
  BY DEF EndedIsOver
<1>t. /\ TypeOK /\ Tables /\ Recorded /\ TokensHaveSessions /\ TokensHaveSessions'
      /\ RowsOfLogin /\ RowsAge
  BY RowsOnlyAge DEF IInv, Tables
<1>1. CASE Same(q)
  <2>1. (LoggedOut(q) \/ Refused(q)) /\ c = request[q].credential
    BY <1>1 DEF Same, LoggedOut, Refused
  <2>2. c \in DOMAIN token' /\ c # NoToken
    BY <1>t, SessionAssumption DEF Known, TypeOK, Table
  <2>3. c \in DOMAIN token
    BY <1>t, <2>1, <2>2 DEF IInv, Cookies, RowsAge
  <2>4. Over(c)
    BY <1>t, <2>1, <2>3 DEF IInv, EndedIsOver, Known, TokensHaveSessions
  <2> QED
    BY <1>t, <2>2, <2>3, <2>4, OverStays
<1>2. CASE Late(q)
  <2>1. request[q].kind = "refresh" /\ request[q].outcome = "ok"
        /\ c = request[q].credential /\ request[q].given.expires <= now
        /\ UNCHANGED <<session, token, issued, now>>
    BY <1>2 DEF Late, LoggedOut, Refused
  <2>2. Granted(q)
    BY <2>1 DEF IInv, Outcomes
  <2>3. request[q].given.expires = issued[c].deadline
    BY <2>1, <2>2 DEF IInv, GrantedSpent
  <2>4. c \in DOMAIN token
    BY <2>1 DEF Known
  <2>5. session[token[c].session].expires = issued[c].deadline
    BY <1>t, <2>4 DEF RowsOfLogin
  <2> QED
    BY <2>1, <2>3, <2>5 DEF Over
<1>3. CASE Ended(q)
  <2>1. c = request[q].credential
    BY <1>3 DEF Ended, Ran
  <2>2. CASE Reject(q)
    <3>1. UNCHANGED <<session, token, now>> /\ (Known(c) => Over(c))
      BY <2>1, <2>2 DEF Reject
    <3> QED
      BY <3>1 DEF Known, Over
  <2>3. CASE RejectReused(q) \/ Revoke(q)
    <3>1. DOMAIN session' = DOMAIN session /\ token' = token
          /\ (Known(c) => session'[token[c].session].revoked)
      BY <1>t, <2>1, <2>3, RevokeEffect
    <3> QED
      BY <3>1 DEF Known, Over
  <2> QED
    BY <1>3, <2>2, <2>3 DEF Ended
<1>4. CASE Sent(q) \/ Created(q) \/ Rotated(q) \/ Failed(q)
  BY <1>4 DEF LoggedOut, Refused, Sent, Created, Rotated, Failed, Ran
<1> QED
  BY <1>t, <1>1, <1>2, <1>3, <1>4, RequestSteps

\* What ended a login stays in the history of the requests.
LEMMA CauseStays ==
  ASSUME TypeOK, Tables, Outcomes, [Next]_vars, NEW r \in Requests, LoggedOut(r) \/ Refused(r),
         NEW h, SameLogin(h, request[r].credential)
  PROVE  (LoggedOut(r) \/ Refused(r))' /\ SameLogin(h, request[r].credential)'
<1>1. Same(r)
  <2>1. request[r].phase \notin {"unused", "sent"}
    BY DEF Outcomes, LoggedOut, Refused
  <2>2. ~Sent(r) /\ ~Created(r) /\ ~Rotated(r) /\ ~Ended(r) /\ ~Failed(r)
    BY <2>1 DEF Sent, Created, Rotated, Ended, Failed, Ran
  <2>3. ~Late(r)
    BY DEF Late, LoggedOut, Refused
  <2> QED
    BY <2>2, <2>3, RequestSteps
<1> QED
  BY <1>1, RowsOnlyAge DEF Same, LoggedOut, Refused, SameLogin, RowsAge

\* A session that is revoked now has its logout or refusal in the same step.
LEMMA CauseStep == IInv /\ [Next]_vars => RevokedForCause'
<1> SUFFICES ASSUME IInv, [Next]_vars, NEW h \in DOMAIN token', Known(h)',
                    session'[token'[h].session].revoked
             PROVE  \E r \in Requests :
                      (LoggedOut(r) \/ Refused(r))' /\ SameLogin(h, request[r].credential)'
  BY DEF RevokedForCause
<1>t. /\ TypeOK /\ Tables /\ Outcomes /\ Recorded /\ TokensHaveSessions /\ LoginIsSession
  BY DEF IInv, Tables
<1>0. ASSUME h \in DOMAIN token, session[token[h].session].revoked
      PROVE  \E r \in Requests :
               (LoggedOut(r) \/ Refused(r))' /\ SameLogin(h, request[r].credential)'
  <2>1. PICK r \in Requests :
          (LoggedOut(r) \/ Refused(r)) /\ SameLogin(h, request[r].credential)
    BY <1>0, <1>t DEF IInv, RevokedForCause, Known, TokensHaveSessions
  <2>2. (LoggedOut(r) \/ Refused(r))' /\ SameLogin(h, request[r].credential)'
    BY <1>t, <2>1, CauseStays
  <2> QED
    BY <2>2
<1>1. ASSUME NEW r \in Requests, NEW t \in Tokens, CreateSession(r, t)
      PROVE  h \in DOMAIN token /\ session[token[h].session].revoked
  <2>1. PICK id \in SessionIds :
           /\ id \notin DOMAIN session
           /\ session'[id] = [user |-> request[r].user, expires |-> now + Lifetime,
                              revoked |-> FALSE]
           /\ \A s \in DOMAIN session : session'[s] = session[s]
           /\ DOMAIN token' = DOMAIN token \cup {t}
           /\ token'[t] = [session |-> id, consumed |-> FALSE]
           /\ \A k \in DOMAIN token : token'[k] = token[k]
    BY <1>1, <1>t, CreateEffect
  <2> QED
    BY <1>t, <2>1 DEF TokensHaveSessions
<1>2. ASSUME NEW r \in Requests, NEW t \in Tokens, Rotate(r, t)
      PROVE  h \in DOMAIN token /\ session[token[h].session].revoked
  <2> DEFINE c == request[r].credential
  <2> HIDE DEF c
  <2>1. RotateRows(c, t)
    BY <1>2, <1>t, RotateEffect DEF c
  <2>2. ~session[token[c].session].revoked
    BY <2>1 DEF RotateRows, Over
  <2> QED
    BY <2>1, <2>2 DEF RotateRows
<1>3. ASSUME NEW r \in Requests, RejectReused(r) \/ Revoke(r),
             ~session[token[h].session].revoked
      PROVE  (LoggedOut(r) \/ Refused(r))' /\ SameLogin(h, request[r].credential)'
  <2> DEFINE c == request[r].credential
  <2>1. /\ DOMAIN session' = DOMAIN session /\ token' = token /\ issued' = issued
        /\ \A s \in DOMAIN session :
             session'[s].revoked => session[s].revoked \/ (Known(c) /\ s = token[c].session)
    BY <1>3, <1>t, RevokeEffect
  <2>2. Known(c) /\ token[h].session = token[c].session /\ h \in DOMAIN token
    BY <1>3, <2>1 DEF Known
  <2>3. SameLogin(h, c)
    BY <1>t, <2>2 DEF SameLogin, LoginIsSession, Recorded, Known
  <2>4. request'[r].kind = request[r].kind /\ request'[r].credential = c
        /\ (RejectReused(r) => request'[r].outcome = "unauthorized" /\ request[r].kind = "refresh")
        /\ (Revoke(r) => request'[r].outcome = "ok" /\ request[r].kind = "logout")
    <3>1. /\ RejectReused(r) => /\ request[r].kind = "refresh"
                               /\ Finish(r, "unauthorized", NoUser, NoCookie)
          /\ Revoke(r) => request[r].kind = "logout" /\ Finish(r, "ok", NoUser, NoCookie)
      BY DEF RejectReused, Revoke, Arrived
    <3>2. ASSUME NEW outcome \in {"ok", "unauthorized", "internal"},
                 Finish(r, outcome, NoUser, NoCookie)
          PROVE  request'[r].kind = request[r].kind /\ request'[r].credential = c
                 /\ request'[r].outcome = outcome
      <4>1. NoUser \in Users \cup {NoUser}
        OBVIOUS
      <4>2. request'[r] = [phase |-> "done", kind |-> request[r].kind,
                           browser |-> request[r].browser, user |-> NoUser,
                           credential |-> request[r].credential, outcome |-> outcome,
                           given |-> NoCookie]
        BY <1>t, <3>2, <4>1, NoCookieType, FinishType
      <4> QED
        BY <4>2
    <3> QED
      BY <1>3, <3>1, <3>2
  <2> QED
    BY <1>3, <2>1, <2>3, <2>4 DEF SameLogin, LoggedOut, Refused
<1>4. ASSUME Cleanup
      PROVE  h \in DOMAIN token /\ session[token[h].session].revoked
  <2>1. /\ \A s \in DOMAIN session' : session'[s] = session[s]
        /\ DOMAIN token' \subseteq DOMAIN token
        /\ \A k \in DOMAIN token' : token'[k] = token[k]
    BY <1>4, <1>t, CleanupEffect
  <2> QED
    BY <2>1 DEF Known
<1>5. ASSUME UNCHANGED <<session, token>>
      PROVE  h \in DOMAIN token /\ session[token[h].session].revoked
  BY <1>5
<1>6. ASSUME NEW r \in Requests, RejectReused(r) \/ Revoke(r)
      PROVE  h \in DOMAIN token
  BY <1>6, <1>t, RevokeEffect
<1> DEFINE P == \E r \in Requests :
                  (LoggedOut(r) \/ Refused(r))' /\ SameLogin(h, request[r].credential)'
<1>7. CASE \E r \in Requests : RejectReused(r) \/ Revoke(r)
  <2>1. PICK r \in Requests : RejectReused(r) \/ Revoke(r)
    BY <1>7
  <2>2. CASE session[token[h].session].revoked
    BY <1>0, <1>6, <2>1, <2>2
  <2>3. CASE ~session[token[h].session].revoked
    BY <1>3, <2>1, <2>3
  <2> QED
    BY <2>2, <2>3
<1> HIDE DEF P
<1>8. CASE h \in DOMAIN token /\ session[token[h].session].revoked
  BY <1>0, <1>8
<1> QED
  BY <1>1, <1>2, <1>4, <1>5, <1>7, <1>8
     DEF Next, Browse, Handle, Send, Receive, DropCookie, Reject, Fail, Answer, Tick, vars

\* Cookies only ever carry credentials of a login, with its deadline.
LEMMA CookiesStep == TypeOK /\ Tables /\ Cookies /\ [Next]_vars => Cookies'
<1> SUFFICES ASSUME TypeOK, Tables, Cookies, [Next]_vars PROVE Cookies'
  OBVIOUS
<1>t. Recorded /\ RowsOfLogin /\ RowsAge
  BY RowsOnlyAge DEF Tables
<1>n. \A cookie : cookie = NoCookie => CookieOfLogin(cookie)'
  BY NoCookieType DEF CookieOfLogin
<1>c. \A r \in Requests : CookieOfLogin(request[r].given)
  BY DEF Cookies
<1>1. ASSUME NEW q \in Requests
      PROVE  /\ CookieOfLogin(request[q].given)'
             /\ request'[q].credential # NoToken => request'[q].credential \in DOMAIN issued'
  <2>c. request'[q].credential = request[q].credential =>
          (request'[q].credential # NoToken => request'[q].credential \in DOMAIN issued')
    BY <1>t DEF Cookies, RowsAge
  <2>1. CASE Same(q) \/ Late(q)
    <3>1. request'[q].given = request[q].given /\ request'[q].credential = request[q].credential
      BY <2>1 DEF Same, Late
    <3> QED
      BY <1>t, <1>c, <2>c, <3>1 DEF CookieOfLogin, RowsAge
  <2>2. CASE Sent(q)
    <3>1. PICK b \in Browsers : request'[q].credential = jar[b].token
      BY <2>2 DEF Sent
    <3>2. request'[q].credential # NoToken => request'[q].credential \in DOMAIN issued'
      BY <1>t, <3>1 DEF Cookies, CookieOfLogin, RowsAge
    <3>3. request'[q].given = NoCookie
      BY <2>2 DEF Sent
    <3> QED
      BY <3>2, <3>3, NoCookieType DEF CookieOfLogin
  <2>3. CASE Created(q)
    <3>1. PICK h \in Tokens :
            /\ CreateSession(q, h)
            /\ request'[q].given = [token |-> h, expires |-> now + Lifetime]
            /\ request'[q].credential = request[q].credential
      BY <2>3 DEF Created, Ran
    <3>2. /\ DOMAIN issued' = DOMAIN issued \cup {h}
          /\ issued'[h] = [user |-> request[q].user, root |-> h, deadline |-> now + Lifetime]
      BY <1>t, <3>1, CreateEffect
    <3> QED
      BY <2>c, <3>1, <3>2 DEF CookieOfLogin
  <2>4. CASE Rotated(q)
    <3> DEFINE c == request[q].credential
    <3>1. PICK h \in Tokens :
            /\ Rotate(q, h)
            /\ request'[q].given = [token |-> h, expires |-> session[token[c].session].expires]
            /\ request'[q].credential = c
      BY <2>4 DEF Rotated, Ran
    <3>2. RotateRows(c, h)
      BY <1>t, <3>1, RotateEffect
    <3>3. h \in DOMAIN issued' /\ issued'[h].deadline = session[token[c].session].expires
      BY <1>t, <3>2 DEF RotateRows, RowsOfLogin
    <3> QED
      BY <2>c, <3>1, <3>3 DEF CookieOfLogin
  <2>5. CASE Ended(q) \/ Failed(q)
    <3>1. request'[q].given = NoCookie /\ request'[q].credential = request[q].credential
      BY <2>5 DEF Ended, Failed, Ran
    <3> QED
      BY <2>c, <3>1, NoCookieType DEF CookieOfLogin
  <2> QED
    BY <2>1, <2>2, <2>3, <2>4, <2>5, RequestSteps
<1>2. ASSUME NEW b \in Browsers
      PROVE  CookieOfLogin(jar[b])'
  <2>0. CookieOfLogin(jar[b])
    BY DEF Cookies
  <2>1. ASSUME NEW r \in Requests, Receive(r)
        PROVE  jar'[b] = jar[b] \/ jar'[b] = NoCookie \/ jar'[b] = request[r].given
    BY <2>1 DEF Receive, TypeOK
  <2>2. ASSUME NEW d \in Browsers, DropCookie(d)
        PROVE  jar'[b] = jar[b] \/ jar'[b] = NoCookie
    BY <2>2 DEF DropCookie, TypeOK
  <2>3. jar'[b] = jar[b] \/ jar'[b] = NoCookie \/ \E r \in Requests : jar'[b] = request[r].given
    BY <2>1, <2>2
       DEF Next, Browse, Handle, Send, CreateSession, Rotate, Reject, RejectReused, Revoke,
           Fail, Answer, Cleanup, Tick, vars
  <2> QED
    BY <1>t, <1>c, <2>0, <2>3, NoCookieType DEF CookieOfLogin, RowsAge
<1> QED
  BY <1>1, <1>2 DEF Cookies

-----------------------------------------------------------------------------
(* The theorems.                                                           *)

\* The invariant holds at the start ...
LEMMA InvariantInit == Init => IInv
<1> SUFFICES ASSUME Init PROVE IInv
  OBVIOUS
<1>1. TypeOK
  BY TypeInit
<1>2. DOMAIN session = {} /\ DOMAIN token = {} /\ DOMAIN issued = {}
  BY DEF Init
<1>3. Tables /\ RevokedForCause
  BY <1>2 DEF Tables, Recorded, TokensHaveSessions, RowsOfLogin, RootsIssued, LoginIsSession,
              LoginsWhole, OneCurrentToken, RevokedForCause
<1>4. \A r \in Requests :
        /\ request[r].kind = "none" /\ request[r].outcome = "none"
        /\ request[r].given = NoCookie /\ request[r].credential = NoToken
  BY DEF Init
<1>5. \A b \in Browsers : jar[b] = NoCookie
  BY DEF Init
<1>6. Cookies
  BY <1>4, <1>5, NoCookieType DEF Cookies, CookieOfLogin
<1>7. Outcomes /\ GrantedSpent /\ CredentialSpentOnce
  BY <1>4 DEF Outcomes, GrantedSpent, CredentialSpentOnce, Granted
<1>8. EndedIsOver
  BY <1>2 DEF EndedIsOver, Known
<1> QED
  BY <1>1, <1>3, <1>6, <1>7, <1>8 DEF IInv

\* ... and every step preserves it ...
LEMMA InvariantStep == IInv /\ [Next]_vars => IInv'
<1> SUFFICES ASSUME IInv, [Next]_vars PROVE IInv'
  OBVIOUS
<1>1. TypeOK' /\ Tables'
  BY TypeStep, TablesStep DEF IInv, Tables
<1>2. Cookies' /\ Outcomes'
  BY CookiesStep, OutcomesStep DEF IInv
<1>3. GrantedSpent' /\ CredentialSpentOnce'
  BY GrantedStep, SpentOnceStep DEF IInv
<1>4. EndedIsOver' /\ RevokedForCause'
  BY <1>1, EndedStep, CauseStep
<1> QED
  BY <1>1, <1>2, <1>3, <1>4 DEF IInv

\* ... so it holds always.
LEMMA Invariant == Spec => []IInv
BY InvariantInit, InvariantStep, PTL DEF Spec

\* Tables, requests and cookies always have the shape the code gives them.
THEOREM TypeCorrect == Spec => []TypeOK
<1>1. IInv => TypeOK
  BY DEF IInv
<1> QED
  BY <1>1, Invariant, PTL

\* A stored session always has exactly one credential that was not consumed.
THEOREM OneCurrent == Spec => []OneCurrentToken
<1>1. IInv => OneCurrentToken
  BY DEF IInv, Tables
<1> QED
  BY <1>1, Invariant, PTL

\* No credential is ever granted two refreshes.
THEOREM SpentOnce == Spec => []CredentialSpentOnce
<1>1. IInv => CredentialSpentOnce
  BY DEF IInv
<1> QED
  BY <1>1, Invariant, PTL

\* A refused credential's session is over for good.
THEOREM RefusalFinal == Spec => []RefusedMeansOver
<1>1. IInv => RefusedMeansOver
  BY DEF IInv, EndedIsOver, RefusedMeansOver
<1> QED
  BY <1>1, Invariant, PTL

\* A granted refresh is for the account the credential was issued to.
THEOREM KeepsUser == Spec => []CredentialKeepsUser
<1>1. IInv => CredentialKeepsUser
  BY DEF IInv, GrantedSpent, CredentialKeepsUser
<1> QED
  BY <1>1, Invariant, PTL

\* A session is revoked only by a logout or a refused refresh of its own login.
THEOREM ForCause == Spec => []RevokedForCause
<1>1. IInv => RevokedForCause
  BY DEF IInv
<1> QED
  BY <1>1, Invariant, PTL

\* Rotation never moves the deadline of a session or of a cookie.
THEOREM DeadlineFixed == Spec => []DeadlineNeverMoves
<1>1. IInv => DeadlineNeverMoves
  BY DEF IInv, Tables, RowsOfLogin, Cookies, CookieOfLogin, DeadlineNeverMoves
<1> QED
  BY <1>1, Invariant, PTL

\* Once a login was ended, no step grants a credential of it anything: only a
\* rotation grants, and it needs the session that they all share not to be over.
LEMMA EndedGrantsStep ==
  ASSUME IInv, [Next]_vars
  PROVE  \A r, q \in Requests :
           (LoggedOut(q) \/ Refused(q)) /\ ~Granted(r) /\ Granted(r)'
             => ~SameLogin(request[r].credential, request[q].credential)
<1>1. ASSUME NEW r \in Requests, NEW q \in Requests,
             LoggedOut(q) \/ Refused(q), ~Granted(r), Granted(r)',
             SameLogin(request[r].credential, request[q].credential)
      PROVE  FALSE
  <2> DEFINE c == request[r].credential
             k == request[q].credential
  <2>t. TypeOK /\ Recorded /\ TokensHaveSessions /\ LoginIsSession /\ LoginsWhole
    BY <1>1 DEF IInv, Tables
  <2>1. Rotated(r)
    BY <1>1, <2>t, OnlyRotationGrants
  <2>2. PICK h \in Tokens : RotateRows(c, h)
    BY <2>t, <2>1, RotateEffect DEF Rotated
  <2>3. c \in DOMAIN token /\ ~Over(c)
    BY <2>2 DEF RotateRows
  <2>4. k \in DOMAIN token /\ token[k].session = token[c].session
    BY <1>1, <2>t, <2>3 DEF SameLogin, LoginsWhole, LoginIsSession
  <2>5. Over(k)
    BY <1>1, <2>t, <2>4 DEF IInv, EndedIsOver, Known, TokensHaveSessions
  <2> QED
    BY <2>3, <2>4, <2>5 DEF Over
<1> QED
  BY <1>1

\* After a logout or a refused refresh, no credential of that login is granted
\* anything, whichever request is handled later.
THEOREM EndedGrantsNothing == Spec => EndedLoginGrantsNothing
<1>1. IInv /\ [Next]_vars =>
        [\A r, q \in Requests :
           (LoggedOut(q) \/ Refused(q)) /\ ~Granted(r) /\ Granted(r)'
             => ~SameLogin(request[r].credential, request[q].credential)]_vars
  BY EndedGrantsStep
<1> QED
  BY <1>1, Invariant, PTL DEF Spec, EndedLoginGrantsNothing
=============================================================================
