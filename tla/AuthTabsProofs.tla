---------------------------- MODULE AuthTabsProofs ----------------------------
(***************************************************************************)
(* Theorems about AuthTabs, for every number of tabs, requests and         *)
(* credentials.  They rest on the theorems of RefreshSessions: whatever    *)
(* the tabs do, the server and the cookie jar only take its steps.         *)
(***************************************************************************)
EXTENDS AuthTabs, RefreshSessionsProofs

-----------------------------------------------------------------------------
(* What a step of the tabs does to the server and the jar.                 *)

Sends(r, b, kind, user) ==
  /\ Send(r, b, kind, user)
  /\ kind \in {"login", "refresh", "logout"} /\ user \in Users \cup {NoUser}
  /\ kind = "login" <=> user \in Users
  /\ kind = "refresh" => flights = {} /\ ~stopKey

\* Only its coordinator makes a tab ask, and only unused requests are sent.
LEMMA AskEffect ==
  ASSUME NEW t \in Tabs, NEW r \in Requests, NEW b \in Browsers, Ask(t, r, b)
  PROVE  \E kind \in {"login", "refresh", "logout"}, user \in Users \cup {NoUser} :
           Sends(r, b, kind, user)
<1>1. CASE SendRefresh(t, r, b)
  <2>1. Sends(r, b, "refresh", NoUser)
    BY <1>1, SessionAssumption DEF SendRefresh, Allowed, Sends
  <2>. QED
    BY <2>1
<1>2. CASE SendLogout(t, r, b)
  <2>1. Sends(r, b, "logout", NoUser)
    BY <1>2, SessionAssumption DEF SendLogout, Sends
  <2>. QED
    BY <2>1
<1>3. ASSUME NEW user \in Users, SignIn(t, r, b, user)
      PROVE  Sends(r, b, "login", user)
  BY <1>3 DEF SignIn, Sends
<1>. QED
  BY <1>1, <1>2, <1>3 DEF Ask

LEMMA UnusedRequest ==
  ASSUME Unused # {} PROVE (CHOOSE r \in Unused : TRUE) \in Requests
<1>1. (CHOOSE r \in Unused : TRUE) \in Unused
  OBVIOUS
<1>. QED
  BY <1>1 DEF Unused

\* There are five kinds of steps.
LEMMA StepKinds ==
  ASSUME [TabsNext]_allVars
  PROVE  \/ UNCHANGED vars
         \/ \E r \in Requests, b \in Browsers, kind \in {"login", "refresh", "logout"},
               user \in Users \cup {NoUser} : Sends(r, b, kind, user)
         \/ \E r \in Requests : (Handle(r) \/ Receive(r)) /\ UNCHANGED tabVars
         \/ TimePasses
<1>1. ASSUME NEW t \in Tabs, PageStep(t) \/ CoordinatorStep(t) PROVE UNCHANGED vars
  BY <1>1 DEF PageStep, Load, Unload, Hear, LogIn, CoordinatorStep, FindStopKey, Refresh, LogOut,
              CancelRefresh, TakeToken, DropAnswer, HearRefusal, RefreshFails, LogoutEnds, ApiRefuses
<1>2. ASSUME NEW t \in Tabs, NEW b \in Browsers, Unused # {},
             Ask(t, CHOOSE r \in Unused : TRUE, b)
      PROVE  \E r \in Requests, kind \in {"login", "refresh", "logout"},
                user \in Users \cup {NoUser} : Sends(r, b, kind, user)
  BY <1>2, UnusedRequest, AskEffect
<1>3. CASE Server
  BY <1>3 DEF Server
<1>4. CASE UNCHANGED allVars
  BY <1>4 DEF allVars
<1>. QED
  BY <1>1, <1>2, <1>3, <1>4 DEF TabsNext

\* All of them are steps of RefreshSessions.
LEMMA SessionSteps == ASSUME [TabsNext]_allVars PROVE [Next]_vars
<1>1. ASSUME NEW r \in Requests, NEW b \in Browsers, NEW kind \in {"login", "refresh", "logout"},
             NEW user \in Users \cup {NoUser}, Sends(r, b, kind, user)
      PROVE  Next
  BY <1>1, SessionAssumption DEF Sends, Next, Browse
<1>2. ASSUME NEW r \in Requests, Handle(r) \/ Receive(r) PROVE Next
  BY <1>2 DEF Next
<1>3. CASE TimePasses
  BY <1>3 DEF TimePasses, Next, Browse
<1>. QED
  BY <1>1, <1>2, <1>3, StepKinds

\* A browser that was signed in before is in a state the server may be in.
LEMMA SignedInIsSound ==
  ASSUME NEW b \in Browsers, NEW user \in Users, NEW h \in Tokens, SignedInBefore(b, user, h)
  PROVE  IInv
<1>1. /\ DOMAIN session = {1} /\ session[1] = [user |-> user, expires |-> Lifetime, revoked |-> FALSE]
      /\ DOMAIN token = {h} /\ token[h] = [session |-> 1, consumed |-> FALSE]
      /\ DOMAIN issued = {h} /\ issued[h] = [user |-> user, root |-> h, deadline |-> Lifetime]
      /\ \A c \in Browsers : jar[c] = [token |-> h, expires |-> Lifetime]
      /\ now = 0
      /\ \A r \in Requests :
           request[r] = [phase |-> "unused", kind |-> "none", browser |-> b, user |-> NoUser,
                         credential |-> NoToken, outcome |-> "none", given |-> NoCookie]
  BY DEF SignedInBefore
<1>2. TypeOK
  <2>1. Table(session, SessionIds, SessionRow)
    BY TabsAssumption, SessionAssumption DEF SignedInBefore, Table, SessionRow
  <2>2. Table(token, Tokens, TokenRow) /\ Table(issued, Tokens, Login)
    BY TabsAssumption, SessionAssumption DEF SignedInBefore, Table, TokenRow, Login
  <2>3. jar \in [Browsers -> Cookie]
    BY SessionAssumption DEF SignedInBefore, Cookie
  <2>4. request \in [Requests -> Request]
    BY NoCookieType DEF SignedInBefore, Request
  <2>. QED
    BY <1>1, <2>1, <2>2, <2>3, <2>4, SessionAssumption DEF TypeOK
<1>3. Tables
  <2>1. OneCurrentToken
    <3>1. {k \in DOMAIN token : token[k].session = 1 /\ ~token[k].consumed} = {h}
      BY <1>1
    <3>. QED
      BY <1>1, <3>1 DEF OneCurrentToken
  <2>. QED
    BY <1>1, <2>1 DEF Tables, Recorded, TokensHaveSessions, RowsOfLogin, RootsIssued,
                      LoginIsSession, LoginsWhole
<1>4. Cookies
  BY <1>1, NoCookieType DEF Cookies, CookieOfLogin
<1>5. \A r \in Requests : ~Granted(r) /\ ~LoggedOut(r) /\ ~Refused(r)
  BY <1>1 DEF Granted, LoggedOut, Refused
<1>6. Outcomes /\ GrantedSpent /\ CredentialSpentOnce /\ EndedIsOver
  BY <1>1, <1>5 DEF Outcomes, GrantedSpent, CredentialSpentOnce, EndedIsOver
<1>7. RevokedForCause
  BY <1>1 DEF RevokedForCause
<1>. QED
  BY <1>2, <1>3, <1>4, <1>6, <1>7 DEF IInv

-----------------------------------------------------------------------------
(* Tabs.                                                                   *)

Flight == [request: Requests, tab: Tabs, call: {"refresh", "logout"}]

\* Tab t turns into x, and comes by a token only while nobody has stopped.
Turns(t, x) ==
  /\ tab' = [tab EXCEPT ![t] = x]
  /\ x \in Page
  /\ x.access => tab[t].access \/ ~stopKey

LEMMA AwayPage ==
  /\ Away \in Page /\ ~Away.access
  /\ \A page \in {"open", "leaving"} :
       [Away EXCEPT !.page = page] \in Page /\ ~[Away EXCEPT !.page = page].access
BY DEF Away, Page

LEMMA StopPage ==
  ASSUME NEW x \in Page PROVE Stop(x) \in Page /\ ~Stop(x).access /\ Stop(x).wants = x.wants
BY DEF Stop, Page

LEMMA WantsPage ==
  ASSUME NEW x \in Page, NEW w \in SUBSET {"refresh", "logout"}
  PROVE  [x EXCEPT !.wants = w] \in Page /\ [x EXCEPT !.wants = w].access = x.access
BY DEF Page

LEMMA TabStep ==
  ASSUME TabsTypeOK, [TabsNext]_allVars
  PROVE  UNCHANGED tab \/ \E t \in Tabs : \E x \in Page : Turns(t, x)
<1>. DEFINE Turned(t) == \E x \in Page : Turns(t, x)
<1>t. \A t \in Tabs : tab[t] \in Page /\ tab[t].wants \in SUBSET {"refresh", "logout"}
  BY DEF TabsTypeOK, Page
<1>1. ASSUME NEW t \in Tabs, PageStep(t) PROVE Turned(t)
  BY <1>1, <1>t, AwayPage, StopPage DEF PageStep, Load, Unload, Hear, LogIn, Turns
<1>2. ASSUME NEW t \in Tabs, NEW x \in Page, NEW call, Settle(t, call, x),
             x.wants \in SUBSET {"refresh", "logout"},
             x.access => tab[t].access \/ ~stopKey
      PROVE  Turned(t)
  <2>. DEFINE y == [x EXCEPT !.wants = @ \ {call}]
  <2>1. y \in Page /\ y.access = x.access
    BY <1>2, WantsPage DEF Page
  <2>2. tab' = [tab EXCEPT ![t] = y]
    BY <1>2 DEF Settle
  <2>. QED
    BY <1>2, <2>1, <2>2 DEF Turns
<1>3. ASSUME NEW t \in Tabs, TakeToken(t) \/ DropAnswer(t) \/ HearRefusal(t) \/ RefreshFails(t)
                             \/ LogoutEnds(t)
      PROVE  Turned(t)
  <2>1. [tab[t] EXCEPT !.access = TRUE] \in Page
        /\ [tab[t] EXCEPT !.access = TRUE].wants = tab[t].wants
    BY <1>t DEF Page
  <2>2. CASE TakeToken(t)
    BY <1>2, <1>t, <2>1, <2>2 DEF TakeToken, Allowed
  <2>3. CASE DropAnswer(t) \/ HearRefusal(t) \/ RefreshFails(t)
    BY <1>2, <1>t, <2>3, StopPage DEF DropAnswer, HearRefusal, RefreshFails
  <2>4. CASE LogoutEnds(t)
    BY <1>2, <1>t, <2>4 DEF LogoutEnds
  <2>. QED
    BY <1>3, <2>2, <2>3, <2>4
<1>4. ASSUME NEW t \in Tabs, NEW x \in Page, NEW w \in SUBSET {"refresh", "logout"},
             tab' = [tab EXCEPT ![t] = [x EXCEPT !.wants = w]],
             x.access => tab[t].access
      PROVE  Turned(t)
  BY <1>4, WantsPage DEF Turns
<1>5. ASSUME NEW t \in Tabs, FindStopKey(t) \/ ApiRefuses(t) PROVE Turned(t)
  BY <1>5, <1>t, StopPage DEF FindStopKey, ApiRefuses, Turns
<1>6. ASSUME NEW t \in Tabs, Refresh(t) PROVE Turned(t)
  <2>1. tab' = [tab EXCEPT ![t] = [tab[t] EXCEPT !.wants = tab[t].wants \cup {"refresh"}]]
    BY <1>6, <1>t DEF Refresh
  <2>. QED
    BY <1>4, <1>t, <2>1
<1>7. ASSUME NEW t \in Tabs, LogOut(t) \/ CancelRefresh(t) PROVE Turned(t)
  <2>. DEFINE s == Stop(tab[t])
  <2>1. s \in Page /\ ~s.access /\ s.wants = tab[t].wants
    BY <1>t, StopPage
  <2>2. \/ tab' = [tab EXCEPT ![t] = [s EXCEPT !.wants = s.wants \cup {"logout"}]]
        \/ tab' = [tab EXCEPT ![t] = [s EXCEPT !.wants = s.wants \ {"refresh"}]]
    BY <1>7, <1>t, <2>1 DEF LogOut, CancelRefresh
  <2>. HIDE DEF s
  <2>3. s.wants \cup {"logout"} \in SUBSET {"refresh", "logout"}
        /\ s.wants \ {"refresh"} \in SUBSET {"refresh", "logout"}
    BY <1>t, <2>1
  <2>. QED
    BY <1>4, <2>1, <2>2, <2>3
<1>8. ASSUME NEW t \in Tabs, NEW r \in Requests, NEW b, Ask(t, r, b) PROVE UNCHANGED tab \/ Turned(t)
  <2>1. ASSUME NEW user, SignIn(t, r, b, user) PROVE Turned(t)
    <3>1. [tab[t] EXCEPT !.visit = r] \in Page
          /\ [tab[t] EXCEPT !.visit = r].access = tab[t].access
      BY <1>t, <2>1 DEF Page
    <3>2. tab' = [tab EXCEPT ![t] = [tab[t] EXCEPT !.visit = r]]
      BY <1>t, <2>1 DEF SignIn
    <3>. QED
      BY <3>1, <3>2 DEF Turns
  <2>. QED
    BY <1>8, <2>1 DEF Ask, SendRefresh, SendLogout
<1>. QED
  BY <1>1, <1>3, <1>5, <1>6, <1>7, <1>8, UnusedRequest
     DEF TabsNext, CoordinatorStep, Server, TimePasses, tabVars, allVars
-----------------------------------------------------------------------------
(* The lock.                                                               *)

Busy(q) == request[q].kind = "refresh" /\ request[q].phase # "closed"

\* One call at a time holds the lock, and a refresh that is under way without
\* it was excused, or has stopped every tab.
LockInv ==
  /\ \A q \in Requests : request[q].phase = "unused" => request[q].kind = "none"
  /\ \A f \in flights : request[f.request].kind = f.call
  /\ \A f, g \in flights : f = g
  /\ \A q \in excused : request[q].kind = "refresh"
  /\ \A q \in Requests : Busy(q) =>
       q \in excused \/ stopKey \/ \E f \in flights : f.request = q

\* A step of the tabs alone may give up a lock whose request is over or
\* excused or not a refresh, or after telling everybody to stop, and lets
\* tabs start again only with every refresh excused.
LetsGo ==
  /\ UNCHANGED vars
  /\ flights' \subseteq flights
  /\ excused \subseteq excused' /\ \A q \in excused' \ excused : q \in Requests /\ Busy(q)
  /\ \A f \in flights \ flights' : Busy(f.request) => f.request \in excused' \/ stopKey'
  /\ stopKey => stopKey' \/ \A q \in Requests : Busy(q) => q \in excused'
  /\ stopKey' \in BOOLEAN /\ notices' \subseteq Tabs

LEMMA BusyUnderway == \A rs : \A q \in Underway(rs) : q \in rs /\ Busy(q)
BY DEF Underway, Busy

LEMMA PageLetsGo ==
  ASSUME TabsTypeOK, LockInv, NEW t \in Tabs, PageStep(t) PROVE LetsGo
<1>1. CASE Load(t) \/ Hear(t)
  BY <1>1 DEF Load, Hear, LetsGo, TabsTypeOK
<1>2. CASE Unload(t)
  <2>1. /\ UNCHANGED <<vars, stopKey>> /\ flights' = {f \in flights : f.tab # t}
        /\ notices' = notices \ {t}
        /\ excused' = excused \cup Underway({f.request : f \in flights \ flights'})
    BY <1>2 DEF Unload, Release
  <2>2. \A f \in flights \ flights' : Busy(f.request) => f.request \in excused'
    BY <2>1 DEF Underway, Busy
  <2>3. \A q \in excused' \ excused : q \in Requests /\ Busy(q)
    BY <2>1, BusyUnderway DEF TabsTypeOK
  <2>. QED
    BY <2>1, <2>2, <2>3 DEF LetsGo, TabsTypeOK
<1>3. CASE LogIn(t)
  <2>1. /\ UNCHANGED vars /\ ~stopKey' /\ stopKey' \in BOOLEAN
        /\ flights' = {f \in flights : f.tab # t}
        /\ notices' = notices \ {t}
        /\ excused' = excused \cup Underway(Requests)
    BY <1>3 DEF LogIn, Release
  <2>2. \A q \in Requests : Busy(q) => q \in excused'
    BY <2>1 DEF Underway, Busy
  <2>3. \A f \in flights : f.request \in Requests
    BY DEF TabsTypeOK
  <2>4. \A q \in excused' \ excused : q \in Requests /\ Busy(q)
    BY <2>1, BusyUnderway
  <2>. QED
    BY <2>1, <2>2, <2>3, <2>4 DEF LetsGo, TabsTypeOK
<1>. QED
  BY <1>1, <1>2, <1>3 DEF PageStep

LEMMA CoordinatorLetsGo ==
  ASSUME TabsTypeOK, LockInv, NEW t \in Tabs, CoordinatorStep(t) PROVE LetsGo
<1>p. Publish(t) => stopKey' /\ stopKey' \in BOOLEAN /\ notices' \subseteq Tabs
  BY DEF Publish, TabsTypeOK
<1>k. stopKey \in BOOLEAN /\ notices \subseteq Tabs
  BY DEF TabsTypeOK
<1>u. \A call : Under(t, call) \subseteq flights
  BY DEF Under
<1>1. CASE FindStopKey(t) \/ Refresh(t) \/ CancelRefresh(t)
  BY <1>1, <1>k DEF FindStopKey, Refresh, CancelRefresh, LetsGo
<1>2. CASE LogOut(t) \/ ApiRefuses(t)
  BY <1>2, <1>p DEF LogOut, ApiRefuses, LetsGo
<1>3. CASE TakeToken(t) \/ DropAnswer(t)
  <2>1. /\ UNCHANGED <<vars, stopKey, notices, excused>>
        /\ flights' = flights \ Under(t, "refresh")
        /\ \E f \in Under(t, "refresh") : request[f.request].phase = "closed"
    BY <1>3 DEF TakeToken, DropAnswer, Settle, Answered
  <2>2. \A f \in flights \ flights' : ~Busy(f.request)
    BY <1>u, <2>1 DEF LockInv, Busy
  <2>. QED
    BY <1>k, <2>1, <2>2 DEF LetsGo
<1>4. CASE HearRefusal(t)
  <2>1. UNCHANGED <<vars, excused>> /\ flights' \subseteq flights /\ Publish(t)
    BY <1>4 DEF HearRefusal, Settle
  <2>. QED
    BY <1>p, <2>1 DEF LetsGo
<1>5. CASE RefreshFails(t) /\ ~tab[t].stopped
  <2>1. UNCHANGED <<vars, excused>> /\ flights' \subseteq flights /\ Publish(t)
    BY <1>5 DEF RefreshFails, Settle
  <2>. QED
    BY <1>p, <2>1 DEF LetsGo
<1>6. CASE RefreshFails(t) /\ tab[t].stopped
  <2>1. /\ UNCHANGED <<vars, stopKey, notices>> /\ flights' = flights \ Under(t, "refresh")
        /\ excused' = excused \cup Underway({f.request : f \in Under(t, "refresh")})
    BY <1>6 DEF RefreshFails, Settle
  <2>2. \A f \in flights \ flights' : Busy(f.request) => f.request \in excused'
    BY <2>1 DEF Underway, Busy
  <2>3. \A q \in excused' \ excused : q \in Requests /\ Busy(q)
    BY <1>u, <2>1, BusyUnderway DEF TabsTypeOK
  <2>. QED
    BY <1>k, <2>1, <2>2, <2>3 DEF LetsGo
<1>7. CASE LogoutEnds(t)
  <2>1. UNCHANGED <<vars, stopKey, notices, excused>> /\ flights' = flights \ Under(t, "logout")
    BY <1>7 DEF LogoutEnds, Settle
  <2>2. \A f \in flights \ flights' : ~Busy(f.request)
    BY <2>1 DEF Under, LockInv, Busy
  <2>. QED
    BY <1>k, <2>1, <2>2 DEF LetsGo
<1>. QED
  BY <1>1, <1>2, <1>3, <1>4, <1>5, <1>6, <1>7 DEF CoordinatorStep

LEMMA LetsGoLock == ASSUME LockInv, LetsGo PROVE LockInv'
<1>1. request' = request
  BY DEF LetsGo, vars
<1>2. ASSUME NEW q \in Requests, Busy(q)
      PROVE  q \in excused' \/ stopKey' \/ \E f \in flights' : f.request = q
  <2>1. CASE q \in excused \/ stopKey
    BY <1>2, <2>1 DEF LetsGo
  <2>2. CASE \E f \in flights : f.request = q
    BY <1>2, <2>2 DEF LetsGo
  <2>. QED
    BY <1>2, <2>1, <2>2 DEF LockInv
<1>3. \A q \in excused' : request[q].kind = "refresh"
  BY DEF LetsGo, LockInv, Busy
<1>4. \A f \in flights' : f \in flights
  BY DEF LetsGo
<1>. QED
  BY <1>1, <1>2, <1>3, <1>4 DEF LockInv, Busy

\* A call takes the lock and one request that was not used before.
LEMMA AskLock ==
  ASSUME TypeOK, TabsTypeOK, LockInv, NEW t \in Tabs, NEW r \in Requests, NEW b \in Browsers,
         Ask(t, r, b)
  PROVE  /\ LockInv'
         /\ flights' \subseteq flights \cup Flight
         /\ UNCHANGED <<stopKey, notices, excused>>
<1>1. PICK kind \in {"login", "refresh", "logout"}, user \in Users \cup {NoUser} :
        Sends(r, b, kind, user)
  BY AskEffect
<1>2. /\ request[r].phase = "unused" /\ request[r].kind = "none"
      /\ \A q \in Requests \ {r} : request'[q] = request[q]
      /\ request'[r].phase = "sent" /\ request'[r].kind = kind
  BY <1>1 DEF Sends, Send, TypeOK, LockInv
<1>3. \/ flights' = flights /\ kind = "login"
      \/ flights = {} /\ flights' = {[request |-> r, tab |-> t, call |-> kind]}
         /\ kind \in {"refresh", "logout"}
  <2>1. CASE SendRefresh(t, r, b)
    <3>1. /\ flights = {} /\ flights' = {[request |-> r, tab |-> t, call |-> "refresh"]}
          /\ request'[r].kind = "refresh"
      BY <2>1 DEF SendRefresh, Acquire, Send, TypeOK
    <3>. QED
      BY <1>2, <3>1
  <2>2. CASE SendLogout(t, r, b)
    <3>1. /\ flights = {} /\ flights' = {[request |-> r, tab |-> t, call |-> "logout"]}
          /\ request'[r].kind = "logout"
      BY <2>2 DEF SendLogout, Acquire, Send, TypeOK
    <3>. QED
      BY <1>2, <3>1
  <2>3. CASE \E x \in Users : SignIn(t, r, b, x)
    <3>1. flights' = flights /\ request'[r].kind = "login"
      BY <2>3 DEF SignIn, Send, TypeOK
    <3>. QED
      BY <1>2, <3>1
  <2>. QED
    BY <2>1, <2>2, <2>3 DEF Ask
<1>4. UNCHANGED <<stopKey, notices, excused>>
  BY DEF Ask, SendRefresh, SendLogout, SignIn
<1>5. flights' \subseteq flights \cup Flight
  BY <1>3 DEF Flight
<1>6. \A f \in flights : f.request \in Requests \ {r}
  BY <1>2 DEF TabsTypeOK, LockInv
<1>7. excused \subseteq Requests \ {r}
  BY <1>2 DEF TabsTypeOK, LockInv
<1>8. LockInv'
  <2>1. \A f \in flights' : request'[f.request].kind = f.call
    BY <1>2, <1>3, <1>6 DEF LockInv
  <2>2. \A f, g \in flights' : f = g
    BY <1>3 DEF LockInv
  <2>3. \A q \in excused' : request'[q].kind = "refresh"
    BY <1>2, <1>4, <1>7 DEF LockInv
  <2>4. ASSUME NEW q \in Requests, Busy(q)'
        PROVE  q \in excused \/ stopKey \/ \E f \in flights' : f.request = q
    <3>1. CASE q = r
      <4>1. kind = "refresh"
        BY <1>2, <2>4, <3>1 DEF Busy
      <4>2. [request |-> r, tab |-> t, call |-> kind] \in flights'
        BY <1>3, <4>1
      <4>. QED
        BY <3>1, <4>2
    <3>2. CASE q # r
      <4>1. Busy(q)
        BY <1>2, <2>4, <3>2 DEF Busy
      <4>2. q \in excused \/ stopKey \/ \E f \in flights : f.request = q
        BY <4>1 DEF LockInv
      <4>. QED
        BY <1>3, <4>2
    <3>. QED
      BY <3>1, <3>2
  <2>. QED
    BY <1>2, <1>4, <2>1, <2>2, <2>3, <2>4 DEF LockInv
<1>. QED
  BY <1>4, <1>5, <1>8
-----------------------------------------------------------------------------
(* What the server does to a request and its credential.                   *)

\* The request gets further; only its transaction may give a credential, and
\* it is one that nobody has seen.
Handled(r) ==
  /\ \A q \in Requests \ {r} : request'[q] = request[q]
  /\ request'[r].kind = request[r].kind /\ request'[r].credential = request[r].credential
  /\ jar' = jar
  /\ \/ /\ request[r].phase = "sent" /\ request'[r].phase = "done"
        /\ \/ request'[r].given = NoCookie
           \/ /\ request'[r].given.token \in Tokens \ DOMAIN issued
              /\ request'[r].given.token \in DOMAIN issued'
              /\ request'[r].given # NoCookie /\ request'[r].outcome = "ok"
     \/ /\ request[r].phase = "done" /\ request'[r].phase = "answered"
        /\ request'[r].given = request[r].given
        /\ request'[r].outcome \in {request[r].outcome, "unauthorized"}

LEMMA FinishHandled ==
  ASSUME TypeOK, NEW r \in Requests, request[r].phase = "sent", UNCHANGED jar,
         NEW outcome \in {"ok", "unauthorized", "internal"},
         NEW user \in Users \cup {NoUser}, NEW given \in Cookie,
         Finish(r, outcome, user, given),
         \/ given = NoCookie
         \/ /\ given.token \in Tokens \ DOMAIN issued /\ given.token \in DOMAIN issued'
            /\ outcome = "ok"
  PROVE  Handled(r) /\ request'[r].given = given /\ request'[r].outcome = outcome
<1>1. /\ \A q \in Requests \ {r} : request'[q] = request[q]
      /\ request'[r] = [phase |-> "done", kind |-> request[r].kind,
                        browser |-> request[r].browser, user |-> user,
                        credential |-> request[r].credential, outcome |-> outcome,
                        given |-> given]
  BY FinishType
<1>2. given.token \in Tokens => given # NoCookie
  BY NoCookieType, SessionAssumption
<1>. QED
  BY <1>1, <1>2 DEF Handled

LEMMA HandleRequest ==
  ASSUME TypeOK, Tables, NEW r \in Requests, Handle(r) PROVE Handled(r)
<1>n. NoUser \in Users \cup {NoUser} /\ NoCookie \in Cookie
  BY NoCookieType
<1>1. ASSUME NEW h \in Tokens, CreateSession(r, h) PROVE Handled(r)
  <2>. DEFINE given == [token |-> h, expires |-> now + Lifetime]
  <2>1. request[r].phase = "sent" /\ request[r].user \in Users
    BY <1>1 DEF CreateSession, Arrived, TypeOK
  <2>2. given \in Cookie /\ given.token = h
    BY SessionAssumption DEF TypeOK, Cookie
  <2>3. h \in Tokens \ DOMAIN issued /\ h \in DOMAIN issued'
    BY <1>1 DEF CreateSession, Fresh, Put
  <2>4. Finish(r, "ok", request[r].user, given) /\ UNCHANGED jar
    BY <1>1 DEF CreateSession
  <2>. HIDE DEF given
  <2>. QED
    BY <2>1, <2>2, <2>3, <2>4, FinishHandled
<1>2. ASSUME NEW h \in Tokens, Rotate(r, h) PROVE Handled(r)
  <2>. DEFINE c == request[r].credential
              row == session[token[c].session]
              given == [token |-> h, expires |-> row.expires]
  <2>1. request[r].phase = "sent" /\ Known(c)
    BY <1>2 DEF Rotate, Arrived
  <2>2. row \in SessionRow
    BY <2>1 DEF Known, TypeOK, Table
  <2>3. given \in Cookie /\ given.token = h /\ row.user \in Users \cup {NoUser}
    BY <2>2 DEF SessionRow, Cookie
  <2>4. h \in Tokens \ DOMAIN issued /\ h \in DOMAIN issued'
    BY <1>2 DEF Rotate, Fresh, Put
  <2>5. Finish(r, "ok", row.user, given) /\ UNCHANGED jar
    BY <1>2 DEF Rotate
  <2>. HIDE DEF given, row
  <2>. QED
    BY <2>1, <2>3, <2>4, <2>5, FinishHandled
<1>3. CASE Reject(r) \/ RejectReused(r)
  <2>1. request[r].phase = "sent" /\ Finish(r, "unauthorized", NoUser, NoCookie) /\ UNCHANGED jar
    BY <1>3 DEF Reject, RejectReused, Arrived
  <2>. QED
    BY <1>n, <2>1, FinishHandled
<1>4. CASE Revoke(r)
  <2>1. request[r].phase = "sent" /\ Finish(r, "ok", NoUser, NoCookie) /\ UNCHANGED jar
    BY <1>4 DEF Revoke, Arrived
  <2>. QED
    BY <1>n, <2>1, FinishHandled
<1>5. CASE Fail(r)
  <2>1. request[r].phase = "sent" /\ Finish(r, "internal", NoUser, NoCookie) /\ UNCHANGED jar
    BY <1>5 DEF Fail
  <2>. QED
    BY <1>n, <2>1, FinishHandled
<1>6. CASE Answer(r)
  <2>1. request[r] \in Request /\ request \in [Requests -> Request]
    BY DEF TypeOK
  <2>2. PICK outcome \in {"none", "ok", "unauthorized", "internal"} :
          /\ request' = [request EXCEPT ![r] =
                           [request[r] EXCEPT !.phase = "answered", !.outcome = outcome]]
          /\ outcome # request[r].outcome => outcome = "unauthorized"
          /\ request[r].phase = "done"
    BY <1>6, AnswerEffect
  <2>3. request'[r] = [request[r] EXCEPT !.phase = "answered", !.outcome = outcome]
        /\ \A q \in Requests \ {r} : request'[q] = request[q]
    BY <2>1, <2>2
  <2>4. UNCHANGED jar
    BY <1>6 DEF Answer
  <2>. QED
    BY <2>1, <2>2, <2>3, <2>4 DEF Handled, Request
<1>. QED
  BY <1>1, <1>2, <1>3, <1>4, <1>5, <1>6 DEF Handle

\* An answer that arrives closes its request and may change the cookie.
Received(r) ==
  /\ \A q \in Requests \ {r} : request'[q] = request[q]
  /\ request[r].phase = "answered" /\ request'[r].phase = "closed"
  /\ request'[r].kind = request[r].kind /\ request'[r].credential = request[r].credential
  /\ request'[r].given = request[r].given /\ request'[r].outcome = request[r].outcome
  /\ UNCHANGED <<session, token, issued>>
  /\ \A b \in Browsers :
       \/ jar'[b] = request[r].given
          /\ request[r].outcome = "ok" /\ request[r].kind # "logout"
       \/ jar'[b] = NoCookie
       \/ jar'[b] = jar[b]
          /\ ~(request[r].outcome = "ok" /\ request[r].kind # "logout")
          /\ request[r].outcome # "unauthorized"

\* One browser has the one jar.
LEMMA ReceiveRequest ==
  ASSUME TypeOK, NEW r \in Requests, Receive(r) PROVE Received(r)
<1>1. request \in [Requests -> Request] /\ request[r] \in Request /\ jar \in [Browsers -> Cookie]
  BY DEF TypeOK
<1>2. \A b \in Browsers : b = request[r].browser
  BY <1>1, TabsAssumption DEF Request
<1>3. request' = [request EXCEPT ![r].phase = "closed"]
  BY DEF Receive
<1>4. /\ \A q \in Requests \ {r} : request'[q] = request[q]
      /\ request'[r] = [request[r] EXCEPT !.phase = "closed"]
  BY <1>1, <1>3
<1>5. \A b \in Browsers :
        \/ jar'[b] = request[r].given
           /\ request[r].outcome = "ok" /\ request[r].kind # "logout"
        \/ jar'[b] = NoCookie
        \/ jar'[b] = jar[b]
           /\ ~(request[r].outcome = "ok" /\ request[r].kind # "logout")
           /\ request[r].outcome # "unauthorized"
  BY <1>1, <1>2 DEF Receive
<1>. QED
  BY <1>1, <1>4, <1>5 DEF Received, Receive, Request

LEMMA ServerLock ==
  ASSUME TabsTypeOK, LockInv, NEW r \in Requests, Handled(r) \/ Received(r), UNCHANGED tabVars
  PROVE  LockInv'
<1>1. /\ \A q \in Requests : request'[q].kind = request[q].kind
      /\ \A q \in Requests : request'[q].phase = "unused" => request[q].phase = "unused"
      /\ \A q \in Requests : Busy(q)' => Busy(q)
  BY DEF Handled, Received, Busy
<1>2. /\ \A f \in flights : f.request \in Requests
      /\ excused \subseteq Requests /\ UNCHANGED <<flights, stopKey, excused>>
  BY DEF TabsTypeOK, tabVars
<1>. QED
  BY <1>1, <1>2 DEF LockInv
-----------------------------------------------------------------------------
(* Credentials on their way.                                               *)

\* A credential is given by one request, and nobody has it before that request
\* is closed; a refresh that was granted has replaced the cookie it was sent
\* with, once it is closed.
Wire ==
  /\ \A q \in Requests :
       request[q].given # NoCookie => request[q].outcome \in {"ok", "unauthorized"}
  /\ \A q, r \in Requests :
       request[q].given.token = request[r].given.token /\ request[q].given.token # NoToken => q = r
  /\ \A q, r \in Requests :
       request[q].given.token = request[r].credential /\ request[r].credential # NoToken
         => request[q].phase = "closed"
  /\ \A q \in Requests, b \in Browsers :
       request[q].given.token = jar[b].token /\ jar[b].token # NoToken
         => request[q].phase = "closed"
  /\ \A q \in Requests, b \in Browsers :
       Granted(q) /\ request[q].credential = jar[b].token => request[q].phase # "closed"

LEMMA WireTypes ==
  ASSUME TypeOK, Cookies, Outcomes
  PROVE  /\ \A q \in Requests :
              /\ request[q].given.token # NoToken => request[q].given.token \in DOMAIN issued
              /\ request[q].credential # NoToken => request[q].credential \in DOMAIN issued
              /\ request[q].phase \in {"unused", "sent"} =>
                   request[q].given = NoCookie /\ request[q].given.token = NoToken
         /\ \A b \in Browsers : jar[b].token # NoToken => jar[b].token \in DOMAIN issued
         /\ NoToken \notin DOMAIN issued /\ NoCookie.token = NoToken
BY NoCookieType, SessionAssumption DEF Cookies, CookieOfLogin, Outcomes, TypeOK, Table

LEMMA WireSend ==
  ASSUME IInv, Wire, NEW r \in Requests, NEW b \in Browsers, NEW kind, NEW user,
         Send(r, b, kind, user)
  PROVE  Wire'
<1>1. TypeOK /\ Cookies /\ Outcomes
  BY DEF IInv
<1>2. /\ \A q \in Requests \ {r} : request'[q] = request[q]
      /\ request'[r].phase = "sent" /\ request'[r].credential = jar[b].token
      /\ request'[r].given = NoCookie
      /\ jar' = jar
  BY <1>1 DEF Send, TypeOK
<1>3. request[r].given = NoCookie /\ NoCookie.token = NoToken
  BY <1>1, WireTypes DEF Send
<1>4. \A q \in Requests : request'[q].given = request[q].given
  BY <1>2, <1>3
<1>5. \A q \in Requests : Granted(q)' => q # r /\ Granted(q)
  BY <1>2 DEF Granted
<1>6. \A q \in Requests : request'[q].given # NoCookie =>
        request'[q].outcome \in {"ok", "unauthorized"}
  BY <1>2 DEF Wire
<1>7. \A q, x \in Requests :
       request'[q].given.token = request'[x].given.token /\ request'[q].given.token # NoToken => q = x
  BY <1>4 DEF Wire
<1>8. \A q, x \in Requests :
       request'[q].given.token = request'[x].credential /\ request'[x].credential # NoToken
         => request'[q].phase = "closed"
  <2>. SUFFICES ASSUME NEW q \in Requests, NEW x \in Requests,
                       request'[q].given.token = request'[x].credential,
                       request'[x].credential # NoToken
                PROVE  request'[q].phase = "closed"
    OBVIOUS
  <2>1. q # r
    BY <1>2, <1>3
  <2>. QED
    BY <1>2, <2>1 DEF Wire
<1>9. \A q \in Requests, c \in Browsers :
       request'[q].given.token = jar'[c].token /\ jar'[c].token # NoToken
         => request'[q].phase = "closed"
  BY <1>2, <1>3 DEF Wire
<1>10. \A q \in Requests, c \in Browsers :
       Granted(q)' /\ request'[q].credential = jar'[c].token => request'[q].phase # "closed"
  BY <1>2, <1>5 DEF Wire
<1>. QED
  BY <1>6, <1>7, <1>8, <1>9, <1>10 DEF Wire

LEMMA WireHandle ==
  ASSUME IInv, Wire, NEW r \in Requests, Handled(r)
  PROVE  Wire'
<1>1. TypeOK /\ Cookies /\ Outcomes
  BY DEF IInv
<1>2. /\ \A q \in Requests \ {r} : request'[q] = request[q]
      /\ request'[r].credential = request[r].credential /\ request'[r].kind = request[r].kind
      /\ request[r].phase # "closed" /\ request'[r].phase # "closed"
      /\ jar' = jar
  BY DEF Handled
<1>3. \/ request'[r].given = request[r].given
      \/ request'[r].given.token \notin DOMAIN issued /\ request'[r].given.token # NoToken
  BY <1>1, WireTypes, SessionAssumption DEF Handled
<1>4. \A q \in Requests : request'[q].credential = request[q].credential
  BY <1>2
<1>5. \A q \in Requests : request'[q].given # NoCookie =>
        request'[q].outcome \in {"ok", "unauthorized"}
  <2>1. request'[r].given # NoCookie => request'[r].outcome \in {"ok", "unauthorized"}
    BY DEF Handled, Wire
  <2>. QED
    BY <1>2, <2>1 DEF Wire
<1>6. \A q, x \in Requests :
       request'[q].given.token = request'[x].given.token /\ request'[q].given.token # NoToken => q = x
  BY <1>1, <1>2, <1>3, WireTypes DEF Wire
<1>7. \A q, x \in Requests :
       request'[q].given.token = request'[x].credential /\ request'[x].credential # NoToken
         => request'[q].phase = "closed"
  BY <1>1, <1>2, <1>3, <1>4, WireTypes DEF Wire
<1>8. \A q \in Requests, c \in Browsers :
       request'[q].given.token = jar'[c].token /\ jar'[c].token # NoToken
         => request'[q].phase = "closed"
  BY <1>1, <1>2, <1>3, WireTypes DEF Wire
<1>9. \A q \in Requests, c \in Browsers :
       Granted(q)' /\ request'[q].credential = jar'[c].token => request'[q].phase # "closed"
  BY <1>2 DEF Wire, Granted
<1>. QED
  BY <1>5, <1>6, <1>7, <1>8, <1>9 DEF Wire

LEMMA WireReceive ==
  ASSUME IInv, Wire, NEW r \in Requests, Received(r)
  PROVE  Wire'
<1>1. TypeOK /\ Cookies /\ Outcomes
  BY DEF IInv
<1>2. /\ \A q \in Requests :
           /\ request'[q].credential = request[q].credential
           /\ request'[q].kind = request[q].kind /\ request'[q].given = request[q].given
           /\ request'[q].outcome = request[q].outcome
           /\ Granted(q)' => Granted(q)
           /\ request[q].phase = "closed" => request'[q].phase = "closed"
           /\ request'[q].phase = "closed" => request[q].phase = "closed" \/ q = r
      /\ request[r].phase = "answered" /\ request'[r].phase = "closed"
  BY DEF Received, Granted
<1>3. ASSUME NEW q \in Requests, NEW c \in Browsers,
             request[q].given.token = jar'[c].token, jar'[c].token # NoToken
      PROVE  request'[q].phase = "closed"
  <2>1. CASE jar'[c] = request[r].given
    <3>1. q = r
      BY <1>3, <2>1 DEF Wire
    <3>. QED
      BY <1>2, <3>1
  <2>2. CASE jar'[c] = NoCookie
    BY <1>1, <1>3, <2>2, WireTypes
  <2>3. CASE jar'[c] = jar[c]
    BY <1>2, <1>3, <2>3 DEF Wire
  <2>. QED
    BY <2>1, <2>2, <2>3 DEF Received
<1>4. ASSUME NEW q \in Requests, NEW c \in Browsers, Granted(q),
             request[q].credential = jar'[c].token, request'[q].phase = "closed"
      PROVE  FALSE
  <2>1. request[q].credential # NoToken
    BY <1>1, <1>4, WireTypes DEF IInv, GrantedSpent
  <2>2. CASE jar'[c] = request[r].given
    BY <1>2, <1>4, <2>1, <2>2 DEF Wire
  <2>3. CASE jar'[c] = NoCookie
    BY <1>1, <1>4, <2>1, <2>3, WireTypes
  <2>4. CASE jar'[c] = jar[c] /\ request[r].outcome # "unauthorized"
             /\ ~(request[r].outcome = "ok" /\ request[r].kind # "logout")
    <3>1. q # r
      BY <1>4, <2>4 DEF Wire, Granted
    <3>. QED
      BY <1>2, <1>4, <2>4, <3>1 DEF Wire
  <2>. QED
    BY <2>2, <2>3, <2>4 DEF Received
<1>5. \A q, x \in Requests :
       request'[q].given.token = request'[x].given.token /\ request'[q].given.token # NoToken => q = x
  BY <1>2 DEF Wire
<1>6. \A q, x \in Requests :
       request'[q].given.token = request'[x].credential /\ request'[x].credential # NoToken
         => request'[q].phase = "closed"
  BY <1>2 DEF Wire
<1>7. \A q \in Requests :
        request'[q].given # NoCookie => request'[q].outcome \in {"ok", "unauthorized"}
  BY <1>2 DEF Wire
<1>. QED
  BY <1>2, <1>3, <1>4, <1>5, <1>6, <1>7 DEF Wire
-----------------------------------------------------------------------------
(* Credentials that are spent.                                             *)

\* Only a granted refresh spends a credential.
SpentByGrant ==
  \A h \in DOMAIN token : token[h].consumed =>
    \E q \in Requests : Granted(q) /\ request[q].credential = h

\* Of two refreshes with one credential, neither of which was excused, one is
\* over and was not granted.
InTurn ==
  \A q, r \in Requests \ excused :
    /\ q # r /\ request[q].kind = "refresh" /\ request[r].kind = "refresh"
    /\ request[q].credential = request[r].credential /\ request[r].credential # NoToken
    => \E x \in {q, r} : request[x].phase = "closed" /\ ~Granted(x)

LEMMA SendOne ==
  ASSUME IInv, NEW r \in Requests, NEW b \in Browsers, NEW kind, NEW user, Send(r, b, kind, user)
  PROVE  /\ \A q \in Requests \ {r} : request'[q] = request[q]
         /\ request[r].phase = "unused" /\ request'[r].phase = "sent"
         /\ request'[r].kind = kind /\ request'[r].credential = jar[b].token
         /\ ~Granted(r) /\ ~Granted(r)' /\ ~LoggedOut(r)
         /\ UNCHANGED <<session, token, jar, issued, now>>
<1>1. TypeOK /\ Outcomes
  BY DEF IInv
<1>. QED
  BY <1>1 DEF Send, TypeOK, Outcomes, Granted, LoggedOut

\* What was granted stays granted.
LEMMA GrantStays ==
  ASSUME IInv, NEW q \in Requests, Granted(q),
         \/ UNCHANGED request
         \/ \E r \in Requests, b \in Browsers, kind \in {"login", "refresh", "logout"},
               user \in Users \cup {NoUser} : Send(r, b, kind, user)
         \/ \E r \in Requests : Handled(r) \/ Received(r)
  PROVE  Granted(q)' /\ request'[q].credential = request[q].credential
<1>1. ASSUME NEW r \in Requests, NEW b \in Browsers, NEW kind, NEW user, Send(r, b, kind, user)
      PROVE  request'[q] = request[q]
  BY <1>1, SendOne
<1>2. ASSUME NEW r \in Requests, Handled(r) \/ Received(r)
      PROVE  request'[q].kind = request[q].kind /\ request'[q].given = request[q].given
             /\ request'[q].credential = request[q].credential
  <2>1. request[q].phase # "sent"
    BY DEF IInv, Outcomes, Granted
  <2>. QED
    BY <1>2, <2>1 DEF Handled, Received
<1>. QED
  BY <1>1, <1>2 DEF Granted

LEMMA RotateGrants ==
  ASSUME IInv, NEW r \in Requests, NEW h \in Tokens, Rotate(r, h)
  PROVE  Granted(r)' /\ request'[r].credential = request[r].credential
<1>. DEFINE c == request[r].credential
            row == session[token[c].session]
            given == [token |-> h, expires |-> row.expires]
<1>1. TypeOK /\ request[r].kind = "refresh" /\ Known(c) /\ Finish(r, "ok", row.user, given)
  BY DEF IInv, Rotate, Arrived
<1>2. row \in SessionRow
  BY <1>1 DEF Known, TypeOK, Table
<1>3. given \in Cookie /\ given # NoCookie /\ row.user \in Users \cup {NoUser}
  BY <1>2, SessionAssumption DEF SessionRow, Cookie, NoCookie
<1>. HIDE DEF row, given
<1>4. request'[r] = [phase |-> "done", kind |-> request[r].kind,
                     browser |-> request[r].browser, user |-> row.user,
                     credential |-> request[r].credential, outcome |-> "ok",
                     given |-> given]
  BY <1>1, <1>3, FinishType
<1>. QED
  BY <1>1, <1>3, <1>4 DEF Granted

LEMMA SpentHandle ==
  ASSUME IInv, SpentByGrant, NEW r \in Requests, Handle(r) PROVE SpentByGrant'
<1>1. TypeOK /\ Tables /\ Recorded /\ Handled(r)
  BY HandleRequest DEF IInv, Tables
<1>2. ASSUME NEW h \in DOMAIN token, token[h].consumed
      PROVE  \E q \in Requests : Granted(q)' /\ request'[q].credential = h
  BY <1>1, <1>2, GrantStays DEF SpentByGrant
<1>3. ASSUME NEW h \in Tokens, CreateSession(r, h),
             NEW k \in DOMAIN token', token'[k].consumed
      PROVE  k \in DOMAIN token /\ token[k].consumed
  <2>t. TypeOK /\ Recorded
    BY <1>1
  <2>1. PICK id \in SessionIds :
          /\ id \notin DOMAIN session
          /\ DOMAIN token' = DOMAIN token \cup {h}
          /\ token'[h] = [session |-> id, consumed |-> FALSE]
          /\ \A x \in DOMAIN token : token'[x] = token[x]
    BY <1>3, <2>t, CreateEffect
  <2>. QED
    BY <1>3, <2>1
<1>4. ASSUME NEW h \in Tokens, Rotate(r, h), NEW k \in DOMAIN token', token'[k].consumed
      PROVE  \E q \in Requests : Granted(q)' /\ request'[q].credential = k
  <2>. DEFINE c == request[r].credential
  <2>1. RotateRows(c, h)
    BY <1>1, <1>4, RotateEffect
  <2>2. k = c \/ (k \in DOMAIN token /\ token[k].consumed)
    BY <1>4, <2>1 DEF RotateRows
  <2>. QED
    BY <1>2, <1>4, <2>2, RotateGrants
<1>5. CASE UNCHANGED token
  BY <1>2, <1>5 DEF SpentByGrant, Granted
<1>6. CASE \E h \in Tokens : CreateSession(r, h)
  BY <1>2, <1>3, <1>6 DEF SpentByGrant, Granted
<1>7. CASE \E h \in Tokens : Rotate(r, h)
  BY <1>4, <1>7 DEF SpentByGrant, Granted
<1>. QED
  BY <1>5, <1>6, <1>7 DEF Handle, Reject, RejectReused, Revoke, Fail, Answer

\* A refresh is sent when no other one that counts is under way, so those with
\* the same credential are over, and the one that was granted took it away.
LEMMA TurnSend ==
  ASSUME IInv, LockInv, Wire, InTurn, NEW r \in Requests, NEW b \in Browsers,
         NEW kind, NEW user, Sends(r, b, kind, user), UNCHANGED excused
  PROVE  InTurn'
<1>1. /\ \A q \in Requests \ {r} : request'[q] = request[q]
      /\ request'[r].phase = "sent" /\ request'[r].kind = kind
      /\ request'[r].credential = jar[b].token
  BY SendOne DEF Sends
<1>2. ASSUME NEW q \in Requests \ excused, q # r, kind = "refresh", request[q].kind = "refresh",
             request[q].credential = jar[b].token
      PROVE  request'[q].phase = "closed" /\ ~Granted(q)'
  <2>1. request[q].phase = "closed"
    BY <1>2 DEF Sends, LockInv, Busy
  <2>2. ~Granted(q)
    BY <1>2, <2>1 DEF Wire
  <2>. QED
    BY <1>1, <1>2, <2>1, <2>2 DEF Granted
<1>3. ASSUME NEW q \in Requests \ excused, NEW x \in Requests \ excused, q # x,
             request'[q].kind = "refresh", request'[x].kind = "refresh",
             request'[q].credential = request'[x].credential, request'[x].credential # NoToken
      PROVE  \E y \in {q, x} : request'[y].phase = "closed" /\ ~Granted(y)'
  <2>1. CASE q # r /\ x # r
    BY <1>1, <1>3, <2>1 DEF InTurn, Granted
  <2>2. CASE q = r
    BY <1>1, <1>2, <1>3, <2>2
  <2>3. CASE x = r
    BY <1>1, <1>2, <1>3, <2>3
  <2>. QED
    BY <2>1, <2>2, <2>3
<1>. QED
  BY <1>3 DEF InTurn, Granted

LEMMA TurnServer ==
  ASSUME InTurn, NEW r \in Requests, Handled(r) \/ Received(r), UNCHANGED excused
  PROVE  InTurn'
<1>1. \A q \in Requests :
        /\ request'[q].kind = request[q].kind /\ request'[q].credential = request[q].credential
        /\ request[q].phase = "closed" /\ ~Granted(q) => request'[q].phase = "closed" /\ ~Granted(q)'
  BY DEF Handled, Received, Granted
<1>2. ASSUME NEW q \in Requests \ excused, NEW x \in Requests \ excused, q # x,
             request[q].kind = "refresh", request[x].kind = "refresh",
             request[q].credential = request[x].credential, request[x].credential # NoToken
      PROVE  \E y \in {q, x} : request'[y].phase = "closed" /\ ~Granted(y)'
  BY <1>1, <1>2 DEF InTurn
<1>. QED
  BY <1>1, <1>2 DEF InTurn, Granted
-----------------------------------------------------------------------------
(* Why a session is revoked.                                               *)

\* A session is revoked by a logout, or by a credential that came twice, of its
\* own login.
LEMMA NewlyRevoked ==
  ASSUME IInv, NEW r \in Requests, Handle(r),
         NEW h \in DOMAIN token', Known(h)', session'[token'[h].session].revoked
  PROVE  \/ h \in DOMAIN token /\ Known(h) /\ session[token[h].session].revoked
         \/ /\ RejectReused(r) \/ Revoke(r)
            /\ SameLogin(h, request[r].credential) /\ UNCHANGED issued
<1>t. TypeOK /\ Tables /\ Recorded /\ TokensHaveSessions /\ LoginIsSession
  BY DEF IInv, Tables
<1>1. ASSUME NEW t \in Tokens, CreateSession(r, t)
      PROVE  h \in DOMAIN token /\ session[token[h].session].revoked
  <2>1. PICK id \in SessionIds :
           /\ id \notin DOMAIN session
           /\ session'[id] = [user |-> request[r].user, expires |-> now + Lifetime,
                              revoked |-> FALSE]
           /\ \A s \in DOMAIN session : session'[s] = session[s]
           /\ DOMAIN token' = DOMAIN token \cup {t}
           /\ token'[t] = [session |-> id, consumed |-> FALSE]
           /\ \A k \in DOMAIN token : token'[k] = token[k]
    BY <1>1, <1>t, CreateEffect
  <2>. QED
    BY <1>t, <2>1 DEF TokensHaveSessions
<1>2. ASSUME NEW t \in Tokens, Rotate(r, t)
      PROVE  h \in DOMAIN token /\ session[token[h].session].revoked
  <2>. DEFINE c == request[r].credential
  <2>. HIDE DEF c
  <2>1. RotateRows(c, t)
    BY <1>2, <1>t, RotateEffect DEF c
  <2>2. ~session[token[c].session].revoked
    BY <2>1 DEF RotateRows, Over
  <2>. QED
    BY <2>1, <2>2 DEF RotateRows
<1>3. ASSUME RejectReused(r) \/ Revoke(r), ~session[token[h].session].revoked
      PROVE  SameLogin(h, request[r].credential) /\ UNCHANGED issued
  <2>. DEFINE c == request[r].credential
  <2>1. /\ DOMAIN session' = DOMAIN session /\ token' = token /\ issued' = issued
        /\ \A s \in DOMAIN session :
             session'[s].revoked => session[s].revoked \/ (Known(c) /\ s = token[c].session)
    BY <1>3, <1>t, RevokeEffect
  <2>2. Known(c) /\ token[h].session = token[c].session /\ h \in DOMAIN token
    BY <1>3, <2>1 DEF Known
  <2>. QED
    BY <1>t, <2>1, <2>2 DEF SameLogin, LoginIsSession, Recorded, Known
<1>4. RejectReused(r) \/ Revoke(r) => h \in DOMAIN token
  BY <1>t, RevokeEffect
<1>5. CASE UNCHANGED <<session, token>>
  BY <1>5 DEF Known
<1>6. CASE \E t \in Tokens : CreateSession(r, t) \/ Rotate(r, t)
  BY <1>1, <1>2, <1>6, <1>t DEF Known, TokensHaveSessions
<1>7. CASE RejectReused(r) \/ Revoke(r)
  BY <1>3, <1>4, <1>7, <1>t DEF Known, TokensHaveSessions
<1>. QED
  BY <1>5, <1>6, <1>7 DEF Handle, Reject, Fail, Answer

\* Request r accounts for the end of the login of h.
Excuses(r, h) ==
  SameLogin(h, request[r].credential) /\ (LoggedOut(r) \/ r \in excused)

\* It does so from then on.
LEMMA ExcuseStays ==
  ASSUME IInv, TabsTypeOK, LockInv, [Next]_vars, excused \subseteq excused',
         NEW r \in Requests, NEW h, Excuses(r, h)
  PROVE  Excuses(r, h)'
<1>t. TypeOK /\ Tables /\ Outcomes
  BY DEF IInv
<1>1. CASE LoggedOut(r)
  <2>1. (LoggedOut(r) \/ Refused(r))' /\ SameLogin(h, request[r].credential)'
    BY <1>1, <1>t, CauseStays DEF Excuses
  <2>2. ~Refused(r)'
    <3>1. request'[r].kind = request[r].kind
      <4>1. request[r].phase # "unused"
        BY <1>1, <1>t DEF LoggedOut, Outcomes
      <4>2. ~Sent(r)
        BY <4>1 DEF Sent
      <4>. QED
        BY <1>t, <4>2, RequestSteps DEF Same, Late, Created, Rotated, Ended, Failed, Ran
    <3>. QED
      BY <1>1, <3>1 DEF LoggedOut, Refused
  <2>. QED
    BY <2>1, <2>2 DEF Excuses
<1>2. CASE r \in excused
  <2>1. request[r].phase # "unused"
    BY <1>2 DEF LockInv
  <2>2. ~Sent(r)
    BY <2>1 DEF Sent
  <2>3. request'[r].credential = request[r].credential
    BY <1>t, <2>2, RequestSteps DEF Same, Late, Created, Rotated, Ended, Failed, Ran
  <2>. QED
    BY <1>2, <1>t, <2>3, RowsOnlyAge DEF Excuses, SameLogin, RowsAge
<1>. QED
  BY <1>1, <1>2 DEF Excuses

Excused(h) == \E r \in Requests : Excuses(r, h)

LEMMA KeepMeans ==
  TabsKeepTheSession <=>
    \A h \in DOMAIN token : Known(h) /\ session[token[h].session].revoked => Excused(h)
BY DEF TabsKeepTheSession, Excused, Excuses

LEMMA KeepMeansNext ==
  TabsKeepTheSession' <=>
    \A h \in DOMAIN token' : Known(h)' /\ session'[token'[h].session].revoked => Excused(h)'
BY DEF TabsKeepTheSession, Excused, Excuses

\* A credential that came twice was granted to another refresh, and one of the
\* two was excused.
LEMMA ReuseIsExcused ==
  ASSUME IInv, SpentByGrant, InTurn, NEW r \in Requests, RejectReused(r)
  PROVE  \E q \in excused \cap Requests : request[q].credential = request[r].credential
<1>. DEFINE c == request[r].credential
<1>1. request[r].kind = "refresh" /\ request[r].phase = "sent" /\ Known(c) /\ token[c].consumed
  BY DEF RejectReused, Arrived
<1>2. PICK q \in Requests : Granted(q) /\ request[q].credential = c
  BY <1>1 DEF SpentByGrant, Known
<1>3. ~Granted(r)
  BY <1>1 DEF IInv, Outcomes, Granted
<1>4. c # NoToken
  BY <1>1, SessionAssumption DEF IInv, TypeOK, Table, Known
<1>5. q \in excused \/ r \in excused
  BY <1>1, <1>2, <1>3, <1>4 DEF InTurn, Granted
<1>. QED
  BY <1>2, <1>5

LEMMA KeepHandle ==
  ASSUME IInv, TabsTypeOK, LockInv, SpentByGrant, InTurn, TabsKeepTheSession,
         NEW r \in Requests, Handle(r), UNCHANGED tabVars
  PROVE  TabsKeepTheSession'
<1>. SUFFICES ASSUME NEW h \in DOMAIN token', Known(h)', session'[token'[h].session].revoked
              PROVE  Excused(h)'
  BY KeepMeansNext
<1>t. TypeOK /\ Outcomes
  BY DEF IInv
<1>n. [Next]_vars /\ excused \subseteq excused'
  BY DEF Next, tabVars
<1>1. CASE Known(h) /\ session[token[h].session].revoked
  <2>1. PICK q \in Requests : Excuses(q, h)
    BY <1>1, KeepMeans DEF Known, Excused
  <2>. QED
    BY <1>n, <2>1, ExcuseStays DEF Excused
<1>2. CASE RejectReused(r) /\ SameLogin(h, request[r].credential)
  <2>1. PICK q \in excused \cap Requests : request[q].credential = request[r].credential
    BY <1>2, ReuseIsExcused
  <2>2. Excuses(q, h)
    BY <1>2, <2>1 DEF Excuses
  <2>. QED
    BY <1>n, <2>1, <2>2, ExcuseStays DEF Excused
<1>3. CASE Revoke(r) /\ SameLogin(h, request[r].credential) /\ UNCHANGED issued
  <2>1. request[r].kind = "logout" /\ request[r].phase = "sent"
        /\ Finish(r, "ok", NoUser, NoCookie) /\ UNCHANGED jar
    BY <1>3 DEF Revoke, Arrived
  <2>2. Handled(r) /\ request'[r].outcome = "ok"
    BY <1>t, <2>1, NoCookieType, FinishHandled
  <2>3. Excuses(r, h)'
    BY <1>3, <2>1, <2>2 DEF Handled, Excuses, LoggedOut, SameLogin
  <2>. QED
    BY <2>3 DEF Excused
<1>. QED
  BY <1>1, <1>2, <1>3, NewlyRevoked

\* Other steps revoke nothing.
LEMMA KeepRest ==
  ASSUME IInv, TabsTypeOK, LockInv, TabsKeepTheSession, [Next]_vars, excused \subseteq excused',
         UNCHANGED <<session, token>>
  PROVE  TabsKeepTheSession'
<1>. SUFFICES ASSUME NEW h \in DOMAIN token', Known(h)', session'[token'[h].session].revoked
              PROVE  Excused(h)'
  BY KeepMeansNext
<1>1. PICK q \in Requests : Excuses(q, h)
  BY KeepMeans DEF Known, Excused
<1>. QED
  BY <1>1, ExcuseStays DEF Excused

-----------------------------------------------------------------------------
(* Time.                                                                   *)

\* What time does: cookies and rows go, and the rest stays as it is.
Aged ==
  /\ UNCHANGED <<request, issued, tabVars>>
  /\ \A b \in Browsers : jar'[b] \in {jar[b], NoCookie}
  /\ \A s \in DOMAIN session' : s \in DOMAIN session /\ session'[s] = session[s]
  /\ \A h \in DOMAIN token' : h \in DOMAIN token /\ token'[h] = token[h]

LEMMA TimeEffect == ASSUME TypeOK, Tables, TimePasses PROVE Aged
<1>1. CASE Tick
  BY <1>1 DEF TimePasses, Tick, Aged
<1>2. CASE Cleanup
  <2>1. UNCHANGED <<request, issued, tabVars, jar>>
    BY <1>2 DEF TimePasses, Cleanup
  <2>. QED
    BY <1>2, <2>1, CleanupEffect DEF Tables, Aged
<1>3. CASE \E b \in Browsers : DropCookie(b)
  <2>1. PICK b \in Browsers : DropCookie(b)
    BY <1>3
  <2>2. jar' = [jar EXCEPT ![b] = NoCookie] /\ UNCHANGED <<session, token, request, issued, tabVars>>
    BY <2>1 DEF TimePasses, DropCookie
  <2>3. \A c \in Browsers : jar'[c] \in {jar[c], NoCookie}
    BY <2>2 DEF TypeOK
  <2>. QED
    BY <2>2, <2>3 DEF Aged
<1>. QED
  BY <1>1, <1>2, <1>3 DEF TimePasses

\* A removed cookie gives nothing away.
LEMMA WireAged == ASSUME IInv, Wire, Aged PROVE Wire'
<1>1. TypeOK /\ Cookies /\ Outcomes /\ GrantedSpent
  BY DEF IInv
<1>2. request' = request /\ \A b \in Browsers : jar'[b] = jar[b] \/ jar'[b].token = NoToken
  BY <1>1, WireTypes DEF Aged
<1>3. \A q \in Requests : Granted(q) => request[q].credential # NoToken
  BY <1>1, WireTypes DEF GrantedSpent
<1>4. \A q \in Requests, b \in Browsers :
        request[q].given.token = jar'[b].token /\ jar'[b].token # NoToken
          => request[q].phase = "closed"
  BY <1>2 DEF Wire
<1>5. \A q \in Requests, b \in Browsers :
        Granted(q) /\ request[q].credential = jar'[b].token => request[q].phase # "closed"
  BY <1>2, <1>3 DEF Wire
<1>. QED
  BY <1>2, <1>4, <1>5 DEF Wire, Granted

\* Rows that are deleted answer for nothing.
LEMMA RestAged ==
  ASSUME IInv, TabsTypeOK, LockInv, SpentByGrant, InTurn, TabsKeepTheSession, [Next]_vars, Aged
  PROVE  TabsTypeOK' /\ LockInv' /\ SpentByGrant' /\ InTurn' /\ TabsKeepTheSession'
<1>1. TabsTypeOK' /\ LockInv' /\ InTurn'
  BY DEF Aged, tabVars, TabsTypeOK, LockInv, Busy, InTurn, Granted
<1>2. SpentByGrant'
  BY DEF Aged, SpentByGrant, Granted
<1>3. ASSUME NEW h \in DOMAIN token', Known(h)', session'[token'[h].session].revoked
      PROVE  Excused(h)'
  <2>1. h \in DOMAIN token /\ Known(h) /\ session[token[h].session].revoked
    BY <1>3 DEF Aged, Known
  <2>2. PICK q \in Requests : Excuses(q, h)
    BY <2>1, KeepMeans DEF Excused
  <2>3. excused \subseteq excused'
    BY DEF Aged, tabVars
  <2>. QED
    BY <2>2, <2>3, ExcuseStays DEF Excused
<1>. QED
  BY <1>1, <1>2, <1>3, KeepMeansNext

-----------------------------------------------------------------------------
(* The theorems.                                                           *)

TabsInv ==
  /\ IInv /\ TabsTypeOK /\ LockInv /\ Wire
  /\ SpentByGrant /\ InTurn /\ TabsKeepTheSession

LEMMA TabsStart == TabsInit => TabsInv
<1>. SUFFICES ASSUME TabsInit PROVE TabsInv
  OBVIOUS
<1>1. PICK b \in Browsers, user \in Users, h \in Tokens : SignedInBefore(b, user, h)
  BY DEF TabsInit
<1>2. IInv
  BY <1>1, SignedInIsSound
<1>3. /\ \A r \in Requests :
           request[r] = [phase |-> "unused", kind |-> "none", browser |-> b, user |-> NoUser,
                         credential |-> NoToken, outcome |-> "none", given |-> NoCookie]
      /\ DOMAIN token = {h} /\ ~token[h].consumed /\ token[h].session = 1
      /\ DOMAIN session = {1} /\ ~session[1].revoked
  BY <1>1 DEF SignedInBefore
<1>4. flights = {} /\ excused = {} /\ notices = {} /\ stopKey = FALSE
      /\ tab = [t \in Tabs |-> Away]
  BY DEF TabsInit
<1>5. \A r \in Requests : ~Granted(r)
  BY <1>3 DEF Granted
<1>6. TabsTypeOK
  BY <1>4, AwayPage DEF TabsTypeOK
<1>7. LockInv
  BY <1>3, <1>4 DEF LockInv, Busy
<1>8. Wire
  BY <1>3, <1>5, NoCookieType DEF Wire
<1>9. SpentByGrant /\ InTurn /\ TabsKeepTheSession
  BY <1>3, <1>5 DEF SpentByGrant, InTurn, TabsKeepTheSession
<1>. QED
  BY <1>2, <1>6, <1>7, <1>8, <1>9 DEF TabsInv

LEMMA TabType ==
  ASSUME TabsTypeOK, [TabsNext]_allVars PROVE tab' \in [Tabs -> Page]
BY TabStep DEF TabsTypeOK, Turns

LEMMA TabsStep == TabsInv /\ [TabsNext]_allVars => TabsInv'
<1>. SUFFICES ASSUME TabsInv, [TabsNext]_allVars PROVE TabsInv'
  OBVIOUS
<1>t. IInv /\ TabsTypeOK /\ LockInv /\ Wire /\ SpentByGrant /\ InTurn /\ TabsKeepTheSession
      /\ TypeOK /\ Tables
  BY DEF TabsInv, IInv
<1>n. [Next]_vars /\ IInv' /\ tab' \in [Tabs -> Page]
  BY <1>t, SessionSteps, InvariantStep, TabType
<1>1. CASE LetsGo
  <2>1. LockInv'
    BY <1>t, <1>1, LetsGoLock
  <2>2. UNCHANGED <<session, token, request, jar, issued>> /\ excused \subseteq excused'
    BY <1>1 DEF LetsGo, vars
  <2>3. TabsKeepTheSession'
    BY <1>t, <1>n, <2>2, KeepRest
  <2>4. TabsTypeOK'
    BY <1>t, <1>n, <1>1 DEF LetsGo, TabsTypeOK
  <2>5. Wire' /\ SpentByGrant'
    BY <1>t, <2>2 DEF Wire, SpentByGrant, Granted
  <2>6. InTurn'
    BY <1>t, <2>2 DEF InTurn, Granted
  <2>. QED
    BY <1>n, <2>1, <2>3, <2>4, <2>5, <2>6 DEF TabsInv
<1>2. ASSUME NEW t \in Tabs, NEW r \in Requests, NEW b \in Browsers, Ask(t, r, b)
      PROVE  TabsInv'
  <2>1. PICK kind \in {"login", "refresh", "logout"}, user \in Users \cup {NoUser} :
          Sends(r, b, kind, user)
    BY <1>2, AskEffect
  <2>2. LockInv' /\ flights' \subseteq flights \cup Flight /\ UNCHANGED <<stopKey, notices, excused>>
    BY <1>2, <1>t, AskLock
  <2>3. Send(r, b, kind, user) /\ UNCHANGED <<session, token>>
    BY <2>1 DEF Sends, Send
  <2>4. Wire'
    BY <1>t, <2>3, WireSend
  <2>5. SpentByGrant'
    <3>1. \A q \in Requests : Granted(q) => Granted(q)' /\ request'[q].credential = request[q].credential
      BY <1>t, <2>3, GrantStays
    <3>. QED
      BY <1>t, <2>3, <3>1 DEF SpentByGrant, Granted
  <2>6. InTurn'
    BY <1>t, <2>1, <2>2, TurnSend
  <2>7. TabsKeepTheSession'
    BY <1>t, <1>n, <2>2, <2>3, KeepRest
  <2>8. TabsTypeOK'
    BY <1>t, <1>n, <2>2 DEF TabsTypeOK, Flight
  <2>. QED
    BY <1>n, <2>2, <2>4, <2>5, <2>6, <2>7, <2>8 DEF TabsInv
<1>3. ASSUME NEW r \in Requests, Handle(r), UNCHANGED tabVars PROVE TabsInv'
  <2>1. Handled(r)
    BY <1>3, <1>t, HandleRequest
  <2>2. TabsTypeOK' /\ UNCHANGED excused
    BY <1>t, <1>3 DEF TabsTypeOK, tabVars
  <2>. QED
    BY <1>t, <1>n, <1>3, <2>1, <2>2, ServerLock, WireHandle, SpentHandle, TurnServer, KeepHandle
       DEF TabsInv
<1>4. ASSUME NEW r \in Requests, Receive(r), UNCHANGED tabVars PROVE TabsInv'
  <2>1. Received(r)
    BY <1>4, <1>t, ReceiveRequest
  <2>2. TabsTypeOK' /\ UNCHANGED excused /\ excused \subseteq excused'
    BY <1>t, <1>4 DEF TabsTypeOK, tabVars
  <2>3. UNCHANGED <<session, token>>
    BY <2>1 DEF Received
  <2>4. SpentByGrant'
    <3>1. \A q \in Requests : Granted(q) => Granted(q)' /\ request'[q].credential = request[q].credential
      BY <1>t, <2>1, GrantStays
    <3>. QED
      BY <1>t, <2>3, <3>1 DEF SpentByGrant, Granted
  <2>. QED
    BY <1>t, <1>n, <1>4, <2>1, <2>2, <2>3, <2>4, ServerLock, WireReceive, TurnServer, KeepRest
       DEF TabsInv
<1>5. ASSUME NEW t \in Tabs, PageStep(t) \/ CoordinatorStep(t) PROVE LetsGo
  BY <1>5, <1>t, PageLetsGo, CoordinatorLetsGo
<1>6. UNCHANGED allVars => LetsGo
  BY <1>t DEF allVars, tabVars, LetsGo, TabsTypeOK
<1>7. CASE TimePasses
  BY <1>t, <1>n, <1>7, TimeEffect, WireAged, RestAged DEF TabsInv
<1>. QED
  BY <1>1, <1>2, <1>3, <1>4, <1>5, <1>6, <1>7, UnusedRequest DEF TabsNext, Server

\* Whatever tabs are opened, closed, stopped and signed in, the sessions keep
\* their invariant, one call at a time holds the lock, credentials are given
\* and spent by one request each, and every revoked session has an excuse.
THEOREM TabsInvariant == TabsSpec => []TabsInv
BY TabsStart, TabsStep, PTL DEF TabsSpec

\* Pages, the calls that hold the lock and the notices under way are always
\* what auth-coordinator.ts makes of them.
THEOREM TabsTypeCorrect == TabsSpec => []TabsTypeOK
<1>1. TabsInv => TabsTypeOK
  BY DEF TabsInv
<1>. QED
  BY <1>1, TabsInvariant, PTL

\* However many tabs refresh with the one cookie, they never make the server
\* revoke the session by themselves.
THEOREM TabsKeep == TabsSpec => []TabsKeepTheSession
<1>1. TabsInv => TabsKeepTheSession
  BY DEF TabsInv
<1>. QED
  BY <1>1, TabsInvariant, PTL

\* While the stop key is there, no tab sends a refresh or comes by a token.
THEOREM TabsStayStopped == TabsSpec => StoppedStaysStopped
<1>1. ASSUME TabsInv, [TabsNext]_allVars, stopKey, NEW q \in Requests, request[q].phase = "unused"
      PROVE  request'[q].kind # "refresh"
  <2>t. TypeOK /\ Tables /\ IInv /\ request[q].kind = "none"
    BY <1>1 DEF TabsInv, IInv, LockInv
  <2>1. ASSUME NEW r \in Requests, NEW b \in Browsers, NEW kind \in {"login", "refresh", "logout"},
               NEW user \in Users \cup {NoUser}, Sends(r, b, kind, user)
        PROVE  request'[q].kind # "refresh"
    <3>1. kind # "refresh"
      BY <1>1, <2>1 DEF Sends
    <3>. QED
      BY <2>t, <2>1, <3>1, SendOne DEF Sends
  <2>2. ASSUME NEW r \in Requests, Handle(r) \/ Receive(r) PROVE request'[q].kind # "refresh"
    <3>1. Handled(r) \/ Received(r)
      BY <2>t, <2>2, HandleRequest, ReceiveRequest
    <3>. QED
      BY <2>t, <3>1 DEF Handled, Received
  <2>3. UNCHANGED vars => request'[q].kind # "refresh"
    BY <2>t DEF vars
  <2>4. TimePasses => request'[q].kind # "refresh"
    BY <2>t, TimeEffect DEF Aged
  <2>. QED
    BY <1>1, <2>1, <2>2, <2>3, <2>4, StepKinds
<1>2. ASSUME TabsInv, [TabsNext]_allVars, stopKey, NEW u \in Tabs, tab'[u].access
      PROVE  tab[u].access
  <2>1. TabsTypeOK
    BY <1>2 DEF TabsInv
  <2>2. ASSUME NEW t \in Tabs, NEW x \in Page, Turns(t, x) PROVE tab[u].access
    BY <1>2, <2>1, <2>2 DEF Turns, TabsTypeOK
  <2>. QED
    BY <1>2, <2>1, <2>2, TabStep
<1>3. TabsInv /\ [TabsNext]_allVars =>
        [stopKey =>
           /\ \A r \in Requests : request[r].phase = "unused" => request'[r].kind # "refresh"
           /\ \A t \in Tabs : tab'[t].access => tab[t].access]_allVars
  BY <1>1, <1>2
<1>. QED
  BY <1>3, TabsInvariant, PTL DEF TabsSpec, StoppedStaysStopped

\* By the shape of the module, pages, locks and notices use the server and the
\* cookie jar by the steps of RefreshSessions only; what follows builds on it.
LEMMA TabsUseTheServer == TabsSpec => [][Next]_vars
BY SessionSteps, PTL DEF TabsSpec

\* So the end of a login holds in all tabs: once the server has seen a logout or
\* refused a credential of it, no tab is granted a refresh, whatever cookies and
\* answers are still on their way.
THEOREM TabsEndForGood == TabsSpec => EndedLoginGrantsNothing
<1>1. TabsInv /\ [Next]_vars =>
        [\A r, q \in Requests :
           (LoggedOut(q) \/ Refused(q)) /\ ~Granted(r) /\ Granted(r)'
             => ~SameLogin(request[r].credential, request[q].credential)]_vars
  BY EndedGrantsStep DEF TabsInv
<1>. QED
  BY <1>1, TabsInvariant, TabsUseTheServer, PTL DEF EndedLoginGrantsNothing
===============================================================================
