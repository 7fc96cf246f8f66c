------------------------------- MODULE AuthTabs -------------------------------
(***************************************************************************)
(* The tabs of one browser over RefreshSessions: the AuthCoordinator of    *)
(* every page (lib/auth-coordinator.ts) and what its pages share: the      *)
(* cookie jar, the Web Lock around refresh and logout, the stop key in     *)
(* local storage and the notices of the broadcast channel (lib/auth.ts).   *)
(*                                                                         *)
(* A page may be closed or reloaded at any moment; its coordinator, its    *)
(* place in the lock's queue and the answers it waits for are gone then,   *)
(* but not a request that has left.  A fetch may fail whether or not the   *)
(* server got it.  A coordinator that stopped never starts again, so       *)
(* "epoch !== this.epoch" in the code is `stopped` here.                   *)
(***************************************************************************)
EXTENDS RefreshSessions

CONSTANTS
  Tabs,       \* pages of the application
  NoRequest   \* no request

ASSUME TabsAssumption ==
  /\ \E b \in Browsers : Browsers = {b}
  /\ NoRequest \notin Requests
  /\ 1 \in SessionIds

VARIABLES
  tab,       \* the pages and their coordinators
  flights,   \* the requests whose Web Lock is held: the call and its tab
  stopKey,   \* the stop key is in local storage
  notices,   \* the tabs that a broadcast has yet to reach
  excused    \* history: requests whose page went or had stopped when they
             \* failed, or that were under way when a sign-in was begun

tabVars == <<tab, flights, stopKey, notices, excused>>
allVars == <<vars, tabVars>>

\* wants: refreshing is set, or a logout is queued or under way; visit: the
\* sign-in that the page left for.
Page == [page: {"away", "open", "leaving"}, stopped: BOOLEAN, access: BOOLEAN,
         wants: SUBSET {"refresh", "logout"}, visit: Requests \cup {NoRequest}]
Away == [page |-> "away", stopped |-> FALSE, access |-> FALSE, wants |-> {}, visit |-> NoRequest]

TabsTypeOK ==
  /\ tab \in [Tabs -> Page]
  /\ flights \subseteq [request: Requests, tab: Tabs, call: {"refresh", "logout"}]
  /\ stopKey \in BOOLEAN
  /\ notices \subseteq Tabs
  /\ excused \subseteq Requests

\* The browser is started with the cookie of an earlier login.
SignedInBefore(b, user, h) ==
  /\ session = [s \in {1} |-> [user |-> user, expires |-> Lifetime, revoked |-> FALSE]]
  /\ token = [k \in {h} |-> [session |-> 1, consumed |-> FALSE]]
  /\ issued = [k \in {h} |-> [user |-> user, root |-> h, deadline |-> Lifetime]]
  /\ jar = [c \in Browsers |-> [token |-> h, expires |-> Lifetime]]
  /\ request = [r \in Requests |->
                  [phase |-> "unused", kind |-> "none", browser |-> b, user |-> NoUser,
                   credential |-> NoToken, outcome |-> "none", given |-> NoCookie]]
  /\ now = 0

TabsInit ==
  /\ \E b \in Browsers, user \in Users, h \in Tokens : SignedInBefore(b, user, h)
  /\ tab = [t \in Tabs |-> Away]
  /\ flights = {}
  /\ excused = {}
  /\ stopKey = FALSE
  /\ notices = {}

Open(t) == tab[t].page = "open"
Allowed(t) == Open(t) /\ ~tab[t].stopped /\ ~stopKey
Stop(x) == [x EXCEPT !.stopped = TRUE, !.access = FALSE]

\* stop with broadcast: the key is there at once, the notice arrives later.
Publish(t) ==
  /\ stopKey' = TRUE
  /\ notices' = notices \cup {u \in Tabs \ {t} : Open(u)}

-----------------------------------------------------------------------------
(* Pages.                                                                  *)

\* A page is loaded, after the sign-in or instead of it.
Load(t) ==
  /\ tab[t].page # "open"
  /\ tab' = [tab EXCEPT ![t] = [Away EXCEPT !.page = "open"]]
  /\ UNCHANGED <<vars, flights, stopKey, notices, excused>>

\* The browser releases the lock of a page that goes.
Release(t) == flights' = {f \in flights : f.tab # t}
Underway(rs) == {r \in rs : request[r].kind = "refresh" /\ request[r].phase # "closed"}

Unload(t) ==
  /\ tab[t].page # "away"
  /\ tab' = [tab EXCEPT ![t] = Away]
  /\ Release(t)
  /\ notices' = notices \ {t}
  /\ excused' = excused \cup Underway({f.request : f \in flights \ flights'})
  /\ UNCHANGED <<vars, stopKey>>

\* A notice or a storage event arrives.
Hear(t) ==
  /\ t \in notices
  /\ notices' = notices \ {t}
  /\ tab' = [tab EXCEPT ![t] = Stop(@)]
  /\ UNCHANGED <<vars, flights, stopKey, excused>>

\* login, offered once the coordinator has stopped: the page is left for Google.
LogIn(t) ==
  /\ Open(t) /\ tab[t].stopped
  /\ stopKey' = FALSE
  /\ tab' = [tab EXCEPT ![t] = [Away EXCEPT !.page = "leaving"]]
  /\ Release(t)
  /\ notices' = notices \ {t}
  /\ excused' = excused \cup Underway(Requests)
  /\ UNCHANGED vars

\* The callback of the sign-in.
SignIn(t, r, b, user) ==
  /\ tab[t].page = "leaving" /\ tab[t].visit = NoRequest
  /\ Send(r, b, "login", user)
  /\ tab' = [tab EXCEPT ![t].visit = r]
  /\ UNCHANGED <<flights, stopKey, notices, excused>>

-----------------------------------------------------------------------------
(* The coordinator.                                                        *)

\* allowed: any call finds the stop key of another tab first.
FindStopKey(t) ==
  /\ Open(t) /\ ~tab[t].stopped /\ stopKey
  /\ tab' = [tab EXCEPT ![t] = Stop(@)]
  /\ UNCHANGED <<vars, flights, stopKey, notices, excused>>

\* refresh: on page load, shortly before the token expires, or because the API
\* refused it; one at a time for the whole page.
Refresh(t) ==
  /\ Allowed(t) /\ "refresh" \notin tab[t].wants
  /\ tab' = [tab EXCEPT ![t].wants = @ \cup {"refresh"}]
  /\ UNCHANGED <<vars, flights, stopKey, notices, excused>>

\* logout: everybody is told before the lock is asked for.
LogOut(t) ==
  /\ Open(t) /\ "logout" \notin tab[t].wants
  /\ Publish(t)
  /\ tab' = [tab EXCEPT ![t] = [Stop(tab[t]) EXCEPT !.wants = @ \cup {"logout"}]]
  /\ UNCHANGED <<vars, flights, excused>>

Acquire(t, r, call) == flights' = flights \cup {[request |-> r, tab |-> t, call |-> call]}

\* Mutant: refreshes of different tabs are not kept apart.
SendRefreshUnlocked(t, r, b) ==
  /\ "refresh" \in tab[t].wants /\ Allowed(t)
  /\ Send(r, b, "refresh", NoUser)
  /\ Acquire(t, r, "refresh")
  /\ UNCHANGED <<tab, stopKey, notices, excused>>

\* The lock is granted, in any order, and nobody has stopped meanwhile.
SendRefresh(t, r, b) ==
  /\ "refresh" \in tab[t].wants /\ flights = {} /\ Allowed(t)
  /\ Send(r, b, "refresh", NoUser)
  /\ Acquire(t, r, "refresh")
  /\ UNCHANGED <<tab, stopKey, notices, excused>>

CancelRefresh(t) ==
  /\ "refresh" \in tab[t].wants /\ flights = {} /\ ~Allowed(t)
  /\ tab' = [tab EXCEPT ![t] = [Stop(tab[t]) EXCEPT !.wants = @ \ {"refresh"}]]
  /\ UNCHANGED <<vars, flights, stopKey, notices, excused>>

SendLogout(t, r, b) ==
  /\ "logout" \in tab[t].wants /\ flights = {}
  /\ Send(r, b, "logout", NoUser)
  /\ Acquire(t, r, "logout")
  /\ UNCHANGED <<tab, stopKey, notices, excused>>

-----------------------------------------------------------------------------
(* Answers.                                                                *)

Under(t, call) == {f \in flights : f.tab = t /\ f.call = call}
Waits(t, call) == Under(t, call) # {}
Answered(t, outcomes) ==
  \E f \in Under(t, "refresh") :
    request[f.request].phase = "closed" /\ request[f.request].outcome \in outcomes

\* The call is over and the lock is released.
Settle(t, call, x) ==
  /\ flights' = flights \ Under(t, call)
  /\ tab' = [tab EXCEPT ![t] = [x EXCEPT !.wants = @ \ {call}]]

\* Mutant: the token is kept although another tab has stopped meanwhile.
TakeTokenUnchecked(t) ==
  /\ Answered(t, {"ok"}) /\ ~tab[t].stopped
  /\ Settle(t, "refresh", [tab[t] EXCEPT !.access = TRUE])
  /\ UNCHANGED <<vars, stopKey, notices, excused>>

TakeToken(t) ==
  /\ Answered(t, {"ok"}) /\ Allowed(t)
  /\ Settle(t, "refresh", [tab[t] EXCEPT !.access = TRUE])
  /\ UNCHANGED <<vars, stopKey, notices, excused>>

\* This tab or another one stopped while the request was under way.
DropAnswer(t) ==
  /\ Answered(t, {"ok", "unauthorized"}) /\ ~Allowed(t)
  /\ Settle(t, "refresh", Stop(tab[t]))
  /\ UNCHANGED <<vars, stopKey, notices, excused>>

\* 401: the session is over, in every tab.
HearRefusal(t) ==
  /\ Answered(t, {"unauthorized"}) /\ Allowed(t)
  /\ Settle(t, "refresh", Stop(tab[t]))
  /\ Publish(t)
  /\ UNCHANGED <<vars, excused>>

\* The network fails, the server does, or the body cannot be read: the
\* credential may be consumed, and every tab stops unless this one had.
RefreshFails(t) ==
  /\ Waits(t, "refresh") /\ ~Answered(t, {"unauthorized"})
  /\ Settle(t, "refresh", Stop(tab[t]))
  /\ IF tab[t].stopped
     THEN /\ excused' = excused \cup Underway({f.request : f \in Under(t, "refresh")})
          /\ UNCHANGED <<stopKey, notices>>
     ELSE Publish(t) /\ UNCHANGED excused
  /\ UNCHANGED vars

\* 204 or an error: the page has stopped either way.
LogoutEnds(t) ==
  /\ Waits(t, "logout")
  /\ Settle(t, "logout", tab[t])
  /\ UNCHANGED <<vars, stopKey, notices, excused>>

\* apiFetch: the API refused the token that a refresh had just brought.
ApiRefuses(t) ==
  /\ Allowed(t) /\ tab[t].access
  /\ tab' = [tab EXCEPT ![t] = Stop(@)]
  /\ Publish(t)
  /\ UNCHANGED <<vars, flights, excused>>

-----------------------------------------------------------------------------
\* The browser takes cookies only from answers that somebody waits for.  Of the
\* other requests, what counts is what they do to the tables; a server error is a
\* fetch that fails.
Awaited(r) == (\E f \in flights : f.request = r) \/ \E t \in Tabs : tab[t].visit = r
Matters(r) ==
  /\ Awaited(r) \/ <<session, token>>' # <<session, token>>
  /\ request'[r].outcome # "internal"

Server ==
  /\ \E r \in Requests :
       \/ Handle(r) /\ Matters(r)
       \/ Awaited(r) /\ Receive(r)
  /\ UNCHANGED tabVars

\* Time passes: the session and its cookie reach their deadline.
TimePasses ==
  /\ Tick \/ Cleanup \/ \E b \in Browsers : DropCookie(b)
  /\ UNCHANGED tabVars

\* Which of the unused records stands for the next request does not matter.
Unused == {r \in Requests : request[r].phase = "unused"}

PageStep(t) == Load(t) \/ Unload(t) \/ Hear(t) \/ LogIn(t)

CoordinatorStep(t) ==
  \/ FindStopKey(t) \/ Refresh(t) \/ LogOut(t) \/ CancelRefresh(t)
  \/ TakeToken(t) \/ DropAnswer(t) \/ HearRefusal(t) \/ RefreshFails(t)
  \/ LogoutEnds(t) \/ ApiRefuses(t)

Ask(t, r, b) ==
  \/ SendRefresh(t, r, b)
  \/ SendLogout(t, r, b)
  \/ \E user \in Users : SignIn(t, r, b, user)

TabsNext ==
  \/ \E t \in Tabs : PageStep(t) \/ CoordinatorStep(t)
  \/ Unused # {} /\ \E t \in Tabs, b \in Browsers : Ask(t, CHOOSE r \in Unused : TRUE, b)
  \/ Server
  \/ TimePasses

TabsSpec == TabsInit /\ [][TabsNext]_allVars

-----------------------------------------------------------------------------
\* However many tabs refresh with the one cookie, none of them makes the server
\* see a credential twice and revoke the session, not even after a refresh that
\* failed in doubt: that takes a logout, a page that was closed or told to stop
\* while it waited, or a sign-in begun since (the Web Lock and the catch of
\* AuthCoordinator.refresh).
TabsKeepTheSession ==
  \A h \in DOMAIN token :
    Known(h) /\ session[token[h].session].revoked =>
      \E r \in Requests :
        SameLogin(h, request[r].credential) /\ (LoggedOut(r) \/ r \in excused)

\* From a sign-out, a refusal or a refresh in doubt until somebody signs in, no
\* tab sends a refresh and none comes by a token, whichever were queued or
\* under way and whether or not the notice has reached them.
StoppedStaysStopped == [][
  stopKey =>
    /\ \A r \in Requests : request[r].phase = "unused" => request'[r].kind # "refresh"
    /\ \A t \in Tabs : tab'[t].access => tab[t].access]_allVars
=============================================================================
