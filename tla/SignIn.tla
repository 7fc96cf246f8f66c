------------------------------- MODULE SignIn -------------------------------
(***************************************************************************)
(* Signing in with Google: the bounded table of login attempts             *)
(* (auth/transactions.rs), the two handlers of routes/auth.rs around it    *)
(* and the cached signing keys that verify what Google vouches for         *)
(* (auth/google.rs).                                                       *)
(*                                                                         *)
(* An attempt's number stands for its state, its nonce and its binding,    *)
(* three random values made together.  A request carries the login cookie  *)
(* of the moment, and its answer sets or removes the cookie when it        *)
(* arrives, in any order.  A handler is dropped when its client hangs up.  *)
(* The key cache is locked from the lookup to the end of the fetch.        *)
(*                                                                         *)
(* The session a login ends with is CreateSession of RefreshSessions.      *)
(***************************************************************************)
EXTENDS Integers, FiniteSets

CONSTANTS
  Browsers,      \* cookie jars
  Slots,         \* requests under way at a time
  Keys,          \* signing keys Google may use
  MaxAttempts,   \* bound on the login attempts
  Capacity,      \* size of the table
  LoginSeconds,  \* lifetime of an attempt: 600 in the code
  TokenSeconds,  \* lifetime of an ID token
  MaxTtl,        \* longest lifetime Google gives its keys
  Gap,           \* seconds between two fetches: 5 in the code
  MaxTime        \* bound on the clock

ASSUME SignInAssumption ==
  /\ MaxAttempts \in Nat /\ Capacity \in Nat \ {0}
  /\ LoginSeconds \in Nat \ {0} /\ TokenSeconds \in Nat \ {0}
  /\ MaxTtl \in Nat /\ Gap \in Nat \ {0} /\ MaxTime \in Nat

VARIABLES
  attempts,   \* Transactions.attempts: when each expires
  cookie,     \* the login cookie of every browser: the attempt it is bound to
  made,       \* attempts made so far
  owner,      \* history: the browser that started each
  request,    \* the requests under way
  cache,      \* Google's KeyCache
  reached,    \* history: the last fetch of the keys got through
  published,  \* the key Google signs with and publishes
  now         \* the server's clock in seconds

vars == <<attempts, cookie, made, owner, request, cache, reached, published, now>>

Attempts == 1..MaxAttempts
NoAttempt == 0
Never == -1
Times == 0..MaxTime

\* What a request knows on its way: the login cookie that was sent with it
\* (bound), the state of a callback or the attempt a start has made, and the
\* clock reading the keys are judged by (asked).
Free == [phase |-> "free"]
Request ==
  [phase: {"start"}, browser: Browsers, bound: Attempts \cup {NoAttempt}] \cup
  [phase: {"callback"}, browser: Browsers, bound: Attempts \cup {NoAttempt}, attempt: Attempts] \cup
  [phase: {"exchange"}, browser: Browsers] \cup
  [phase: {"keys", "fetch"}, browser: Browsers, key: Keys, expires: Nat, asked: Times] \cup
  [phase: {"started"}, browser: Browsers, outcome: {"ok", "full"}, attempt: Attempts \cup {NoAttempt}] \cup
  [phase: {"ended"}, browser: Browsers,
   outcome: {"ok", "denied", "unknown_key", "unavailable", "internal"}]
KeyCache == [keys: SUBSET Keys, expires: Nat, last: Times \cup {Never}, failed: BOOLEAN]

TypeOK ==
  /\ DOMAIN attempts \subseteq 1..made /\ attempts \in [DOMAIN attempts -> Nat]
  /\ Cardinality(DOMAIN attempts) <= Capacity
  /\ cookie \in [Browsers -> 0..made]
  /\ made \in 0..MaxAttempts
  /\ owner \in [1..made -> Browsers]
  /\ request \in [Slots -> Request \cup {Free}]
  /\ cache \in KeyCache /\ reached \in BOOLEAN
  /\ published \in Keys
  /\ now \in Times

Init ==
  /\ attempts = <<>> /\ made = 0 /\ owner = <<>>
  /\ cookie = [b \in Browsers |-> NoAttempt]
  /\ request = [r \in Slots |-> Free]
  /\ cache = [keys |-> {}, expires |-> 0, last |-> Never, failed |-> FALSE]
  /\ reached = FALSE
  /\ published \in Keys
  /\ now = 0

-----------------------------------------------------------------------------
(* The browser.                                                            *)

Send(r, q) ==
  /\ request[r] = Free
  /\ request' = [request EXCEPT ![r] = q]
  /\ UNCHANGED <<attempts, cookie, made, owner, cache, reached, published, now>>

GoToStart(r, b) == Send(r, [phase |-> "start", browser |-> b, bound |-> cookie[b]])

\* Whoever has the address of a callback may open it, in any browser and again.
OpenCallback(r, b, a) ==
  Send(r, [phase |-> "callback", browser |-> b, bound |-> cookie[b], attempt |-> a])

\* The answer of a start sets the cookie; every answer of a callback that
\* consumed its attempt removes the cookie the browser has by then.
Receive(r) ==
  LET q == request[r] IN
  /\ q.phase \in {"started", "ended"}
  /\ cookie' = IF q.phase = "ended" THEN [cookie EXCEPT ![q.browser] = NoAttempt]
               ELSE IF q.outcome = "ok" THEN [cookie EXCEPT ![q.browser] = q.attempt]
               ELSE cookie
  /\ request' = [request EXCEPT ![r] = Free]
  /\ UNCHANGED <<attempts, made, owner, cache, reached, published, now>>

\* Max-Age ran out: the browser forgets the cookie of an attempt that expired.
DropCookie(b) ==
  /\ cookie[b] # NoAttempt
  /\ cookie[b] \in DOMAIN attempts => attempts[cookie[b]] <= now
  /\ cookie' = [cookie EXCEPT ![b] = NoAttempt]
  /\ UNCHANGED <<attempts, made, owner, request, cache, reached, published, now>>

-----------------------------------------------------------------------------
(* The table of attempts.                                                  *)

Started(r, outcome, a) ==
  request' = [request EXCEPT ![r] =
    [phase |-> "started", browser |-> @.browser, outcome |-> outcome, attempt |-> a]]

Keep(as) == [a \in as |-> attempts[a]]
Alive == {a \in DOMAIN attempts : attempts[a] > now}

\* Mutant: the table is found full before anything was reclaimed.
StartFull(r) ==
  LET q == request[r] IN
  /\ q.phase = "start"
  /\ Cardinality(DOMAIN attempts) >= Capacity
  /\ attempts' = Keep(Alive \ {q.bound})
  /\ Started(r, "full", NoAttempt)
  /\ UNCHANGED <<cookie, made, owner, cache, reached, published, now>>

\* start: what expired and the browser's old attempt are reclaimed, whether or
\* not there is room then.
Full(r) ==
  LET q == request[r] IN
  /\ q.phase = "start"
  /\ attempts' = Keep(Alive \ {q.bound})
  /\ Cardinality(DOMAIN attempts') >= Capacity
  /\ Started(r, "full", NoAttempt)
  /\ UNCHANGED <<cookie, made, owner, cache, reached, published, now>>

Start(r) ==
  LET q == request[r]
      kept == Alive \ {q.bound}
      a == made + 1
  IN
  /\ q.phase = "start"
  /\ Cardinality(kept) < Capacity
  /\ a \in Attempts
  /\ made' = a
  /\ owner' = [x \in 1..a |-> IF x = a THEN q.browser ELSE owner[x]]
  /\ attempts' = [x \in kept \cup {a} |-> IF x = a THEN now + LoginSeconds ELSE attempts[x]]
  /\ Started(r, "ok", a)
  /\ UNCHANGED <<cookie, cache, reached, published, now>>

\* Mutant: whoever has the state may consume the attempt.
ConsumeUnbound(r) ==
  LET q == request[r] IN
  /\ q.phase = "callback"
  /\ q.attempt \in Alive /\ q.bound # NoAttempt
  /\ attempts' = Keep(Alive \ {q.attempt})
  /\ request' = [request EXCEPT ![r] = [phase |-> "exchange", browser |-> q.browser]]
  /\ UNCHANGED <<cookie, made, owner, cache, reached, published, now>>

\* consume: checked against the binding, then removed, under one lock.
Consume(r) ==
  LET q == request[r] IN
  /\ q.phase = "callback"
  /\ q.attempt \in Alive /\ q.bound = q.attempt
  /\ attempts' = Keep(Alive \ {q.attempt})
  /\ request' = [request EXCEPT ![r] = [phase |-> "exchange", browser |-> q.browser]]
  /\ UNCHANGED <<cookie, made, owner, cache, reached, published, now>>

\* 400: the cookie is left alone.
RefuseCallback(r) ==
  LET q == request[r] IN
  /\ q.phase = "callback"
  /\ q.attempt \notin Alive \/ q.bound # q.attempt
  /\ attempts' = IF q.bound = NoAttempt THEN attempts ELSE Keep(Alive)
  /\ request' = [request EXCEPT ![r] = Free]
  /\ UNCHANGED <<cookie, made, owner, cache, reached, published, now>>

-----------------------------------------------------------------------------
(* Google.                                                                 *)

End(r, outcome) ==
  request' = [request EXCEPT ![r] =
    [phase |-> "ended", browser |-> @.browser, outcome |-> outcome]]

\* Google says no, answers nonsense or does not answer: the user declined, the
\* code is no good, or the exchange failed.
ExchangeFails(r) ==
  /\ request[r].phase = "exchange"
  /\ \E outcome \in {"denied", "unavailable"} : End(r, outcome)
  /\ UNCHANGED <<attempts, cookie, made, owner, cache, reached, published, now>>

\* The code is exchanged for an ID token of some age, signed with the key of
\* the moment, and the clock is read before the cache is locked.
Exchange(r) ==
  /\ request[r].phase = "exchange"
  /\ \E life \in 0..TokenSeconds :
       request' = [request EXCEPT ![r] =
         [phase |-> "keys", browser |-> @.browser, key |-> published,
          expires |-> now + life, asked |-> now]]
  /\ UNCHANGED <<attempts, cookie, made, owner, cache, reached, published, now>>

Locked == \E r \in Slots : request[r].phase = "fetch"

\* Mutant: the token is judged by the clock reading of before the keys.
VerifyAsAsked(r) ==
  IF request[r].expires > request[r].asked
  THEN \E outcome \in {"ok", "internal"} : End(r, outcome)
  ELSE End(r, "denied")

\* The signature and the claims, by the clock as it is once the keys are there;
\* then the account and its session, which storage may refuse.
Verify(r) ==
  IF request[r].expires > now
  THEN \E outcome \in {"ok", "internal"} : End(r, outcome)
  ELSE End(r, "denied")

\* keys: the cached ones will do.
UseCachedKeys(r) ==
  LET q == request[r] IN
  /\ q.phase = "keys" /\ ~Locked
  /\ cache.expires > q.asked /\ q.key \in cache.keys
  /\ Verify(r)
  /\ UNCHANGED <<attempts, cookie, made, owner, cache, reached, published, now>>

Throttled(q) == cache.last # Never /\ q.asked - cache.last < Gap

\* keys: they will not do, and they were asked for a moment ago.
TooSoon(r) ==
  LET q == request[r] IN
  /\ q.phase = "keys" /\ ~Locked
  /\ cache.expires <= q.asked \/ q.key \notin cache.keys
  /\ Throttled(q)
  /\ End(r, IF cache.failed \/ cache.expires <= q.asked THEN "unavailable" ELSE "unknown_key")
  /\ UNCHANGED <<attempts, cookie, made, owner, cache, reached, published, now>>

\* keys: the fetch begins, taken for failed until it succeeds.
BeginFetch(r) ==
  LET q == request[r] IN
  /\ q.phase = "keys" /\ ~Locked
  /\ cache.expires <= q.asked \/ q.key \notin cache.keys
  /\ ~Throttled(q)
  /\ cache' = [cache EXCEPT !.last = q.asked, !.failed = TRUE]
  /\ reached' = FALSE
  /\ request' = [request EXCEPT ![r].phase = "fetch"]
  /\ UNCHANGED <<attempts, cookie, made, owner, published, now>>

\* cache_ttl: zero without max-age or with no-store, else what is left of it.
FetchSucceeds(r) ==
  LET q == request[r] IN
  /\ q.phase = "fetch"
  /\ \E ttl \in 0..MaxTtl :
       cache' = [cache EXCEPT !.keys = {published}, !.expires = q.asked + ttl, !.failed = FALSE]
  /\ reached' = TRUE
  /\ IF q.key = published THEN Verify(r) ELSE End(r, "unknown_key")
  /\ UNCHANGED <<attempts, cookie, made, owner, published, now>>

FetchFails(r) ==
  /\ request[r].phase = "fetch"
  /\ End(r, "unavailable")
  /\ UNCHANGED <<attempts, cookie, made, owner, cache, reached, published, now>>

\* The client hung up: the handler is dropped where it waits, and the lock
\* with it; or the answer is lost.
HangUp(r) ==
  /\ request[r].phase # "free"
  /\ request' = [request EXCEPT ![r] = Free]
  /\ UNCHANGED <<attempts, cookie, made, owner, cache, reached, published, now>>

\* Google moves on to another key.
RotateKeys ==
  /\ published' \in Keys \ {published}
  /\ UNCHANGED <<attempts, cookie, made, owner, request, cache, reached, now>>

Tick ==
  /\ now < MaxTime
  /\ now' = now + 1
  /\ UNCHANGED <<attempts, cookie, made, owner, request, cache, reached, published>>

Browse(b) ==
  \/ \E r \in Slots : GoToStart(r, b) \/ \E a \in 1..made : OpenCallback(r, b, a)
  \/ DropCookie(b)

Handle(r) ==
  \/ Start(r) \/ Full(r) \/ Consume(r) \/ RefuseCallback(r)
  \/ Exchange(r) \/ ExchangeFails(r)
  \/ UseCachedKeys(r) \/ TooSoon(r) \/ BeginFetch(r) \/ FetchSucceeds(r) \/ FetchFails(r)

Next ==
  \/ \E b \in Browsers : Browse(b)
  \/ \E r \in Slots : Handle(r) \/ Receive(r) \/ HangUp(r)
  \/ RotateKeys
  \/ Tick

Spec == Init /\ [][Next]_vars

-----------------------------------------------------------------------------
Becomes(r, phase) == request[r].phase # phase /\ request'[r].phase = phase
Ends(r, phase, outcome) == Becomes(r, phase) /\ request'[r].outcome = outcome

\* An attempt that has not expired leaves the table only through a request of
\* the browser that started it, and a callback that gets past the check had a
\* live attempt of its own browser and used it up: a callback in the wrong
\* browser, twice or late neither goes on nor spoils the login of another.
AttemptsServeTheirBrowser == [][
  /\ \A a \in Alive \ DOMAIN attempts' :
       \E r \in Slots : /\ Becomes(r, "started") \/ Becomes(r, "exchange")
                       /\ request[r].browser = owner[a]
  /\ \A r \in Slots : Becomes(r, "exchange") =>
       LET a == request[r].attempt IN
       a \in Alive /\ owner[a] = request[r].browser /\ a \notin DOMAIN attempts']_vars

\* A start is refused only while a full table of attempts that have not
\* expired is left, none of them the one its cookie names: abandoned attempts
\* hold the table for their lifetime at most, and nobody is kept out by their
\* own.
NeverLockedOut == [][
  \A r \in Slots : Ends(r, "started", "full") =>
    Cardinality(Alive \ {request[r].bound}) >= Capacity]_vars

\* A login is blamed for an unknown signing key only when the last fetch got
\* Google's keys and hers was not there, never because a fetch failed or was
\* abandoned half-way; and it is accepted only while its token is still valid,
\* with a key that Google has published, however long the keys took to come.
VerdictsAreTrue == [][
  \A r \in Slots :
    /\ Ends(r, "ended", "unknown_key") => reached' /\ request[r].key \notin cache'.keys
    /\ Ends(r, "ended", "ok") => request[r].key \in cache'.keys /\ request[r].expires > now]_vars
=============================================================================
