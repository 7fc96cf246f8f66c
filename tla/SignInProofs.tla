---------------------------- MODULE SignInProofs ----------------------------
(***************************************************************************)
(* Theorems about SignIn, for every number of browsers, requests, keys and *)
(* attempts, every size of the table and all lifetimes.                    *)
(***************************************************************************)
EXTENDS SignIn, FiniteSetTheorems, TLAPS

-----------------------------------------------------------------------------
(* The inductive invariant.                                                *)

\* Every cookie, sent or about to be set, names an attempt of its own browser:
\* start binds an attempt to the answer that carries its cookie, and nothing
\* else sets one.
OwnAttempt(b, a) == a # NoAttempt => a \in 1..made /\ owner[a] = b

Owned ==
  /\ \A b \in Browsers : OwnAttempt(b, cookie[b])
  /\ \A r \in Slots :
       LET q == request[r] IN
       /\ q.phase \in {"start", "callback"} => OwnAttempt(q.browser, q.bound)
       /\ q.phase = "started" => OwnAttempt(q.browser, q.attempt)

\* The cache's flag and the history agree from the first fetch on.
FailureRecorded == cache.last # Never => (reached <=> ~cache.failed)

IInv == TypeOK /\ Owned /\ FailureRecorded

-----------------------------------------------------------------------------
(* The table of attempts.                                                  *)

\* A set that fits leaves room for its subsets.
LEMMA SubsetFits ==
  ASSUME NEW S, NEW T, IsFiniteSet(T), S \subseteq T, NEW n \in Nat, Cardinality(T) <= n
  PROVE  IsFiniteSet(S) /\ Cardinality(S) \in Nat /\ Cardinality(S) <= n
<1>1. IsFiniteSet(S) /\ Cardinality(S) <= Cardinality(T)
  BY FS_Subset
<1>2. Cardinality(S) \in Nat /\ Cardinality(T) \in Nat
  BY <1>1, FS_CardinalityType
<1>. QED
  BY <1>1, <1>2

\* One more element fits wherever there was room.
LEMMA RoomForOne ==
  ASSUME NEW S, NEW x, IsFiniteSet(S), NEW n \in Nat, Cardinality(S) < n
  PROVE  Cardinality(S \cup {x}) <= n
<1>1. Cardinality(S) \in Nat
  BY FS_CardinalityType
<1>2. CASE x \in S
  <2>1. S \cup {x} = S
    BY <1>2
  <2>. QED
    BY <1>1, <2>1
<1>3. CASE x \notin S
  <2>1. Cardinality(S \cup {x}) = Cardinality(S) + 1
    BY <1>3, FS_AddElement
  <2>. QED
    BY <1>1, <2>1
<1>. QED
  BY <1>2, <1>3

\* Reclaiming rows keeps the table well-formed and within its capacity.
LEMMA KeepType ==
  ASSUME TypeOK, NEW as, as \subseteq DOMAIN attempts
  PROVE  /\ DOMAIN Keep(as) = as
         /\ Keep(as) \in [as -> Nat]
         /\ IsFiniteSet(as)
         /\ Cardinality(as) <= Capacity
<1>1. IsFiniteSet(1..made)
  <2>1. 1 \in Int /\ made \in Int
    BY SignInAssumption DEF TypeOK
  <2>. QED
    BY <2>1, FS_Interval
<1>2. IsFiniteSet(DOMAIN attempts)
  BY <1>1, FS_Subset DEF TypeOK
<1>3. Capacity \in Nat /\ Cardinality(DOMAIN attempts) <= Capacity
  BY SignInAssumption DEF TypeOK
<1>4. IsFiniteSet(as) /\ Cardinality(as) <= Capacity
  BY <1>2, <1>3, SubsetFits
<1>5. Keep(as) \in [as -> Nat] /\ DOMAIN Keep(as) = as
  BY DEF Keep, TypeOK
<1>. QED
  BY <1>4, <1>5

-----------------------------------------------------------------------------
(* The requests.                                                           *)

\* A step that replaces one request leaves the others alone.
LEMMA ReplaceEffect ==
  ASSUME TypeOK, NEW r \in Slots, NEW q \in Request \cup {Free},
         request' = [request EXCEPT ![r] = q]
  PROVE  /\ request' \in [Slots -> Request \cup {Free}]
         /\ request'[r] = q
         /\ \A x \in Slots \ {r} : request'[x] = request[x]
BY DEF TypeOK

\* A request under way knows its browser.
LEMMA UnderWay ==
  ASSUME TypeOK, NEW r \in Slots, request[r].phase # "free"
  PROVE  request[r] \in Request /\ request[r].browser \in Browsers
<1>1. request[r] \in Request \cup {Free}
  BY DEF TypeOK
<1>2. request[r] # Free
  BY DEF Free
<1>3. request[r] \in Request
  BY <1>1, <1>2
<1>. QED
  BY <1>3 DEF Request

\* What a login request that has made its attempt, or a callback, carries.
LEMMA Carried ==
  ASSUME TypeOK, NEW r \in Slots
  PROVE  /\ request[r].phase \in {"start", "callback"}
              => request[r].bound \in Attempts \cup {NoAttempt}
         /\ request[r].phase = "callback" => request[r].attempt \in Attempts
         /\ request[r].phase = "started" => request[r].attempt \in Attempts \cup {NoAttempt}
         /\ request[r].phase \in {"keys", "fetch"}
              => request[r].key \in Keys /\ request[r].expires \in Nat /\ request[r].asked \in Times
<1>1. request[r] \in Request \cup {Free}
  BY DEF TypeOK
<1>. QED
  BY <1>1 DEF Request, Free

\* The end of a login, whatever its outcome.
LEMMA EndEffect ==
  ASSUME TypeOK, NEW r \in Slots, request[r].phase # "free",
         NEW outcome \in {"ok", "denied", "unknown_key", "unavailable", "internal"},
         End(r, outcome)
  PROVE  /\ request' \in [Slots -> Request \cup {Free}]
         /\ request'[r] = [phase |-> "ended", browser |-> request[r].browser,
                           outcome |-> outcome]
         /\ \A x \in Slots \ {r} : request'[x] = request[x]
<1>. DEFINE q == [phase |-> "ended", browser |-> request[r].browser, outcome |-> outcome]
<1>1. q \in Request
  BY UnderWay DEF Request
<1>2. request' = [request EXCEPT ![r] = q]
  BY DEF End
<1>. HIDE DEF q
<1>3. /\ request' \in [Slots -> Request \cup {Free}]
      /\ request'[r] = q
      /\ \A x \in Slots \ {r} : request'[x] = request[x]
  BY <1>1, <1>2, ReplaceEffect
<1>. QED
  BY <1>3 DEF q

\* Such a step leaves nothing of the login but its answer.
LEMMA EndLeaves ==
  ASSUME TypeOK, NEW r \in Slots, request[r].phase # "free",
         \E outcome \in {"ok", "denied", "unknown_key", "unavailable", "internal"} : End(r, outcome)
  PROVE  /\ request' \in [Slots -> Request \cup {Free}]
         /\ request'[r].phase = "ended"
         /\ \A x \in Slots \ {r} : request'[x] = request[x]
<1>1. PICK outcome \in {"ok", "denied", "unknown_key", "unavailable", "internal"} :
        End(r, outcome)
  OBVIOUS
<1>2. /\ request' \in [Slots -> Request \cup {Free}]
      /\ request'[r] = [phase |-> "ended", browser |-> request[r].browser,
                        outcome |-> outcome]
      /\ \A x \in Slots \ {r} : request'[x] = request[x]
  BY <1>1, EndEffect
<1>. QED
  BY <1>2

\* The answer of a start, whatever its outcome.
LEMMA StartedEffect ==
  ASSUME TypeOK, NEW r \in Slots, request[r].phase # "free",
         NEW outcome \in {"ok", "full"}, NEW a \in Attempts \cup {NoAttempt},
         Started(r, outcome, a)
  PROVE  /\ request' \in [Slots -> Request \cup {Free}]
         /\ request'[r] = [phase |-> "started", browser |-> request[r].browser,
                           outcome |-> outcome, attempt |-> a]
         /\ \A x \in Slots \ {r} : request'[x] = request[x]
<1>. DEFINE q == [phase |-> "started", browser |-> request[r].browser,
                  outcome |-> outcome, attempt |-> a]
<1>1. q \in Request
  BY UnderWay DEF Request
<1>2. request' = [request EXCEPT ![r] = q]
  BY DEF Started
<1>. HIDE DEF q
<1>3. /\ request' \in [Slots -> Request \cup {Free}]
      /\ request'[r] = q
      /\ \A x \in Slots \ {r} : request'[x] = request[x]
  BY <1>1, <1>2, ReplaceEffect
<1>. QED
  BY <1>3 DEF q

\* The verdict on a token ends the login, and accepts it only while the token
\* is valid.
LEMMA VerifyEffect ==
  ASSUME TypeOK, NEW r \in Slots, request[r].phase # "free", Verify(r)
  PROVE  \E outcome \in {"ok", "denied", "internal"} :
           /\ End(r, outcome)
           /\ outcome = "ok" => request[r].expires > now
BY DEF Verify

-----------------------------------------------------------------------------
(* The invariant is inductive.                                             *)

LEMMA InvariantInit == Init => IInv
<1>. SUFFICES ASSUME Init PROVE IInv
  OBVIOUS
<1>1. DOMAIN attempts = {} /\ Cardinality({}) = 0
  BY FS_EmptySet DEF Init
<1>2. TypeOK
  <2>1. Cardinality(DOMAIN attempts) <= Capacity
    BY <1>1, SignInAssumption
  <2>2. attempts \in [DOMAIN attempts -> Nat] /\ DOMAIN attempts \subseteq 1..made
    BY <1>1 DEF Init
  <2>3. owner \in [1..made -> Browsers]
    BY DEF Init
  <2>4. request \in [Slots -> Request \cup {Free}]
    BY DEF Init
  <2>5. cache \in KeyCache /\ reached \in BOOLEAN
    BY DEF Init, KeyCache
  <2>. QED
    BY <2>1, <2>2, <2>3, <2>4, <2>5, SignInAssumption DEF Init, TypeOK, Times, NoAttempt
<1>3. Owned
  BY DEF Init, Owned, OwnAttempt, Free
<1>4. FailureRecorded
  BY DEF Init, FailureRecorded
<1>. QED
  BY <1>2, <1>3, <1>4 DEF IInv

\* A step of a login after its start: rows may leave the table, the key cache
\* may change, and the request holds no attempt any more.
LEMMA LoginStep ==
  ASSUME IInv, NEW r \in Slots,
         NEW as, as \subseteq DOMAIN attempts, attempts' = Keep(as),
         UNCHANGED <<cookie, made, owner, published, now>>,
         cache' \in KeyCache, reached' \in BOOLEAN, FailureRecorded',
         request' \in [Slots -> Request \cup {Free}],
         \A x \in Slots \ {r} : request'[x] = request[x],
         request'[r].phase \notin {"start", "callback", "started"}
  PROVE  IInv'
<1>1. TypeOK'
  <2>1. /\ DOMAIN attempts' = as
        /\ attempts' \in [DOMAIN attempts' -> Nat]
        /\ Cardinality(DOMAIN attempts') <= Capacity
    BY KeepType DEF IInv
  <2>. QED
    BY <2>1 DEF IInv, TypeOK
<1>2. Owned'
  <2>1. \A b, a : OwnAttempt(b, a)' <=> OwnAttempt(b, a)
    BY DEF OwnAttempt
  <2>. QED
    BY <2>1 DEF IInv, Owned, OwnAttempt
<1>. QED
  BY <1>1, <1>2 DEF IInv

\* Nothing reclaimed: every row is kept.
LEMMA KeepAll == ASSUME TypeOK PROVE attempts = Keep(DOMAIN attempts)
BY DEF Keep, TypeOK

LEMMA SendStep ==
  ASSUME IInv, NEW r \in Slots, NEW b \in Browsers,
         GoToStart(r, b) \/ \E a \in 1..made : OpenCallback(r, b, a)
  PROVE  IInv'
<1>1. cookie[b] \in Attempts \cup {NoAttempt} /\ OwnAttempt(b, cookie[b])
  BY SignInAssumption DEF IInv, TypeOK, Owned, Attempts, NoAttempt
<1>2. PICK q \in Request :
        /\ request' = [request EXCEPT ![r] = q]
        /\ q.phase \in {"start", "callback"} /\ q.browser = b /\ q.bound = cookie[b]
        /\ UNCHANGED <<attempts, cookie, made, owner, cache, reached, published, now>>
  <2>1. CASE GoToStart(r, b)
    <3>1. [phase |-> "start", browser |-> b, bound |-> cookie[b]] \in Request
      BY <1>1 DEF Request
    <3>. QED
      BY <2>1, <3>1 DEF GoToStart, Send
  <2>2. ASSUME NEW a \in 1..made, OpenCallback(r, b, a)
        PROVE  \E q \in Request :
                 /\ request' = [request EXCEPT ![r] = q]
                 /\ q.phase \in {"start", "callback"} /\ q.browser = b /\ q.bound = cookie[b]
                 /\ UNCHANGED <<attempts, cookie, made, owner, cache, reached, published, now>>
    <3>1. a \in Attempts
      BY SignInAssumption DEF IInv, TypeOK, Attempts
    <3>2. [phase |-> "callback", browser |-> b, bound |-> cookie[b], attempt |-> a] \in Request
      BY <1>1, <3>1 DEF Request
    <3>. QED
      BY <2>2, <3>2 DEF OpenCallback, Send
  <2>. QED
    BY <2>1, <2>2
<1>3. /\ request' \in [Slots -> Request \cup {Free}]
      /\ request'[r] = q
      /\ \A x \in Slots \ {r} : request'[x] = request[x]
  BY <1>2, ReplaceEffect DEF IInv
<1>4. TypeOK'
  BY <1>2, <1>3 DEF IInv, TypeOK
<1>5. Owned'
  BY <1>1, <1>2, <1>3 DEF IInv, Owned, OwnAttempt
<1>. QED
  BY <1>2, <1>4, <1>5 DEF IInv, FailureRecorded

LEMMA ReceiveStep == ASSUME IInv, NEW r \in Slots, Receive(r) PROVE IInv'
<1>1. request[r].phase \in {"started", "ended"}
  BY DEF Receive
<1>2. /\ request' \in [Slots -> Request \cup {Free}]
      /\ request'[r] = Free
      /\ \A x \in Slots \ {r} : request'[x] = request[x]
  BY ReplaceEffect DEF IInv, Receive
<1>3. request[r].browser \in Browsers
  BY <1>1, UnderWay DEF IInv
<1>4. /\ cookie' \in [Browsers -> 0..made]
      /\ \A b \in Browsers : OwnAttempt(b, cookie'[b])
  <2>1. CASE cookie' = [cookie EXCEPT ![request[r].browser] = NoAttempt]
    <3>1. NoAttempt \in 0..made /\ \A b : OwnAttempt(b, NoAttempt)
      BY SignInAssumption DEF IInv, TypeOK, NoAttempt, OwnAttempt
    <3>. QED
      BY <2>1, <3>1 DEF IInv, TypeOK, Owned
  <2>2. CASE /\ request[r].phase = "started"
             /\ cookie' = [cookie EXCEPT ![request[r].browser] = request[r].attempt]
    <3>1. OwnAttempt(request[r].browser, request[r].attempt)
      BY <2>2 DEF IInv, Owned
    <3>2. request[r].attempt \in 0..made
      BY <3>1, SignInAssumption DEF OwnAttempt, NoAttempt, IInv, TypeOK
    <3>. QED
      BY <2>2, <3>1, <3>2, <1>3 DEF IInv, TypeOK, Owned
  <2>3. CASE cookie' = cookie
    BY <2>3 DEF IInv, TypeOK, Owned
  <2>4. CASE request[r].phase = "ended"
    <3>1. cookie' = [cookie EXCEPT ![request[r].browser] = NoAttempt]
      BY <2>4 DEF Receive
    <3>. QED
      BY <2>1, <3>1
  <2>5. CASE request[r].phase = "started" /\ request[r].outcome = "ok"
    <3>1. cookie' = [cookie EXCEPT ![request[r].browser] = request[r].attempt]
      BY <2>5 DEF Receive
    <3>. QED
      BY <2>2, <2>5, <3>1
  <2>6. CASE request[r].phase = "started" /\ request[r].outcome # "ok"
    <3>1. cookie' = cookie
      BY <2>6 DEF Receive
    <3>. QED
      BY <2>3, <3>1
  <2>. QED
    BY <1>1, <2>4, <2>5, <2>6
<1>5. TypeOK'
  BY <1>2, <1>4 DEF IInv, TypeOK, Receive
<1>6. Owned'
  <2>1. \A b, a : OwnAttempt(b, a)' <=> OwnAttempt(b, a)
    BY DEF OwnAttempt, Receive
  <2>. QED
    BY <1>2, <1>4, <2>1 DEF IInv, Owned, OwnAttempt, Free, Receive
<1>. QED
  BY <1>5, <1>6 DEF IInv, FailureRecorded, Receive

LEMMA DropCookieStep == ASSUME IInv, NEW b \in Browsers, DropCookie(b) PROVE IInv'
<1>1. TypeOK'
  BY SignInAssumption DEF IInv, TypeOK, DropCookie, NoAttempt
<1>2. Owned'
  BY DEF IInv, TypeOK, Owned, OwnAttempt, DropCookie, NoAttempt
<1>. QED
  BY <1>1, <1>2 DEF IInv, FailureRecorded, DropCookie

LEMMA FullStep == ASSUME IInv, NEW r \in Slots, Full(r) PROVE IInv'
<1>1. /\ request' \in [Slots -> Request \cup {Free}]
      /\ request'[r] = [phase |-> "started", browser |-> request[r].browser,
                        outcome |-> "full", attempt |-> NoAttempt]
      /\ \A x \in Slots \ {r} : request'[x] = request[x]
  BY StartedEffect DEF IInv, Full
<1>2. /\ DOMAIN attempts' \subseteq DOMAIN attempts
      /\ attempts' \in [DOMAIN attempts' -> Nat]
      /\ Cardinality(DOMAIN attempts') <= Capacity
  BY KeepType DEF IInv, Full, Alive
<1>3. TypeOK'
  BY <1>1, <1>2 DEF IInv, TypeOK, Full
<1>4. Owned'
  <2>1. \A b, a : OwnAttempt(b, a)' <=> OwnAttempt(b, a)
    BY DEF OwnAttempt, Full
  <2>2. OwnAttempt(request[r].browser, NoAttempt)
    BY DEF OwnAttempt
  <2>. QED
    BY <1>1, <2>1, <2>2 DEF IInv, Owned, Full
<1>. QED
  BY <1>3, <1>4 DEF IInv, FailureRecorded, Full

LEMMA StartStep == ASSUME IInv, NEW r \in Slots, Start(r) PROVE IInv'
<1>. DEFINE kept == Alive \ {request[r].bound}
            a == made + 1
<1>1. /\ request[r].phase = "start" /\ request[r].browser \in Browsers
      /\ a \in Attempts /\ a \in 1..a /\ made' = a
      /\ a \notin 1..made /\ 1..made \subseteq 1..a
  BY UnderWay, SignInAssumption, SMTT(30) DEF IInv, TypeOK, Start, Attempts
<1>2. /\ request' \in [Slots -> Request \cup {Free}]
      /\ request'[r] = [phase |-> "started", browser |-> request[r].browser,
                        outcome |-> "ok", attempt |-> a]
      /\ \A x \in Slots \ {r} : request'[x] = request[x]
  BY <1>1, StartedEffect DEF IInv, Start
<1>3. /\ owner' \in [1..a -> Browsers]
      /\ owner'[a] = request[r].browser
      /\ \A x \in 1..made : owner'[x] = owner[x]
  BY <1>1 DEF IInv, TypeOK, Start
<1>4. /\ DOMAIN attempts' = kept \cup {a} /\ kept \cup {a} \subseteq 1..a
      /\ attempts' \in [kept \cup {a} -> Nat]
      /\ Cardinality(kept \cup {a}) <= Capacity
  <2>1. kept \subseteq DOMAIN attempts
    BY DEF Alive
  <2>2. IsFiniteSet(kept) /\ Cardinality(kept) < Capacity /\ Capacity \in Nat
    BY <2>1, KeepType, SignInAssumption DEF IInv, Start
  <2>3. Cardinality(kept \cup {a}) <= Capacity
    BY <2>2, RoomForOne
  <2>4. now + LoginSeconds \in Nat /\ \A x \in kept : attempts[x] \in Nat
    BY <2>1, SignInAssumption DEF IInv, TypeOK, Times
  <2>5. attempts' = [x \in kept \cup {a} |-> IF x = a THEN now + LoginSeconds ELSE attempts[x]]
    BY DEF Start
  <2>6. DOMAIN attempts \subseteq 1..made
    BY DEF IInv, TypeOK
  <2>. HIDE DEF kept, a
  <2>. QED
    BY <1>1, <2>1, <2>3, <2>4, <2>5, <2>6
<1>5. TypeOK'
  <2>1. cookie' \in [Browsers -> 0..a]
    BY SignInAssumption DEF IInv, TypeOK, Start
  <2>2. a \in 0..MaxAttempts
    BY <1>1, SignInAssumption DEF Attempts
  <2>. HIDE DEF kept, a
  <2>. QED
    BY <1>1, <1>2, <1>3, <1>4, <2>1, <2>2 DEF IInv, TypeOK, Start
<1>6. Owned'
  <2>1. \A b, x : OwnAttempt(b, x) => OwnAttempt(b, x)'
    BY <1>1, <1>3 DEF OwnAttempt
  <2>2. \A b, x : b = request[r].browser /\ x = a => OwnAttempt(b, x)'
    BY <1>1, <1>3 DEF OwnAttempt
  <2>3. /\ request'[r].phase = "started" /\ request'[r].attempt = a
        /\ request'[r].browser = request[r].browser
    BY <1>2
  <2>4. cookie' = cookie
    BY DEF Start
  <2>. HIDE DEF a
  <2>5. \A b \in Browsers : OwnAttempt(b, cookie[b])'
    BY <2>1, <2>4 DEF IInv, Owned
  <2>6. ASSUME NEW x \in Slots
        PROVE  /\ request'[x].phase \in {"start", "callback"}
                    => OwnAttempt(request[x].browser, request[x].bound)'
               /\ request'[x].phase = "started"
                    => OwnAttempt(request[x].browser, request[x].attempt)'
    <3>1. CASE x = r
      BY <2>2, <2>3, <3>1
    <3>2. CASE x # r
      <4>1. request'[x] = request[x]
        BY <1>2, <3>2
      <4>. QED
        BY <2>1, <4>1 DEF IInv, Owned
    <3>. QED
      BY <3>1, <3>2
  <2>. QED
    BY <2>5, <2>6 DEF Owned
<1>. QED
  BY <1>5, <1>6 DEF IInv, FailureRecorded, Start

\* The steps of the callback before Google is asked.
LEMMA CallbackStep ==
  ASSUME IInv, NEW r \in Slots, Consume(r) \/ RefuseCallback(r)
  PROVE  IInv'
<1>1. request[r].phase = "callback" /\ request[r].browser \in Browsers
  BY UnderWay DEF IInv, Consume, RefuseCallback
<1>2. PICK q \in Request \cup {Free} :
        /\ request' = [request EXCEPT ![r] = q]
        /\ q.phase \in {"exchange", "free"}
  <2>1. [phase |-> "exchange", browser |-> request[r].browser] \in Request
    BY <1>1 DEF Request
  <2>. QED
    BY <2>1 DEF Consume, RefuseCallback, Free
<1>3. /\ request' \in [Slots -> Request \cup {Free}]
      /\ request'[r] = q
      /\ \A x \in Slots \ {r} : request'[x] = request[x]
  BY <1>2, ReplaceEffect DEF IInv
<1>4. PICK as : as \subseteq DOMAIN attempts /\ attempts' = Keep(as)
  BY KeepAll DEF Consume, RefuseCallback, Alive, IInv
<1>5. /\ UNCHANGED <<cookie, made, owner, published, now>>
      /\ cache' \in KeyCache /\ reached' \in BOOLEAN /\ FailureRecorded'
  BY DEF Consume, RefuseCallback, IInv, TypeOK, FailureRecorded
<1>. QED
  BY <1>2, <1>3, <1>4, <1>5, LoginStep

LEMMA ExchangeStep ==
  ASSUME IInv, NEW r \in Slots, Exchange(r) \/ ExchangeFails(r) \/ HangUp(r)
  PROVE  IInv'
<1>1. /\ request' \in [Slots -> Request \cup {Free}]
      /\ request'[r].phase \notin {"start", "callback", "started"}
      /\ \A x \in Slots \ {r} : request'[x] = request[x]
  <2>1. CASE Exchange(r)
    <3>1. PICK life \in 0..TokenSeconds :
            request' = [request EXCEPT ![r] =
              [phase |-> "keys", browser |-> request[r].browser, key |-> published,
               expires |-> now + life, asked |-> now]]
      BY <2>1 DEF Exchange
    <3>. DEFINE q == [phase |-> "keys", browser |-> request[r].browser, key |-> published,
                      expires |-> now + life, asked |-> now]
    <3>2. q \in Request /\ q.phase = "keys"
      <4>1. request[r].browser \in Browsers
        BY <2>1, UnderWay DEF IInv, Exchange
      <4>2. now + life \in Nat
        BY SignInAssumption DEF IInv, TypeOK, Times
      <4>. QED
        BY <4>1, <4>2 DEF Request, IInv, TypeOK
    <3>3. request' = [request EXCEPT ![r] = q]
      BY <3>1
    <3>. HIDE DEF q
    <3>. QED
      BY <3>2, <3>3, ReplaceEffect DEF IInv
  <2>2. CASE ExchangeFails(r)
    <3>1. PICK outcome \in {"denied", "unavailable"} : End(r, outcome)
      BY <2>2 DEF ExchangeFails
    <3>2. request[r].phase # "free"
      BY <2>2 DEF ExchangeFails
    <3>. QED
      BY <3>1, <3>2, EndLeaves DEF IInv
  <2>3. CASE HangUp(r)
    <3>1. request' = [request EXCEPT ![r] = Free] /\ Free \in Request \cup {Free}
      BY <2>3 DEF HangUp
    <3>2. /\ request' \in [Slots -> Request \cup {Free}]
          /\ request'[r] = Free
          /\ \A x \in Slots \ {r} : request'[x] = request[x]
      BY <3>1, ReplaceEffect DEF IInv
    <3>. QED
      BY <3>2 DEF Free
  <2>. QED
    BY <2>1, <2>2, <2>3
<1>2. /\ UNCHANGED <<attempts, cookie, made, owner, published, now>>
      /\ cache' \in KeyCache /\ reached' \in BOOLEAN /\ FailureRecorded'
  BY DEF Exchange, ExchangeFails, HangUp, IInv, TypeOK, FailureRecorded
<1>3. attempts' = Keep(DOMAIN attempts)
  BY <1>2, KeepAll DEF IInv
<1>. QED
  BY <1>1, <1>2, <1>3, LoginStep

\* The steps that answer a login from the keys that are there, or without any.
LEMMA AnswerStep ==
  ASSUME IInv, NEW r \in Slots, UseCachedKeys(r) \/ TooSoon(r) \/ FetchFails(r)
  PROVE  IInv'
<1>1. /\ request' \in [Slots -> Request \cup {Free}]
      /\ request'[r].phase \notin {"start", "callback", "started"}
      /\ \A x \in Slots \ {r} : request'[x] = request[x]
  <2>1. request[r].phase # "free"
    BY DEF UseCachedKeys, TooSoon, FetchFails
  <2>2. PICK outcome \in {"ok", "denied", "unknown_key", "unavailable", "internal"} :
          End(r, outcome)
    BY <2>1, VerifyEffect DEF UseCachedKeys, TooSoon, FetchFails, IInv
  <2>. QED
    BY <2>1, <2>2, EndLeaves DEF IInv
<1>2. /\ UNCHANGED <<attempts, cookie, made, owner, published, now>>
      /\ cache' \in KeyCache /\ reached' \in BOOLEAN /\ FailureRecorded'
  BY DEF UseCachedKeys, TooSoon, FetchFails, IInv, TypeOK, FailureRecorded
<1>3. attempts' = Keep(DOMAIN attempts)
  BY <1>2, KeepAll DEF IInv
<1>. QED
  BY <1>1, <1>2, <1>3, LoginStep

\* A fetch that begins is taken for failed.
LEMMA BeginFetchStep == ASSUME IInv, NEW r \in Slots, BeginFetch(r) PROVE IInv'
<1>1. /\ request[r].phase = "keys" /\ request[r] \in Request
      /\ request[r].key \in Keys /\ request[r].expires \in Nat /\ request[r].asked \in Times
      /\ request[r].browser \in Browsers
  BY UnderWay, Carried DEF IInv, BeginFetch
<1>2. /\ request' \in [Slots -> Request \cup {Free}]
      /\ request'[r].phase = "fetch"
      /\ \A x \in Slots \ {r} : request'[x] = request[x]
  <2>. DEFINE q == [request[r] EXCEPT !.phase = "fetch"]
  <2>1. request' = [request EXCEPT ![r] = q]
    BY DEF BeginFetch
  <2>2. request[r] \in [phase: {"keys", "fetch"}, browser: Browsers, key: Keys, expires: Nat,
                        asked: Times]
    BY <1>1 DEF Request
  <2>3. q \in Request /\ q.phase = "fetch"
    BY <2>2 DEF Request
  <2>. HIDE DEF q
  <2>. QED
    BY <2>1, <2>3, ReplaceEffect DEF IInv
<1>3. cache' \in KeyCache /\ reached' \in BOOLEAN /\ FailureRecorded'
  BY <1>1 DEF BeginFetch, IInv, TypeOK, KeyCache, FailureRecorded
<1>4. attempts' = Keep(DOMAIN attempts) /\ UNCHANGED <<cookie, made, owner, published, now>>
  BY KeepAll DEF IInv, BeginFetch
<1>. QED
  BY <1>2, <1>3, <1>4, LoginStep

LEMMA FetchSucceedsStep == ASSUME IInv, NEW r \in Slots, FetchSucceeds(r) PROVE IInv'
<1>1. request[r].phase = "fetch" /\ request[r].asked \in Times
  BY Carried DEF IInv, FetchSucceeds
<1>2. /\ request' \in [Slots -> Request \cup {Free}]
      /\ request'[r].phase \notin {"start", "callback", "started"}
      /\ \A x \in Slots \ {r} : request'[x] = request[x]
  <2>1. PICK outcome \in {"ok", "denied", "unknown_key", "unavailable", "internal"} :
          End(r, outcome)
    BY <1>1, VerifyEffect DEF FetchSucceeds, IInv
  <2>. QED
    BY <1>1, <2>1, EndLeaves DEF IInv
<1>3. cache' \in KeyCache /\ reached' \in BOOLEAN /\ FailureRecorded'
  <2>1. PICK ttl \in 0..MaxTtl :
          cache' = [cache EXCEPT !.keys = {published}, !.expires = request[r].asked + ttl,
                                 !.failed = FALSE]
    BY DEF FetchSucceeds
  <2>2. request[r].asked + ttl \in Nat /\ published \in Keys
    BY <1>1, SignInAssumption DEF Times, IInv, TypeOK
  <2>. QED
    BY <2>1, <2>2 DEF FetchSucceeds, IInv, TypeOK, KeyCache, FailureRecorded
<1>4. attempts' = Keep(DOMAIN attempts) /\ UNCHANGED <<cookie, made, owner, published, now>>
  BY KeepAll DEF IInv, FetchSucceeds
<1>. QED
  BY <1>2, <1>3, <1>4, LoginStep

LEMMA WorldStep == ASSUME IInv, RotateKeys \/ Tick \/ UNCHANGED vars PROVE IInv'
<1>1. UNCHANGED <<attempts, cookie, made, owner, request, cache, reached>>
  BY DEF RotateKeys, Tick, vars
<1>2. published' \in Keys /\ now' \in Times
  BY SignInAssumption DEF RotateKeys, Tick, vars, IInv, TypeOK, Times
<1>3. TypeOK'
  BY <1>1, <1>2 DEF IInv, TypeOK
<1>4. Owned'
  BY <1>1 DEF IInv, Owned, OwnAttempt
<1>. QED
  BY <1>1, <1>3, <1>4 DEF IInv, FailureRecorded

LEMMA InvariantStep == IInv /\ [Next]_vars => IInv'
<1>. SUFFICES ASSUME IInv, [Next]_vars PROVE IInv'
  OBVIOUS
<1>1. ASSUME NEW b \in Browsers, Browse(b) PROVE IInv'
  BY <1>1, SendStep, DropCookieStep DEF Browse
<1>2. ASSUME NEW r \in Slots, Handle(r) PROVE IInv'
  BY <1>2, StartStep, FullStep, CallbackStep, ExchangeStep, AnswerStep, BeginFetchStep,
     FetchSucceedsStep DEF Handle
<1>. QED
  BY <1>1, <1>2, ReceiveStep, ExchangeStep, WorldStep DEF Next

\* The strengthening that the theorems below need holds in every state.
THEOREM Invariant == Spec => []IInv
BY InvariantInit, InvariantStep, PTL DEF Spec

\* The table never outgrows its capacity, every row belongs to an attempt that
\* was made, and every request carries what its phase says (auth/transactions.rs,
\* the handlers of routes/auth.rs and KeyCache of auth/google.rs).
THEOREM TypeCorrect == Spec => []TypeOK
BY Invariant, PTL DEF IInv

-----------------------------------------------------------------------------
(* Whose step it was.                                                      *)

\* A step of one request replaces that request and no other.
LEMMA OneRequest ==
  ASSUME NEW r, Handle(r) \/ Receive(r) \/ HangUp(r)
  PROVE  \E q : request' = [request EXCEPT ![r] = q]
<1>1. CASE Start(r) \/ Full(r)
  BY <1>1 DEF Start, Full, Started
<1>2. CASE Consume(r) \/ RefuseCallback(r) \/ Receive(r) \/ HangUp(r)
  BY <1>2 DEF Consume, RefuseCallback, Receive, HangUp
<1>3. CASE Exchange(r) \/ ExchangeFails(r)
  BY <1>3 DEF Exchange, ExchangeFails, End
<1>4. CASE UseCachedKeys(r) \/ TooSoon(r) \/ FetchSucceeds(r) \/ FetchFails(r)
  BY <1>4 DEF UseCachedKeys, TooSoon, FetchSucceeds, FetchFails, Verify, End
<1>5. CASE BeginFetch(r)
  <2>1. request' = [request EXCEPT ![r] = [request[r] EXCEPT !.phase = "fetch"]]
    BY <1>5 DEF BeginFetch
  <2>. QED
    BY <2>1
<1>. QED
  BY <1>1, <1>2, <1>3, <1>4, <1>5 DEF Handle

\* So a request that changed took a step itself, or was sent.
LEMMA OwnStep ==
  ASSUME IInv, [Next]_vars, NEW r \in Slots, request'[r] # request[r]
  PROVE  \/ Handle(r) \/ Receive(r) \/ HangUp(r)
         \/ \E b \in Browsers : GoToStart(r, b) \/ \E a \in 1..made : OpenCallback(r, b, a)
<1>1. request' # request
  OBVIOUS
<1>2. CASE \E x \in Slots : Handle(x) \/ Receive(x) \/ HangUp(x)
  <2>1. PICK x \in Slots : Handle(x) \/ Receive(x) \/ HangUp(x)
    BY <1>2
  <2>2. PICK q : request' = [request EXCEPT ![x] = q]
    BY <2>1, OneRequest
  <2>3. x = r
    BY <2>2 DEF IInv, TypeOK
  <2>. QED
    BY <2>1, <2>3
<1>3. CASE \E b \in Browsers : Browse(b)
  <2>1. PICK b \in Browsers, x \in Slots :
          GoToStart(x, b) \/ \E a \in 1..made : OpenCallback(x, b, a)
    BY <1>1, <1>3 DEF Browse, DropCookie
  <2>2. PICK q : request' = [request EXCEPT ![x] = q]
    BY <2>1 DEF GoToStart, OpenCallback, Send
  <2>3. x = r
    BY <2>2 DEF IInv, TypeOK
  <2>. QED
    BY <2>1, <2>3
<1>. QED
  BY <1>1, <1>2, <1>3 DEF Next, vars, RotateKeys, Tick

\* What each kind of step makes of its request.
LEMMA HandlerPhases ==
  ASSUME IInv, NEW r \in Slots, Handle(r)
  PROVE  /\ Start(r) => Ends(r, "started", "ok")
         /\ Full(r) => Ends(r, "started", "full")
         /\ request'[r].phase = "started" => Start(r) \/ Full(r)
         /\ Consume(r) => Becomes(r, "exchange")
         /\ request'[r].phase = "exchange" => Consume(r)
         /\ request'[r].phase = "ended" =>
              ExchangeFails(r) \/ UseCachedKeys(r) \/ TooSoon(r) \/ FetchSucceeds(r) \/ FetchFails(r)
<1>t. TypeOK
  BY DEF IInv
<1>1. Start(r) => Ends(r, "started", "ok")
  <2>. SUFFICES ASSUME Start(r) PROVE Ends(r, "started", "ok")
    OBVIOUS
  <2>1. made + 1 \in Attempts \cup {NoAttempt} /\ request[r].phase = "start"
    BY DEF Start
  <2>2. request'[r] = [phase |-> "started", browser |-> request[r].browser,
                       outcome |-> "ok", attempt |-> made + 1]
    BY <1>t, <2>1, StartedEffect DEF Start
  <2>. QED
    BY <2>1, <2>2 DEF Ends, Becomes
<1>2. Full(r) => Ends(r, "started", "full")
  <2>. SUFFICES ASSUME Full(r) PROVE Ends(r, "started", "full")
    OBVIOUS
  <2>1. request'[r] = [phase |-> "started", browser |-> request[r].browser,
                       outcome |-> "full", attempt |-> NoAttempt]
    BY <1>t, StartedEffect DEF Full
  <2>. QED
    BY <2>1 DEF Ends, Becomes, Full
<1>8. CASE Start(r) \/ Full(r)
  <2>1. request'[r].phase = "started" /\ request[r].phase = "start"
    BY <1>1, <1>2, <1>8 DEF Ends, Becomes, Start, Full
  <2>. QED
    BY <1>1, <1>2, <1>8, <2>1 DEF Consume
<1>3. CASE Consume(r)
  <2>1. request'[r] = [phase |-> "exchange", browser |-> request[r].browser]
    BY <1>t, <1>3 DEF Consume, TypeOK
  <2>. QED
    BY <1>3, <2>1 DEF Becomes, Full, Start, Consume
<1>4. CASE RefuseCallback(r)
  <2>1. request'[r] = Free
    BY <1>t, <1>4 DEF RefuseCallback, TypeOK
  <2>. QED
    BY <1>4, <2>1 DEF Free, Full, Start, Consume, RefuseCallback
<1>5. CASE Exchange(r)
  <2>1. request'[r].phase = "keys"
    BY <1>t, <1>5 DEF Exchange, TypeOK
  <2>. QED
    BY <1>5, <2>1 DEF Exchange, Full, Start, Consume
<1>6. CASE BeginFetch(r)
  <2>1. request'[r] = [request[r] EXCEPT !.phase = "fetch"]
    BY <1>t, <1>6 DEF BeginFetch, TypeOK
  <2>2. request[r].phase = "keys" /\ request[r] \in Request
    BY <1>t, <1>6, UnderWay DEF BeginFetch
  <2>3. request'[r].phase = "fetch"
    BY <2>1, <2>2 DEF Request
  <2>. QED
    BY <1>6, <2>2, <2>3 DEF Full, Start, Consume
<1>7. CASE ExchangeFails(r) \/ UseCachedKeys(r) \/ TooSoon(r) \/ FetchSucceeds(r) \/ FetchFails(r)
  <2>1. request[r].phase \in {"exchange", "keys", "fetch"}
    BY <1>7 DEF ExchangeFails, UseCachedKeys, TooSoon, FetchSucceeds, FetchFails
  <2>2. \E outcome \in {"ok", "denied", "unknown_key", "unavailable", "internal"} : End(r, outcome)
    BY <1>t, <1>7, <2>1, VerifyEffect
       DEF ExchangeFails, UseCachedKeys, TooSoon, FetchSucceeds, FetchFails
  <2>3. request'[r].phase = "ended"
    BY <1>t, <2>1, <2>2, EndLeaves
  <2>. QED
    BY <1>7, <2>1, <2>3 DEF Full, Start, Consume
<1>. QED
  BY <1>3, <1>4, <1>5, <1>6, <1>7, <1>8 DEF Handle

\* Answers, goodbyes and new requests are none of those.
LEMMA OtherPhases ==
  ASSUME IInv, NEW r \in Slots,
         \/ Receive(r) \/ HangUp(r)
         \/ \E b \in Browsers : GoToStart(r, b) \/ \E a \in 1..made : OpenCallback(r, b, a)
  PROVE  request'[r].phase \notin {"started", "exchange", "ended"}
<1>1. CASE Receive(r) \/ HangUp(r)
  <2>1. request'[r] = Free
    BY <1>1 DEF Receive, HangUp, IInv, TypeOK
  <2>. QED
    BY <2>1 DEF Free
<1>2. CASE \E b \in Browsers : GoToStart(r, b)
  BY <1>2 DEF GoToStart, Send, IInv, TypeOK
<1>3. CASE \E b \in Browsers : \E a \in 1..made : OpenCallback(r, b, a)
  BY <1>3 DEF OpenCallback, Send, IInv, TypeOK
<1>. QED
  BY <1>1, <1>2, <1>3

-----------------------------------------------------------------------------
(* What a step may never do.                                               *)

\* A row of an attempt that has not expired leaves the table only when the
\* browser that started it starts another or consumes it.
LEMMA RowsLeave ==
  ASSUME IInv, [Next]_vars, NEW a \in Alive \ DOMAIN attempts'
  PROVE  \E r \in Slots : /\ Becomes(r, "started") \/ Becomes(r, "exchange")
                         /\ request[r].browser = owner[a]
<1>t. TypeOK /\ a # NoAttempt /\ a \in DOMAIN attempts
  BY SignInAssumption DEF IInv, TypeOK, Alive, NoAttempt
<1>1. PICK r \in Slots : Start(r) \/ Full(r) \/ Consume(r) \/ RefuseCallback(r)
  <2>1. attempts' # attempts
    BY <1>t
  <2>. QED
    BY <2>1 DEF Next, Browse, Handle, GoToStart, OpenCallback, Send, DropCookie, Exchange,
       ExchangeFails, UseCachedKeys, TooSoon, BeginFetch, FetchSucceeds, FetchFails, Receive,
       HangUp, RotateKeys, Tick, vars
<1>2. Handle(r)
  BY <1>1 DEF Handle
<1>3. CASE Start(r) \/ Full(r)
  <2>1. a = request[r].bound /\ request[r].phase = "start"
    BY <1>3 DEF Start, Full, Keep
  <2>2. owner[a] = request[r].browser
    BY <1>t, <2>1 DEF IInv, Owned, OwnAttempt
  <2>3. Becomes(r, "started")
    BY <1>2, <1>3, HandlerPhases DEF Ends
  <2>. QED
    BY <2>2, <2>3
<1>4. CASE Consume(r)
  <2>1. a = request[r].bound /\ request[r].phase = "callback"
    BY <1>4 DEF Consume, Keep
  <2>2. owner[a] = request[r].browser
    BY <1>t, <2>1 DEF IInv, Owned, OwnAttempt
  <2>3. Becomes(r, "exchange")
    BY <1>2, <1>4, HandlerPhases
  <2>. QED
    BY <2>2, <2>3
<1>5. CASE RefuseCallback(r)
  BY <1>t, <1>5 DEF RefuseCallback, Keep
<1>. QED
  BY <1>1, <1>3, <1>4, <1>5

\* A callback that gets past the check uses up a live attempt of its browser.
LEMMA CallbacksConsume ==
  ASSUME IInv, [Next]_vars, NEW r \in Slots, Becomes(r, "exchange")
  PROVE  /\ request[r].attempt \in Alive
         /\ owner[request[r].attempt] = request[r].browser
         /\ request[r].attempt \notin DOMAIN attempts'
<1>1. request'[r] # request[r] /\ request'[r].phase = "exchange"
  BY DEF Becomes
<1>2. Consume(r)
  BY <1>1, OwnStep, HandlerPhases, OtherPhases
<1>3. /\ request[r].attempt \in Alive /\ request[r].attempt \notin DOMAIN attempts'
      /\ request[r].bound = request[r].attempt /\ request[r].phase = "callback"
  BY <1>2 DEF Consume, Keep
<1>4. request[r].attempt # NoAttempt
  BY <1>3, SignInAssumption DEF IInv, TypeOK, Alive, NoAttempt
<1>. QED
  BY <1>3, <1>4 DEF IInv, Owned, OwnAttempt

\* Logins cannot be hijacked, repeated or spoilt: an attempt that has not
\* expired leaves the table only through its own browser, and a callback goes on
\* only by using up a live attempt of its own browser (start and consume of
\* auth/transactions.rs, google_callback of routes/auth.rs).
THEOREM AttemptsServe == Spec => AttemptsServeTheirBrowser
<1>1. IInv /\ [Next]_vars =>
        [/\ \A a \in Alive \ DOMAIN attempts' :
              \E r \in Slots : /\ Becomes(r, "started") \/ Becomes(r, "exchange")
                              /\ request[r].browser = owner[a]
         /\ \A r \in Slots : Becomes(r, "exchange") =>
              LET a == request[r].attempt IN
              a \in Alive /\ owner[a] = request[r].browser /\ a \notin DOMAIN attempts']_vars
  BY RowsLeave, CallbacksConsume
<1>. QED
  BY <1>1, Invariant, PTL DEF Spec, AttemptsServeTheirBrowser

\* Only a table full of live attempts, none of them the browser's own, refuses
\* a login its start (start of auth/transactions.rs).
THEOREM NobodyLockedOut == Spec => NeverLockedOut
<1>1. ASSUME IInv, [Next]_vars, NEW r \in Slots, Ends(r, "started", "full")
      PROVE  Cardinality(Alive \ {request[r].bound}) >= Capacity
  <2>1. request'[r] # request[r] /\ request'[r].phase = "started"
    BY <1>1 DEF Ends, Becomes
  <2>2. Handle(r)
    BY <1>1, <2>1, OwnStep, OtherPhases
  <2>3. Full(r)
    BY <1>1, <2>1, <2>2, HandlerPhases DEF Ends
  <2>. QED
    BY <2>3 DEF Full, Keep
<1>2. IInv /\ [Next]_vars =>
        [\A r \in Slots : Ends(r, "started", "full") =>
           Cardinality(Alive \ {request[r].bound}) >= Capacity]_vars
  BY <1>1
<1>. QED
  BY <1>2, Invariant, PTL DEF Spec, NeverLockedOut

\* A verdict of "ok" or "unknown_key" rests on keys that Google published.
LEMMA VerdictsRest ==
  ASSUME IInv, NEW r \in Slots, Handle(r), request'[r].phase = "ended"
  PROVE  /\ request'[r].outcome = "unknown_key" => reached' /\ request[r].key \notin cache'.keys
         /\ request'[r].outcome = "ok" => request[r].key \in cache'.keys /\ request[r].expires > now
<1>t. TypeOK /\ request[r].phase \in {"exchange", "keys", "fetch"}
  BY HandlerPhases
     DEF IInv, ExchangeFails, UseCachedKeys, TooSoon, FetchSucceeds, FetchFails
<1>1. \A outcome \in {"ok", "denied", "unknown_key", "unavailable", "internal"} :
        End(r, outcome) => request'[r].outcome = outcome
  <2>. SUFFICES ASSUME NEW outcome \in {"ok", "denied", "unknown_key", "unavailable", "internal"},
                       End(r, outcome)
                PROVE  request'[r].outcome = outcome
    OBVIOUS
  <2>1. request'[r] = [phase |-> "ended", browser |-> request[r].browser, outcome |-> outcome]
    BY <1>t, EndEffect
  <2>. QED
    BY <2>1
<1>2. Verify(r) => /\ request'[r].outcome # "unknown_key"
                   /\ request'[r].outcome = "ok" => request[r].expires > now
  BY <1>t, <1>1, VerifyEffect
<1>3. CASE ExchangeFails(r) \/ FetchFails(r)
  BY <1>1, <1>3 DEF ExchangeFails, FetchFails
<1>4. CASE UseCachedKeys(r)
  BY <1>2, <1>4 DEF UseCachedKeys
<1>5. CASE TooSoon(r)
  <2>1. request'[r].outcome = "unavailable" \/ request'[r].outcome = "unknown_key"
    BY <1>1, <1>5 DEF TooSoon
  <2>2. request'[r].outcome = "unknown_key" =>
          ~cache.failed /\ cache.last # Never /\ request[r].key \notin cache.keys
    <3>. SUFFICES ASSUME request'[r].outcome = "unknown_key"
                  PROVE  ~cache.failed /\ cache.last # Never /\ request[r].key \notin cache.keys
      OBVIOUS
    <3>1. ~(cache.failed \/ cache.expires <= request[r].asked)
      BY <1>1, <1>5 DEF TooSoon
    <3>. QED
      BY <1>5, <3>1 DEF TooSoon, Throttled
  <2>. QED
    BY <1>t, <1>5, <2>1, <2>2 DEF TooSoon, IInv, FailureRecorded
<1>6. CASE FetchSucceeds(r)
  <2>1. reached' /\ cache'.keys = {published}
    BY <1>t, <1>6 DEF FetchSucceeds, TypeOK, KeyCache
  <2>2. CASE request[r].key = published
    BY <1>2, <1>6, <2>1, <2>2 DEF FetchSucceeds
  <2>3. CASE request[r].key # published
    BY <1>1, <1>6, <2>1, <2>3 DEF FetchSucceeds
  <2>. QED
    BY <2>2, <2>3
<1>. QED
  BY <1>3, <1>4, <1>5, <1>6, HandlerPhases

\* An unknown signing key is blamed only on keys that a fetch has brought, and a
\* login is accepted only with a published key and an ID token that is still
\* valid (keys and verify_id_token of auth/google.rs).
THEOREM VerdictsTrue == Spec => VerdictsAreTrue
<1>1. ASSUME IInv, [Next]_vars, NEW r \in Slots
      PROVE  /\ Ends(r, "ended", "unknown_key") => reached' /\ request[r].key \notin cache'.keys
             /\ Ends(r, "ended", "ok") =>
                  request[r].key \in cache'.keys /\ request[r].expires > now
  <2>1. CASE request'[r] # request[r] /\ request'[r].phase = "ended"
    BY <1>1, <2>1, OwnStep, OtherPhases, VerdictsRest DEF Ends
  <2>. QED
    BY <2>1 DEF Ends, Becomes
<1>2. IInv /\ [Next]_vars =>
        [\A r \in Slots :
           /\ Ends(r, "ended", "unknown_key") => reached' /\ request[r].key \notin cache'.keys
           /\ Ends(r, "ended", "ok") =>
                request[r].key \in cache'.keys /\ request[r].expires > now]_vars
  BY <1>1
<1>. QED
  BY <1>2, Invariant, PTL DEF Spec, VerdictsAreTrue
=============================================================================
