------------------------- MODULE QueueSessionProofs -------------------------
(***************************************************************************)
(* Proofs about QueueSession, for every number of memberships, revisions   *)
(* and failures: the page never shows one membership the queue of another, *)
(* never a membership whose end it was told, and never goes back to an     *)
(* older revision.                                                         *)
(***************************************************************************)
EXTENDS QueueSession, TLAPS

USE DEF NoGen, Unknown, Nothing, Budget

\* The truth: a user's generations only grow, so the current one is the last.
ServerInv ==
  /\ server \in [gen: 0..MaxGen, last: 0..MaxGen, revision: 1..MaxRevision, playing: 1..MaxRevision]
  /\ server.gen \in {NoGen, server.last}
  /\ server.playing <= server.revision
  /\ told \subseteq (1..server.last) \ {server.gen}

\* What a session holds together by itself.  An operation and a stream are of
\* the membership on screen: a page without one has neither.
Whole(x) ==
  /\ x \in Sessions
  /\ x.queue # NoView => x.queue.gen = Gen(x)
  /\ x.op.kind # "none" \/ x.stream.state # "none" => Gen(x) # NoGen
  /\ x.stream.event # "none" => x.stream.state = "open"

\* What a session holds is true of a server whose user's generations are gen
\* now and last at most, when the generations in t are those it was told had
\* ended: an answer to a departure and an end on the stream come after the
\* membership has ended, and an answer that would be believed names none of t.
Truthful(x, gen, last, t) ==
  /\ x.member <= last /\ x.flight.view.gen <= last
  /\ x.member \notin t
  /\ x.op.kind = "leave" /\ x.op.answer = "ok" => Gen(x) # gen
  /\ x.stream.event = "ended" => Gen(x) # gen
  /\ x.flight.stage = "current" /\ x.flight.answer \notin {"none", "failed"} /\ x.flight.valid
       => x.flight.view.gen \notin t

IInv ==
  /\ ServerInv
  /\ Whole(s) /\ Truthful(s, server.gen, server.last, told)
  /\ player \in [gen: 0..MaxGen, entry: 0..MaxRevision]
  /\ failures \in 0..MaxFailures

-----------------------------------------------------------------------------
(* The methods.  Each keeps a session whole and truthful; most leave what is *)
(* on screen alone.                                                          *)

\* What a person sees of the membership.
Shown(x) == <<x.member, x.revision, x.queue>>

\* A step may show another membership, or the same at a revision no older.
Advances(x, y) ==
  y.member = x.member /\ Gen(x) # NoGen =>
    y.revision >= x.revision /\ y.queue.revision >= x.queue.revision

LEMMA NoViewIsNoView == NoView \notin Views
BY DEF NoView, Views

\* A read starts with no answer, so there is nothing in it to be believed.
LEMMA StartReadKeeps ==
  ASSUME NEW x, NEW gen, NEW last \in Nat, NEW t, NEW n \in 0..Budget,
         Whole(x), Truthful(x, gen, last, t)
  PROVE  LET y == StartRead(x, n)
         IN Whole(y) /\ Truthful(y, gen, last, t) /\ Shown(y) = Shown(x)
<1>1. StartRead(x, n).flight \in Flights
  BY DEF StartRead, NoFlight, Flights, NoView, Answers, Whole, Sessions
<1>2. StartRead(x, n) \in Sessions
  BY <1>1 DEF StartRead, Whole, Sessions
<1>3. StartRead(x, n).flight.answer = "none" /\ StartRead(x, n).flight.view.gen = NoGen
  BY DEF StartRead, NoFlight, NoView, Whole, Sessions
<1>4. /\ StartRead(x, n).op = x.op /\ StartRead(x, n).stream = x.stream
      /\ StartRead(x, n).member = x.member /\ StartRead(x, n).queue = x.queue
      /\ StartRead(x, n).revision = x.revision
  BY DEF StartRead, Whole, Sessions
<1>5. QED
  BY <1>2, <1>3, <1>4 DEF Whole, Truthful, Shown, Gen

LEMMA SettleKeeps ==
  ASSUME NEW x, NEW gen, NEW last \in Nat, NEW t, Whole(x), Truthful(x, gen, last, t)
  PROVE  LET y == Settle(x)
         IN Whole(y) /\ Truthful(y, gen, last, t) /\ Shown(y) = Shown(x)
<1>1. Settle(x).flight \in Flights
  BY DEF Settle, NoFlight, Flights, NoView, Answers, Whole, Sessions
<1>2. Settle(x).op \in Operations
  BY DEF Settle, Whole, Sessions, Operations, Answers
<1>3. Settle(x) \in Sessions
  BY <1>1, <1>2 DEF Settle, Whole, Sessions
<1>4. QED
  BY <1>3 DEF Settle, NoFlight, NoView, Whole, Truthful, Shown, Gen, Sessions, Operations

LEMMA SyncKeeps ==
  ASSUME NEW x, NEW gen, NEW last \in Nat, NEW t, Whole(x), Truthful(x, gen, last, t)
  PROVE  LET y == Sync(x)
         IN Whole(y) /\ Truthful(y, gen, last, t) /\ Shown(y) = Shown(x)
<1>1. CASE ~Active(x)
  BY <1>1 DEF Sync
<1>2. CASE Active(x) /\ x.flight = NoFlight
  BY <1>2, StartReadKeeps DEF Sync
<1>3. CASE Active(x) /\ x.flight # NoFlight
  BY <1>3 DEF Sync, Whole, Truthful, Shown, Gen, Sessions
<1>4. QED
  BY <1>1, <1>2, <1>3

\* That a hint came is on record and touches nothing else.
LEMMA HintedKeeps ==
  ASSUME NEW x, NEW gen, NEW last, NEW t, Whole(x), Truthful(x, gen, last, t),
         NEW h \in BOOLEAN
  PROVE  LET y == [x EXCEPT !.hinted = h]
         IN Whole(y) /\ Truthful(y, gen, last, t) /\ Shown(y) = Shown(x)
<1> DEFINE y == [x EXCEPT !.hinted = h]
<1>1. y \in Sessions
  BY DEF Whole, Sessions
<1>2. /\ y.op = x.op /\ y.flight = x.flight /\ y.stream = x.stream
      /\ y.member = x.member /\ y.queue = x.queue /\ y.revision = x.revision
  BY DEF Whole, Sessions
<1> HIDE DEF y
<1>3. Whole(y) /\ Truthful(y, gen, last, t) /\ Shown(y) = Shown(x)
  BY <1>1, <1>2 DEF Whole, Truthful, Shown, Gen
<1>4. QED
  BY <1>3 DEF y

LEMMA NextRoundKeeps ==
  ASSUME NEW x, NEW gen, NEW last \in Nat, NEW t, Whole(x), Truthful(x, gen, last, t)
  PROVE  LET y == NextRound(x)
         IN Whole(y) /\ Truthful(y, gen, last, t) /\ Shown(y) = Shown(x)
<1>1. x.flight.recoveries \in 0..Budget
  BY DEF Whole, Sessions, Flights
<1>2. QED
  BY <1>1, StartReadKeeps, SettleKeeps DEF NextRound

\* Whether the page is loading and whether it says that it could not synchronise
\* touches nothing else.
LEMMA ToldKeeps ==
  ASSUME NEW x, NEW gen, NEW last, NEW t, Whole(x), Truthful(x, gen, last, t),
         NEW failed \in BOOLEAN
  PROVE  LET y == [x EXCEPT !.loading = FALSE, !.syncError = failed]
         IN Whole(y) /\ Truthful(y, gen, last, t) /\ Shown(y) = Shown(x)
<1> DEFINE y == [x EXCEPT !.loading = FALSE, !.syncError = failed]
<1>1. y \in Sessions
  BY DEF Whole, Sessions
<1>2. /\ y.op = x.op /\ y.flight = x.flight /\ y.stream = x.stream
      /\ y.member = x.member /\ y.queue = x.queue /\ y.revision = x.revision
  BY DEF Whole, Sessions
<1> HIDE DEF y
<1>3. Whole(y) /\ Truthful(y, gen, last, t) /\ Shown(y) = Shown(x)
  BY <1>1, <1>2 DEF Whole, Truthful, Shown, Gen
<1>4. QED
  BY <1>3 DEF y

LEMMA SyncFailedKeeps ==
  ASSUME NEW x, NEW gen, NEW last \in Nat, NEW t, Whole(x), Truthful(x, gen, last, t)
  PROVE  LET y == SyncFailed(x)
         IN Whole(y) /\ Truthful(y, gen, last, t) /\ Shown(y) = Shown(x)
<1> DEFINE z == Settle(x)
<1>1. Whole(z) /\ Truthful(z, gen, last, t) /\ Shown(z) = Shown(x)
  BY SettleKeeps
<1> DEFINE y == [z EXCEPT !.loading = FALSE, !.syncError = TRUE]
<1>2. SyncFailed(x) = y
  BY DEF SyncFailed
<1> HIDE DEF z
<1>3. TRUE \in BOOLEAN
  OBVIOUS
<1>4. Whole(y) /\ Truthful(y, gen, last, t) /\ Shown(y) = Shown(z)
  BY <1>1, <1>3, ToldKeeps, Zenon
<1> HIDE DEF y
<1>5. QED
  BY <1>1, <1>2, <1>4

LEMMA SyncedKeeps ==
  ASSUME NEW x, NEW gen, NEW last \in Nat, NEW t, Whole(x), Truthful(x, gen, last, t)
  PROVE  LET y == Synced(x)
         IN Whole(y) /\ Truthful(y, gen, last, t) /\ Shown(y) = Shown(x)
<1> DEFINE z == [x EXCEPT !.loading = FALSE, !.syncError = FALSE]
<1>1. Whole(z) /\ Truthful(z, gen, last, t) /\ Shown(z) = Shown(x)
  BY ToldKeeps
<1> HIDE DEF z
<1>2. Synced(x) = NextRound(IF x.flight.valid THEN z ELSE x)
  BY DEF Synced, z
<1>3. QED
  BY <1>1, <1>2, NextRoundKeeps

LEMMA ConnectKeeps ==
  ASSUME NEW x, NEW gen, NEW last \in Nat, NEW t, Whole(x), Truthful(x, gen, last, t),
         Gen(x) # NoGen
  PROVE  LET y == Connect(x)
         IN Whole(y) /\ Truthful(y, gen, last, t) /\ Shown(y) = Shown(x)
<1>1. Connect(x).stream \in Streams /\ Connect(x).stream.event = "none"
  BY SessionAssumption DEF Connect, NoStream, Streams, Whole, Sessions
<1>2. Connect(x) \in Sessions
  BY <1>1 DEF Connect, Whole, Sessions
<1>3. /\ Connect(x).op = x.op /\ Connect(x).flight = x.flight
      /\ Connect(x).member = x.member /\ Connect(x).queue = x.queue
      /\ Connect(x).revision = x.revision
  BY DEF Connect, Whole, Sessions
<1>4. QED
  BY <1>1, <1>2, <1>3 DEF Whole, Truthful, Shown, Gen

LEMMA DisconnectedKeeps ==
  ASSUME NEW x, NEW gen, NEW last \in Nat, NEW t, Whole(x), Truthful(x, gen, last, t),
         Gen(x) # NoGen
  PROVE  LET y == Disconnected(x)
         IN Whole(y) /\ Truthful(y, gen, last, t) /\ Shown(y) = Shown(x)
<1> DEFINE z == [x EXCEPT !.stream = [NoStream EXCEPT !.state = "backoff"]]
<1>1. z.stream \in Streams /\ z.stream.event = "none"
  BY SessionAssumption DEF NoStream, Streams, Whole, Sessions
<1>2. z \in Sessions
  BY <1>1 DEF Whole, Sessions
<1>3. /\ z.op = x.op /\ z.flight = x.flight
      /\ z.member = x.member /\ z.queue = x.queue /\ z.revision = x.revision
  BY DEF Whole, Sessions
<1>4. Disconnected(x) = Sync(z)
  BY DEF Disconnected
<1> HIDE DEF z
<1>5. Whole(z) /\ Truthful(z, gen, last, t) /\ Shown(z) = Shown(x)
  BY <1>1, <1>2, <1>3 DEF Whole, Truthful, Shown, Gen
<1>6. QED
  BY <1>4, <1>5, SyncKeeps

\* A read that was under way when the membership changed is believed no more,
\* so the new membership may be checked against any set of ended ones.
LEMMA ReboundKeeps ==
  ASSUME NEW x, NEW gen, NEW last \in Nat, NEW t, Whole(x), Truthful(x, gen, last, t),
         NEW m \in 0..MaxGen, NEW r \in 0..MaxRevision, NEW ended,
         m <= last, m \notin ended
  PROVE  LET y == Rebound(x, m, r)
         IN /\ Whole(y) /\ Truthful(y, gen, last, ended)
            /\ Shown(y) = <<m, r, NoView>>
<1> DEFINE z == [NewVersion(x) EXCEPT !.member = m, !.revision = r, !.queue = NoView,
                                     !.busy = FALSE, !.op = NoOp, !.ended = Nothing,
                                     !.stream = NoStream]
<1>1. NoOp \in Operations /\ NoStream \in Streams
  BY SessionAssumption DEF NoOp, NoStream, Operations, Streams, Answers
<1>2. NewVersion(x).flight \in Flights /\ ~NewVersion(x).flight.valid
  BY DEF NewVersion, Whole, Sessions, Flights
<1>3. NewVersion(x) \in Sessions /\ NewVersion(x).flight.view = x.flight.view
  BY <1>2 DEF NewVersion, Whole, Sessions, Flights
<1>4. z \in Sessions
  <2>1. /\ m \in {Unknown} \cup (0..MaxGen) /\ Nothing \in 0..MaxRevision
        /\ NoView \in Views \cup {NoView}
    BY SessionAssumption
  <2>2. ASSUME NEW w \in Sessions
        PROVE  [w EXCEPT !.member = m, !.revision = r, !.queue = NoView,
                         !.busy = FALSE, !.op = NoOp, !.ended = Nothing,
                         !.stream = NoStream] \in Sessions
    BY <1>1, <2>1 DEF Sessions
  <2>3. QED
    BY <1>3, <2>2
<1>5. /\ z.op = NoOp /\ z.flight = NewVersion(x).flight /\ z.stream = NoStream
      /\ z.member = m /\ z.queue = NoView /\ z.revision = r
  BY <1>3 DEF Sessions
<1>6. Rebound(x, m, r) = IF m = NoGen THEN z ELSE Connect(z)
  BY DEF Rebound
<1> HIDE DEF z
<1>7. Whole(z) /\ Truthful(z, gen, last, ended) /\ Shown(z) = <<m, r, NoView>>
  BY <1>2, <1>3, <1>4, <1>5 DEF Whole, Truthful, Shown, Gen, NoOp, NoStream
<1>8. m # NoGen => Gen(z) # NoGen
  BY <1>5 DEF Gen
<1>9. QED
  BY <1>6, <1>7, <1>8, ConnectKeeps

LEMMA SetMembershipKeeps ==
  ASSUME NEW x, NEW gen, NEW last \in Nat, NEW t, Whole(x), Truthful(x, gen, last, t),
         NEW m \in 0..MaxGen, NEW r \in 0..MaxRevision, m <= last, m \notin t
  PROVE  LET y == SetMembership(x, m, r)
         IN Whole(y) /\ Truthful(y, gen, last, t) /\ Advances(x, y)
<1>1. CASE x.member # m
  <2>1. SetMembership(x, m, r) = Rebound(x, m, r)
    BY <1>1 DEF SetMembership
  <2>2. Whole(Rebound(x, m, r)) /\ Truthful(Rebound(x, m, r), gen, last, t)
    BY ReboundKeeps
  <2>3. Shown(Rebound(x, m, r)) = <<m, r, NoView>>
    BY ReboundKeeps
  <2>4. Rebound(x, m, r).member # x.member
    BY <2>3, <1>1 DEF Shown
  <2>5. QED
    BY <2>1, <2>2, <2>4 DEF Advances
<1>2. CASE x.member = m /\ m # NoGen /\ r < x.revision
  <2>1. SetMembership(x, m, r) = x
    BY <1>2 DEF SetMembership
  <2>2. Advances(x, x)
    BY DEF Advances, Whole, Sessions, Views, NoView
  <2>3. QED
    BY <2>1, <2>2
<1>3. CASE x.member = m /\ ~(m # NoGen /\ r < x.revision)
  <2> DEFINE z == [x EXCEPT !.revision = r]
  <2>1. SetMembership(x, m, r) = z
    BY <1>3 DEF SetMembership
  <2>2. z \in Sessions
    BY DEF Whole, Sessions
  <2>3. /\ z.op = x.op /\ z.flight = x.flight /\ z.stream = x.stream
        /\ z.member = x.member /\ z.queue = x.queue /\ z.revision = r
    BY DEF Whole, Sessions
  <2> HIDE DEF z
  <2>4. Whole(z) /\ Truthful(z, gen, last, t)
    BY <2>2, <2>3 DEF Whole, Truthful, Gen
  <2>5. x.revision \in Nat /\ x.queue.revision \in Nat
    BY DEF Whole, Sessions, Views, NoView
  <2>6. m # NoGen => r >= x.revision
    BY <1>3, <2>5
  <2>7. Gen(x) # NoGen => m # NoGen
    BY <1>3 DEF Gen
  <2>8. Advances(x, z)
    BY <2>3, <2>5, <2>6, <2>7 DEF Advances
  <2>9. QED
    BY <2>1, <2>4, <2>8
<1>4. QED
  BY <1>1, <1>2, <1>3

\* The end of a membership that the session had: nothing is left of it.
LEMMA EndedKeeps ==
  ASSUME NEW x, NEW gen, NEW last \in Nat, NEW t, Whole(x), Truthful(x, gen, last, t),
         Gen(x) # NoGen, NoGen \notin t
  PROVE  LET y == Ended(x)
         IN Whole(y) /\ Truthful(y, gen, last, t \cup {Gen(x)}) /\ y.member # x.member
<1> DEFINE z == Rebound(x, NoGen, 0)
<1>1. NoGen \notin t \cup {Gen(x)}
  OBVIOUS
<1>2. x.member # NoGen
  BY DEF Gen
<1> DEFINE y == [z EXCEPT !.loading = FALSE]
<1>3. Ended(x) = Sync(y)
  BY <1>2 DEF Ended, SetMembership
<1>4. NoGen \in 0..MaxGen /\ 0 \in 0..MaxRevision /\ NoGen <= last
  BY SessionAssumption
<1>5. Whole(z) /\ Truthful(z, gen, last, t \cup {Gen(x)}) /\ Shown(z) = <<NoGen, 0, NoView>>
  BY <1>1, <1>4, ReboundKeeps
<1> HIDE DEF z
<1>6. /\ Whole(Sync(y)) /\ Truthful(Sync(y), gen, last, t \cup {Gen(x)})
      /\ Shown(Sync(y)) = <<NoGen, 0, NoView>>
  <2>1. y = [z EXCEPT !.loading = FALSE, !.syncError = z.syncError] /\ z.syncError \in BOOLEAN
    BY <1>5 DEF Whole, Sessions
  <2>2. /\ Whole(y) /\ Truthful(y, gen, last, t \cup {Gen(x)})
        /\ Shown(y) = <<NoGen, 0, NoView>>
    BY <1>5, <2>1, ToldKeeps
  <2> HIDE DEF y
  <2>3. QED
    BY <2>2, SyncKeeps
<1>7. QED
  BY <1>2, <1>3, <1>6 DEF Shown

\* A view replaces the queue on screen only as a view of the same membership,
\* at a revision no older.
LEMMA ApplyQueueKeeps ==
  ASSUME NEW x, NEW gen, NEW last \in Nat, NEW t, Whole(x), Truthful(x, gen, last, t),
         NEW view \in Views \cup {NoView}, NEW valid \in BOOLEAN
  PROVE  LET y == ApplyQueue(x, view, valid)
         IN /\ Whole(y) /\ Truthful(y, gen, last, t) /\ Advances(x, y)
            /\ y.member = x.member
<1>1. x.revision \in Nat /\ x.queue.revision \in Nat /\ view.revision \in Nat
  BY DEF Whole, Sessions, Views, NoView
<1>2. CASE ~valid \/ view.gen # Gen(x) \/ view.revision < x.queue.revision
  BY <1>1, <1>2 DEF ApplyQueue, Advances
<1>3. CASE valid /\ view.gen = Gen(x) /\ ~(view.revision < x.queue.revision)
  <2> DEFINE z == [x EXCEPT !.queue = view]
  <2>1. ApplyQueue(x, view, valid) = z
    BY <1>3 DEF ApplyQueue
  <2>2. z \in Sessions
    BY DEF Whole, Sessions
  <2>3. /\ z.op = x.op /\ z.flight = x.flight /\ z.stream = x.stream
        /\ z.member = x.member /\ z.queue = view /\ z.revision = x.revision
    BY DEF Whole, Sessions
  <2> HIDE DEF z
  <2>4. Whole(z) /\ Truthful(z, gen, last, t)
    BY <1>3, <2>2, <2>3 DEF Whole, Truthful, Gen
  <2>5. Advances(x, z)
    BY <1>1, <1>3, <2>3 DEF Advances
  <2>6. QED
    BY <2>1, <2>3, <2>4, <2>5
<1>4. QED
  BY <1>2, <1>3

\* An operation starts without an answer.
LEMMA StartOpKeeps ==
  ASSUME NEW x, NEW gen, NEW last \in Nat, NEW t, Whole(x), Truthful(x, gen, last, t),
         Gen(x) # NoGen, NEW kind \in {"change", "leave", "advance"},
         NEW entry \in 0..MaxRevision, (kind = "advance") = (entry # Nothing)
  PROVE  LET y == StartOp(x, kind, entry)
         IN Whole(y) /\ Truthful(y, gen, last, t) /\ Shown(y) = Shown(x)
<1> DEFINE z == StartOp(x, kind, entry)
<1>1. z.op \in Operations /\ z.op.answer = "none"
  BY DEF StartOp, NoOp, Operations, Whole, Sessions, Answers
<1>2. z \in Sessions
  BY <1>1 DEF StartOp, Whole, Sessions
<1>3. /\ z.flight = x.flight /\ z.stream = x.stream
      /\ z.member = x.member /\ z.queue = x.queue /\ z.revision = x.revision
  BY DEF StartOp, Whole, Sessions
<1> HIDE DEF z
<1>4. Whole(z) /\ Truthful(z, gen, last, t) /\ Shown(z) = Shown(x)
  BY <1>1, <1>2, <1>3 DEF Whole, Truthful, Shown, Gen
<1>5. QED
  BY <1>4 DEF z

LEMMA FinallyKeeps ==
  ASSUME NEW x, NEW gen, NEW last \in Nat, NEW t, Whole(x), Truthful(x, gen, last, t)
  PROVE  LET y == Finally(x)
         IN Whole(y) /\ Truthful(y, gen, last, t) /\ Shown(y) = Shown(x)
<1> DEFINE z == [x EXCEPT !.busy = FALSE, !.op = NoOp, !.ended = Nothing]
<1>1. NoOp \in Operations /\ NoOp.kind = "none" /\ NoOp.answer = "none"
  BY SessionAssumption DEF NoOp, Operations, Answers
<1>2. z \in Sessions
  <2>1. Nothing \in 0..MaxRevision
    BY SessionAssumption
  <2>2. ASSUME NEW w \in Sessions
        PROVE  [w EXCEPT !.busy = FALSE, !.op = NoOp, !.ended = Nothing] \in Sessions
    BY <1>1, <2>1 DEF Sessions
  <2>3. QED
    BY <2>2 DEF Whole
<1>3. /\ z.op = NoOp /\ z.flight = x.flight /\ z.stream = x.stream
      /\ z.member = x.member /\ z.queue = x.queue /\ z.revision = x.revision
  BY DEF Whole, Sessions
<1>4. Finally(x) = IF x.ended # Nothing /\ ~x.syncError /\ x.queue.playing = x.ended
                   THEN StartOp(z, "advance", x.ended) ELSE z
  BY DEF Finally
<1> HIDE DEF z
<1>5. Whole(z) /\ Truthful(z, gen, last, t) /\ Shown(z) = Shown(x)
  BY <1>1, <1>2, <1>3 DEF Whole, Truthful, Shown, Gen
<1>6. ASSUME x.ended # Nothing, x.queue.playing = x.ended
      PROVE  Gen(z) # NoGen /\ x.ended \in 0..MaxRevision
  <2>1. x.queue # NoView
    BY <1>6 DEF NoView
  <2>2. x.queue.gen # NoGen
    BY <2>1 DEF Whole, Sessions, Views
  <2>3. QED
    BY <2>1, <2>2, <1>3 DEF Whole, Sessions, Gen
<1>7. QED
  BY <1>4, <1>5, <1>6, StartOpKeeps

LEMMA AwaitKeeps ==
  ASSUME NEW x, NEW gen, NEW last \in Nat, NEW t, Whole(x), Truthful(x, gen, last, t),
         NEW stage \in {"identity", "read"}
  PROVE  LET y == Await(x, stage)
         IN Whole(y) /\ Truthful(y, gen, last, t) /\ Shown(y) = Shown(x)
<1> DEFINE z == Await(x, stage)
<1>1. z.flight \in Flights /\ z.flight.stage # "current" /\ z.flight.view = x.flight.view
  BY DEF Await, Whole, Sessions, Flights, Answers
<1>2. z \in Sessions
  BY <1>1 DEF Await, Whole, Sessions
<1>3. /\ z.op = x.op /\ z.stream = x.stream
      /\ z.member = x.member /\ z.queue = x.queue /\ z.revision = x.revision
  BY DEF Await, Whole, Sessions
<1> HIDE DEF z
<1>4. Whole(z) /\ Truthful(z, gen, last, t) /\ Shown(z) = Shown(x)
  BY <1>1, <1>2, <1>3 DEF Whole, Truthful, Shown, Gen
<1>5. QED
  BY <1>4 DEF z

\* A method that leaves alone what is on screen takes nothing back.
LEMMA SameShown ==
  ASSUME NEW x, NEW y, Whole(x), Shown(y) = Shown(x)
  PROVE  Advances(x, y)
<1>1. y.member = x.member /\ y.revision = x.revision /\ y.queue = x.queue
  BY DEF Shown
<1>2. x.revision \in Nat /\ x.queue.revision \in Nat
  BY DEF Whole, Sessions, Views, NoView
<1>3. QED
  BY <1>1, <1>2 DEF Advances

LEMMA AdvancesThen ==
  ASSUME NEW x, NEW y, NEW z, Advances(x, y), Shown(z) = Shown(y)
  PROVE  Advances(x, z)
BY DEF Advances, Shown

-----------------------------------------------------------------------------
(* The steps.                                                              *)

Good(x) == Whole(x) /\ Truthful(x, server.gen, server.last, told)

\* What every step owes: the invariant, and that nothing on screen goes back.
Fine == IInv' /\ Advances(s, s')

LEMMA InvFacts ==
  ASSUME IInv
  PROVE  /\ server.last \in Nat /\ server.gen \in 0..MaxGen /\ NoGen \notin told
         /\ ServerView \in Views \cup {NoView} /\ ServerView.gen = server.gen
         /\ server.gen <= server.last /\ server.gen \notin told
         /\ server.revision \in Nat /\ server.playing \in Nat
         /\ Whole(s) /\ Good(s) /\ s \in Sessions
BY DEF IInv, ServerInv, ServerView, Views, NoView, Good, Whole

LEMMA BecomesFine ==
  ASSUME IInv, NEW y, Becomes(y), Good(y), Advances(s, y)
  PROVE  Fine
BY DEF IInv, ServerInv, Becomes, Good, Fine, Advances, Gen

LEMMA FailsFine ==
  ASSUME IInv, NEW y, Fails(y), Good(y), Advances(s, y)
  PROVE  Fine
<1>1. failures' \in 0..MaxFailures
  BY SessionAssumption DEF IInv, Fails
<1>2. QED
  BY <1>1 DEF IInv, ServerInv, Fails, Good, Fine, Advances, Gen

LEMMA SameFine ==
  ASSUME IInv, NEW y, Becomes(y), Good(y), Shown(y) = Shown(s)
  PROVE  Fine
BY BecomesFine, SameShown DEF IInv

LEMMA EnvironmentStep ==
  ASSUME IInv, Environment
  PROVE  Fine
<1>1. Advances(s, s)
  BY SameShown DEF IInv
<1>2. ServerInv' /\ UNCHANGED <<s, player, failures, told>>
      /\ (server'.gen = server.gen \/ server'.gen \notin 1..server.last)
      /\ server'.last >= server.last /\ server'.last \in Nat /\ server.last \in Nat
  <2>1. CASE ServerChanges
    <3>1. PICK playing \in {server.playing, server.playing + 1} :
            server' = [server EXCEPT !.revision = @ + 1, !.playing = playing]
      BY <2>1 DEF ServerChanges
    <3>2. /\ server'.gen = server.gen /\ server'.last = server.last
          /\ server'.revision = server.revision + 1 /\ server'.playing = playing
      BY <3>1 DEF IInv, ServerInv
    <3>3. server'.revision \in 1..MaxRevision /\ server'.playing \in 1..MaxRevision
          /\ server'.playing <= server'.revision
      BY <2>1, <3>1, <3>2, SessionAssumption DEF ServerChanges, IInv, ServerInv
    <3>4. server' \in [gen: 0..MaxGen, last: 0..MaxGen, revision: 1..MaxRevision,
                       playing: 1..MaxRevision]
      BY <3>1, <3>2, <3>3 DEF IInv, ServerInv
    <3>5. QED
      BY <2>1, <3>2, <3>3, <3>4 DEF ServerChanges, IInv, ServerInv
  <2>2. CASE ServerEnds
    <3>1. /\ server'.gen = NoGen /\ server'.last = server.last
          /\ server'.revision = 1 /\ server'.playing = 1
      BY <2>2 DEF ServerEnds, IInv, ServerInv
    <3>2. server' \in [gen: 0..MaxGen, last: 0..MaxGen, revision: 1..MaxRevision,
                       playing: 1..MaxRevision]
      <4>1. NoGen \in 0..MaxGen /\ 1 \in 1..MaxRevision
        BY SessionAssumption
      <4>2. QED
        BY <2>2, <4>1 DEF ServerEnds, IInv, ServerInv
    <3>3. QED
      BY <2>2, <3>1, <3>2 DEF ServerEnds, IInv, ServerInv
  <2>3. CASE ServerJoins
    BY <2>3, SessionAssumption DEF ServerJoins, IInv, ServerInv
  <2>4. QED
    BY <2>1, <2>2, <2>3 DEF Environment
<1>3. s.member \in Int /\ s.flight.view.gen \in Int
  BY SessionAssumption DEF IInv, Whole, Sessions, Flights, Views, NoView
<1>4. Truthful(s, server'.gen, server'.last, told)
  <2>1. s.op.kind # "none" \/ s.stream.event # "none" => Gen(s) \in 1..server.last
    BY <1>3, SessionAssumption DEF IInv, Whole, Truthful, Sessions, Gen
  <2>2. QED
    BY <1>2, <1>3, <2>1 DEF IInv, Truthful
<1>5. IInv'
  BY <1>2, <1>4 DEF IInv, Whole, Gen
<1>6. QED
  BY <1>1, <1>2, <1>5 DEF Fine
\* Mounting, unmounting, the buttons.
LEMMA PersonStep ==
  ASSUME IInv, Person
  PROVE  Fine
<1> USE InvFacts
<1>1. CASE Start
  <2> DEFINE x == [s EXCEPT !.phase = "on"]
  <2>1. Becomes(Sync(IF Gen(x) = NoGen THEN x ELSE Connect(x)))
    BY <1>1 DEF Start
  <2>2. Good(x) /\ Shown(x) = Shown(s)
    BY DEF Good, Whole, Truthful, Shown, Gen, Sessions
  <2> HIDE DEF x
  <2>3. Good(Sync(x)) /\ Shown(Sync(x)) = Shown(s)
    BY <2>2, SyncKeeps DEF Good
  <2>4. ASSUME Gen(x) # NoGen
        PROVE  Good(Sync(Connect(x))) /\ Shown(Sync(Connect(x))) = Shown(s)
    <3>1. Good(Connect(x)) /\ Shown(Connect(x)) = Shown(s)
      BY <2>2, <2>4, ConnectKeeps DEF Good
    <3>2. QED
      BY <3>1, SyncKeeps DEF Good
  <2>5. QED
    BY <2>1, <2>3, <2>4, SameFine
<1>2. CASE Stop
  <2> DEFINE x == [s EXCEPT !.phase = "off", !.dirty = FALSE, !.flight = NoFlight,
                            !.op = NoOp, !.ended = Nothing, !.stream = NoStream]
  <2>1. Becomes(x)
    BY <1>2 DEF Stop
  <2>2. NoOp \in Operations /\ NoStream \in Streams /\ Nothing \in 0..MaxRevision
    BY SessionAssumption DEF NoOp, NoStream, Operations, Streams, Answers
  <2>3. NoFlight \in Flights
    BY DEF NoFlight, Flights, Answers, NoView
  <2>4. x \in Sessions
    BY <2>2, <2>3 DEF Sessions
  <2>5. /\ x.op = NoOp /\ x.flight = NoFlight /\ x.stream = NoStream
        /\ x.member = s.member /\ x.queue = s.queue /\ x.revision = s.revision
    BY DEF Sessions
  <2> HIDE DEF x
  <2>6. Good(x) /\ Shown(x) = Shown(s)
    BY <2>4, <2>5 DEF Good, Whole, Truthful, Shown, Gen, NoOp, NoFlight, NoStream, NoView
  <2>7. QED
    BY <2>1, <2>6, SameFine
<1>3. CASE SyncByHand
  <2>1. Becomes(Sync(s))
    BY <1>3 DEF SyncByHand
  <2>2. QED
    BY <2>1, SyncKeeps, SameFine DEF Good
<1>4. ASSUME NEW kind \in {"change", "leave"}, CanAct, Becomes(StartOp(s, kind, Nothing))
      PROVE  Fine
  <2>1. Nothing \in 0..MaxRevision /\ Gen(s) # NoGen
    BY <1>4, SessionAssumption DEF CanAct
  <2>2. Good(StartOp(s, kind, Nothing)) /\ Shown(StartOp(s, kind, Nothing)) = Shown(s)
    BY <2>1, StartOpKeeps DEF Good
  <2>3. QED
    BY <1>4, <2>2, SameFine
<1>5. ASSUME s.queue # NoView
      PROVE  LET x == StartOp(s, "advance", s.queue.playing)
             IN Good(x) /\ Shown(x) = Shown(s)
  <2>1. s.queue \in Views
    BY <1>5 DEF Sessions
  <2>2. s.queue.playing \in 1..MaxRevision /\ s.queue.gen # NoGen
    BY <2>1 DEF Views
  <2>3. Gen(s) # NoGen
    BY <1>5, <2>2 DEF Whole
  <2>4. QED
    BY <2>2, <2>3, StartOpKeeps DEF Good
<1>6. CASE Skip
  BY <1>5, <1>6, SameFine DEF Skip
<1>7. CASE PlaybackEnds
  <2> DEFINE x == IF s.busy THEN [s EXCEPT !.ended = s.queue.playing]
                  ELSE StartOp(s, "advance", s.queue.playing)
  <2>1. s.queue \in Views
    BY <1>7 DEF PlaybackEnds, Sessions
  <2>2. s.queue.playing \in 0..MaxRevision /\ s.queue.gen \in 0..MaxGen
    BY <2>1 DEF Views
  <2>3. ASSUME s.busy PROVE Good(x) /\ Shown(x) = Shown(s)
    <3>1. x = [s EXCEPT !.ended = s.queue.playing]
      BY <2>3
    <3>2. x \in Sessions
      BY <2>2, <3>1 DEF Sessions
    <3>3. /\ x.op = s.op /\ x.flight = s.flight /\ x.stream = s.stream
          /\ x.member = s.member /\ x.queue = s.queue /\ x.revision = s.revision
      BY <3>1 DEF Sessions
    <3> HIDE DEF x
    <3>4. QED
      BY <3>2, <3>3 DEF Good, Whole, Truthful, Shown, Gen
  <2>4. ASSUME ~s.busy PROVE Good(x) /\ Shown(x) = Shown(s)
    <3>1. s.queue # NoView
      BY <1>7 DEF PlaybackEnds
    <3>2. x = StartOp(s, "advance", s.queue.playing)
      BY <2>4
    <3> HIDE DEF x
    <3>3. QED
      BY <1>5, <3>1, <3>2
  <2>5. Good(x) /\ Shown(x) = Shown(s)
    <3> HIDE DEF x
    <3>1. QED
      BY <2>3, <2>4
  <2>6. /\ s' = x /\ UNCHANGED <<server, failures, told>>
        /\ player' = [gen |-> s.queue.gen, entry |-> s.queue.playing]
    BY <1>7 DEF PlaybackEnds
  <2> HIDE DEF x
  <2>7. Advances(s, x)
    BY <2>5, SameShown
  <2>8. s' = x /\ player' \in [gen: 0..MaxGen, entry: 0..MaxRevision]
    BY <2>2, <2>6
  <2>9. QED
    BY <2>5, <2>6, <2>7, <2>8 DEF IInv, ServerInv, Good, Fine, Advances, Gen
<1>8. QED
  BY <1>1, <1>2, <1>3, <1>4, <1>6, <1>7 DEF Person, Mutate, Leave
\* Another state of the flight: what it would be believed for must be true.
LEMMA OtherFlight ==
  ASSUME IInv, NEW f \in Flights, f.view.gen <= server.last,
         f.stage = "current" /\ f.answer \notin {"none", "failed"} /\ f.valid
           => f.view.gen \notin told
  PROVE  LET x == [s EXCEPT !.flight = f]
         IN Good(x) /\ Shown(x) = Shown(s)
<1> DEFINE x == [s EXCEPT !.flight = f]
<1>1. x \in Sessions
  BY InvFacts DEF Sessions
<1>2. /\ x.op = s.op /\ x.flight = f /\ x.stream = s.stream
      /\ x.member = s.member /\ x.queue = s.queue /\ x.revision = s.revision
  BY InvFacts DEF Sessions
<1> HIDE DEF x
<1>3. Good(x) /\ Shown(x) = Shown(s)
  BY <1>1, <1>2, InvFacts DEF Good, Whole, Truthful, Shown, Gen
<1>4. QED
  BY <1>3 DEF x

LEMMA FlightStep ==
  ASSUME IInv, Flight
  PROVE  Fine
<1> USE InvFacts
<1>1. /\ s.flight \in Flights /\ s.flight.view \in Views \cup {NoView}
      /\ s.flight.valid \in BOOLEAN /\ s.flight.recoveries \in 0..Budget
      /\ s.flight.view.gen \in 0..MaxGen /\ s.flight.view.revision \in 0..MaxRevision
      /\ s.flight.view.gen <= server.last
  BY SessionAssumption DEF Sessions, Flights, Good, Truthful, Views, NoView
<1>2. CASE AnswerFlight
  <2> DEFINE Given(view) == [s.flight EXCEPT !.answer = "ok", !.view = view]
             Not == [s.flight EXCEPT !.answer = "refused"]
  <2>1. ASSUME NEW view \in Views \cup {NoView}, view.gen <= server.last,
               s.flight.stage = "current" => view.gen \notin told
        PROVE  Good([s EXCEPT !.flight = Given(view)])
               /\ Shown([s EXCEPT !.flight = Given(view)]) = Shown(s)
    <3>1. Given(view) \in Flights /\ Given(view).view = view
          /\ Given(view).stage = s.flight.stage
      BY <1>1, <2>1 DEF Flights, Answers
    <3> HIDE DEF Given
    <3>2. QED
      BY <2>1, <3>1, OtherFlight
  <2>2. ASSUME s.flight.stage = "read"
        PROVE  Good([s EXCEPT !.flight = Not])
               /\ Shown([s EXCEPT !.flight = Not]) = Shown(s)
    <3>1. Not \in Flights /\ Not.view = s.flight.view /\ Not.stage = "read"
      BY <1>1, <2>2 DEF Flights, Answers
    <3> HIDE DEF Not
    <3>2. QED
      BY <1>1, <3>1, OtherFlight
  <2>3. \/ Becomes([s EXCEPT !.flight.answer = "ok", !.flight.view = ServerView])
        \/ /\ s.flight.stage = "identity"
           /\ Becomes([s EXCEPT !.flight.answer = "ok"])
        \/ /\ s.flight.stage = "read"
           /\ Becomes([s EXCEPT !.flight.answer = "refused"])
    BY <1>2 DEF AnswerFlight
  <2>4. /\ [s EXCEPT !.flight.answer = "ok", !.flight.view = ServerView]
              = [s EXCEPT !.flight = Given(ServerView)]
        /\ [s EXCEPT !.flight.answer = "refused"] = [s EXCEPT !.flight = Not]
    BY <1>1 DEF Sessions, Flights
  <2>5. [s EXCEPT !.flight.answer = "ok"] = [s EXCEPT !.flight = Given(s.flight.view)]
    <3>1. Given(s.flight.view) = [s.flight EXCEPT !.answer = "ok"]
      BY <1>1 DEF Flights
    <3>2. QED
      BY <3>1
  <2>6. ServerView.gen <= server.last /\ ServerView.gen \notin told
    OBVIOUS
  <2> HIDE DEF Given, Not
  <2>7. QED
    BY <1>1, <2>1, <2>2, <2>3, <2>4, <2>5, <2>6, SameFine
<1>3. CASE ResumeCurrent
  <2> DEFINE x == SetMembership(s, s.flight.view.gen, s.flight.view.revision)
  <2>1. CASE Becomes(SyncFailed(s))
    BY <2>1, SyncFailedKeeps, SameFine DEF Good
  <2>2. CASE Becomes(NextRound(s))
    BY <2>2, NextRoundKeeps, SameFine DEF Good
  <2>3. CASE /\ s.flight.stage = "current" /\ s.flight.answer \notin {"none", "failed"}
             /\ s.flight.valid /\ Becomes(Await(x, "identity"))
    <3>1. s.flight.view.gen \notin told
      BY <2>3 DEF Good, Truthful
    <3>2. Good(x) /\ Advances(s, x)
      BY <1>1, <3>1, SetMembershipKeeps DEF Good
    <3> HIDE DEF x
    <3>3. Good(Await(x, "identity")) /\ Shown(Await(x, "identity")) = Shown(x)
      BY <3>2, AwaitKeeps DEF Good
    <3>4. Advances(s, Await(x, "identity"))
      BY <3>2, <3>3, AdvancesThen
    <3>5. QED
      BY <2>3, <3>3, <3>4, BecomesFine
  <2>4. QED
    BY <1>3, <2>1, <2>2, <2>3 DEF ResumeCurrent
<1>4. CASE ResumeIdentity
  <2>1. \/ Becomes(SyncFailed(s)) \/ Becomes(NextRound(s)) \/ Becomes(Synced(s))
        \/ Becomes(Await(s, "read"))
    BY <1>4 DEF ResumeIdentity
  <2>2. QED
    BY <2>1, SyncFailedKeeps, NextRoundKeeps, SyncedKeeps, AwaitKeeps, SameFine DEF Good
<1>5. CASE ResumeRead
  <2> DEFINE x == ApplyQueue(s, s.flight.view, s.flight.valid)
             again == [s EXCEPT !.dirty = TRUE, !.flight.recoveries = @ + 1]
  <2>1. CASE Becomes(Synced(x))
    <3>1. Good(x) /\ Advances(s, x)
      BY <1>1, ApplyQueueKeeps DEF Good
    <3> HIDE DEF x
    <3>2. Good(Synced(x)) /\ Shown(Synced(x)) = Shown(x)
      BY <3>1, SyncedKeeps DEF Good
    <3>3. Advances(s, Synced(x))
      BY <3>1, <3>2, AdvancesThen
    <3>4. QED
      BY <2>1, <3>2, <3>3, BecomesFine
  <2>2. CASE Becomes(SyncFailed(s)) \/ Becomes(NextRound(s))
    BY <2>2, SyncFailedKeeps, NextRoundKeeps, SameFine DEF Good
  <2>3. CASE s.flight.recoveries < Budget /\ Becomes(NextRound(again))
    <3> DEFINE f == [s.flight EXCEPT !.recoveries = @ + 1]
               y == [s EXCEPT !.flight = f]
    <3>1. f \in Flights /\ f.view = s.flight.view /\ f.stage = s.flight.stage
          /\ f.answer = s.flight.answer /\ f.valid = s.flight.valid
      BY <1>1, <2>3 DEF Flights
    <3>2. again = [y EXCEPT !.dirty = TRUE]
      BY DEF Sessions
    <3>3. Good(y) /\ Shown(y) = Shown(s)
      <4> HIDE DEF f
      <4>1. QED
        BY <1>1, <3>1, OtherFlight DEF Good, Truthful
    <3> HIDE DEF y
    <3>4. Good(again) /\ Shown(again) = Shown(s)
      BY <3>2, <3>3 DEF Good, Whole, Truthful, Shown, Gen, Sessions
    <3> HIDE DEF again
    <3>5. Good(NextRound(again)) /\ Shown(NextRound(again)) = Shown(s)
      BY <3>4, NextRoundKeeps DEF Good
    <3>6. QED
      BY <2>3, <3>5, SameFine
  <2>4. \/ Becomes(Synced(x)) \/ Becomes(NextRound(s)) \/ Becomes(SyncFailed(s))
        \/ s.flight.recoveries < Budget /\ Becomes(NextRound(again))
    BY <1>5 DEF ResumeRead
  <2>5. QED
    BY <2>1, <2>2, <2>3, <2>4
<1>6. QED
  BY <1>2, <1>3, <1>4, <1>5 DEF Flight
\* Another state of the stream: its end must be an end.
LEMMA OtherStream ==
  ASSUME IInv, NEW st \in Streams, Gen(s) # NoGen,
         st.event # "none" => st.state = "open",
         st.event = "ended" => Gen(s) # server.gen
  PROVE  LET x == [s EXCEPT !.stream = st]
         IN Good(x) /\ Shown(x) = Shown(s)
<1> DEFINE x == [s EXCEPT !.stream = st]
<1>1. x \in Sessions
  BY InvFacts DEF Sessions
<1>2. /\ x.op = s.op /\ x.flight = s.flight /\ x.stream = st
      /\ x.member = s.member /\ x.queue = s.queue /\ x.revision = s.revision
  BY InvFacts DEF Sessions
<1> HIDE DEF x
<1>3. Good(x) /\ Shown(x) = Shown(s)
  BY <1>1, <1>2, InvFacts DEF Good, Whole, Truthful, Shown, Gen
<1>4. QED
  BY <1>3 DEF x

\* The session is told the end of a membership that has ended.
LEMMA EndedFine ==
  ASSUME IInv, Gen(s) # NoGen, Gen(s) # server.gen, s' = Ended(s),
         told' = told \cup {Gen(s)}, UNCHANGED <<server, player, failures>>
  PROVE  Fine
<1>1. Whole(Ended(s)) /\ Truthful(Ended(s), server.gen, server.last, told \cup {Gen(s)})
  BY InvFacts, EndedKeeps DEF Good
<1>2. Ended(s).member # s.member
  BY InvFacts, EndedKeeps DEF Good
<1>3. Gen(s) \in 1..server.last
  BY InvFacts DEF Good, Truthful, Sessions, Gen
<1>4. IInv'
  BY <1>1, <1>3 DEF IInv, ServerInv
<1>5. QED
  BY <1>2, <1>4 DEF Fine, Advances

LEMMA StreamStep ==
  ASSUME IInv, Stream
  PROVE  Fine
<1> USE InvFacts
<1>1. s.stream \in Streams /\ server.revision \in 0..MaxRevision
      /\ (s.stream.state # "none" \/ s.stream.event # "none" => Gen(s) # NoGen)
  BY DEF Whole, Sessions, IInv, ServerInv
<1>2. CASE StreamOpens
  <2> DEFINE st == [s.stream EXCEPT !.state = "open"]
  <2>1. Becomes([s EXCEPT !.stream = st])
    BY <1>2 DEF StreamOpens
  <2>2. st \in Streams /\ st.state = "open" /\ st.event = "none"
    BY <1>1, <1>2 DEF StreamOpens, Streams, Whole
  <2>3. Gen(s) # NoGen
    BY <1>1, <1>2 DEF StreamOpens
  <2> HIDE DEF st
  <2>4. QED
    BY <2>1, <2>2, <2>3, OtherStream, SameFine
<1>3. CASE StreamSends
  <2> DEFINE st(event, seen) == [s.stream EXCEPT !.event = event, !.seen = seen]
  <2>1. ASSUME NEW event \in {"changed", "ended"}, NEW seen \in 0..MaxRevision,
               event = "ended" => Gen(s) # server.gen
        PROVE  LET x == [s EXCEPT !.stream = st(event, seen)]
               IN Good(x) /\ Shown(x) = Shown(s)
    <3>1. st(event, seen) \in Streams /\ st(event, seen).state = "open"
          /\ st(event, seen).event = event
      BY <1>1, <1>3 DEF StreamSends, Streams
    <3>2. Gen(s) # NoGen
      BY <1>1, <1>3 DEF StreamSends
    <3> HIDE DEF st
    <3>3. QED
      BY <2>1, <3>1, <3>2, OtherStream
  <2>2. \/ Gen(s) # server.gen /\ Becomes([s EXCEPT !.stream = st("ended", s.stream.seen)])
        \/ Becomes([s EXCEPT !.stream = st("changed", server.revision)])
    <3>1. [s.stream EXCEPT !.event = "ended"] = st("ended", s.stream.seen)
      BY <1>1 DEF Streams
    <3>2. [s EXCEPT !.stream.event = "changed", !.stream.seen = server.revision]
            = [s EXCEPT !.stream = st("changed", server.revision)]
      BY <1>1 DEF Streams, Sessions
    <3>3. QED
      BY <1>3, <3>1, <3>2 DEF StreamSends
  <2>3. s.stream.seen \in 0..MaxRevision
    BY <1>1 DEF Streams
  <2> HIDE DEF st
  <2>4. QED
    BY <1>1, <2>1, <2>2, <2>3, SameFine
<1>4. CASE ReceiveChange
  <2> DEFINE st == [s.stream EXCEPT !.event = "none"]
             x == [s EXCEPT !.stream = st]
             h == s.flight # NoFlight
  <2>1. Becomes([Sync(x) EXCEPT !.hinted = h])
    BY <1>4 DEF ReceiveChange
  <2>2. st \in Streams /\ st.event = "none"
    BY <1>1 DEF Streams
  <2>3. Gen(s) # NoGen
    BY <1>1, <1>4 DEF ReceiveChange
  <2> HIDE DEF st
  <2>4. Good(x) /\ Shown(x) = Shown(s)
    BY <2>2, <2>3, OtherStream
  <2> HIDE DEF x
  <2>5. Good(Sync(x)) /\ Shown(Sync(x)) = Shown(s)
    BY <2>4, SyncKeeps DEF Good
  <2>6. h \in BOOLEAN
    OBVIOUS
  <2> HIDE DEF h
  <2>7. LET y == [Sync(x) EXCEPT !.hinted = h]
        IN Good(y) /\ Shown(y) = Shown(s)
    BY <2>5, <2>6, HintedKeeps DEF Good
  <2>8. QED
    BY <2>1, <2>7, SameFine
<1>5. CASE ReceiveEnd
  BY <1>1, <1>5, EndedFine DEF ReceiveEnd, Good, Truthful
<1>6. CASE StreamRefused
  <2>1. Gen(s) # NoGen
    BY <1>1, <1>6 DEF StreamRefused
  <2>2. QED
    BY <1>6, <2>1, DisconnectedKeeps, SameFine DEF StreamRefused, Good
<1>7. CASE Reconnect
  <2>1. Gen(s) # NoGen
    BY <1>1, <1>7 DEF Reconnect
  <2>2. QED
    BY <1>7, <2>1, ConnectKeeps, SameFine DEF Reconnect, Good
<1>8. QED
  BY <1>2, <1>3, <1>4, <1>5, <1>6, <1>7 DEF Stream

\* Another state of the operation, and perhaps the end of the membership: a
\* departure carried out must have ended it.
LEMMA OtherOp ==
  ASSUME IInv, NEW op \in Operations, Gen(s) # NoGen, NEW gen \in {server.gen, NoGen},
         op.kind = "leave" /\ op.answer = "ok" => Gen(s) # gen
  PROVE  LET x == [s EXCEPT !.op = op]
         IN /\ Whole(x) /\ Truthful(x, gen, server.last, told)
            /\ Shown(x) = Shown(s)
<1> DEFINE x == [s EXCEPT !.op = op]
<1>1. x \in Sessions
  BY InvFacts DEF Sessions
<1>2. /\ x.op = op /\ x.flight = s.flight /\ x.stream = s.stream
      /\ x.member = s.member /\ x.queue = s.queue /\ x.revision = s.revision
  BY InvFacts DEF Sessions
<1> HIDE DEF x
<1>3. Whole(x) /\ Truthful(x, gen, server.last, told) /\ Shown(x) = Shown(s)
  BY <1>1, <1>2, InvFacts DEF Good, Whole, Truthful, Shown, Gen
<1>4. QED
  BY <1>3 DEF x
LEMMA OperationStep ==
  ASSUME IInv, Operation
  PROVE  Fine
<1> USE InvFacts
<1>1. /\ s.op \in Operations /\ s.op.view \in Views \cup {NoView}
      /\ (s.op.kind # "none" => Gen(s) # NoGen)
  BY DEF Whole, Sessions, Operations
<1>2. CASE AnswerOp
  <2> DEFINE member == server.gen = Gen(s)
             op(answer, view) == [s.op EXCEPT !.answer = answer, !.view = view]
             x(answer, view) == [s EXCEPT !.op = op(answer, view)]
  <2>1. Gen(s) # NoGen
    BY <1>1, <1>2 DEF AnswerOp
  <2>2. ASSUME NEW answer \in {"ok", "refused"}, NEW view \in Views \cup {NoView},
               NEW gen \in {server.gen, NoGen},
               answer = "ok" /\ s.op.kind = "leave" => Gen(s) # gen
        PROVE  /\ Whole(x(answer, view)) /\ Truthful(x(answer, view), gen, server.last, told)
               /\ Advances(s, x(answer, view))
    <3> DEFINE o == op(answer, view)
    <3>1. o \in Operations /\ o.kind = s.op.kind /\ o.answer = answer
      BY <1>1, <1>2, <2>2 DEF AnswerOp, Operations, Answers
    <3> HIDE DEF o
    <3>2. LET y == [s EXCEPT !.op = o]
          IN Whole(y) /\ Truthful(y, gen, server.last, told) /\ Shown(y) = Shown(s)
      BY <2>1, <2>2, <3>1, OtherOp
    <3>3. x(answer, view) = [s EXCEPT !.op = o]
      BY DEF o
    <3> HIDE DEF x
    <3>4. QED
      BY <3>2, <3>3, SameShown
  <2>3. ASSUME NEW answer \in {"ok", "refused"}, NEW view \in Views \cup {NoView},
               server'.gen \in {server.gen, NoGen}, server'.last = server.last,
               answer = "ok" /\ s.op.kind = "leave" => Gen(s) # server'.gen,
               ServerInv', s' = x(answer, view)
        PROVE  Fine
    <3> HIDE DEF x
    <3>1. told' = told /\ player' = player /\ failures' = failures
      BY <1>2 DEF AnswerOp
    <3>2. QED
      BY <2>2, <2>3, <3>1 DEF Fine, IInv, Advances, Gen
  <2>4. x("ok", s.op.view) = [s EXCEPT !.op.answer = "ok"]
        /\ x("refused", s.op.view) = [s EXCEPT !.op.answer = "refused"]
    <3>1. op("ok", s.op.view) = [s.op EXCEPT !.answer = "ok"]
          /\ op("refused", s.op.view) = [s.op EXCEPT !.answer = "refused"]
      BY <1>1 DEF Operations
    <3>2. QED
      BY <3>1
  <2>5. ASSUME server' = server PROVE ServerInv'
    BY <1>2, <2>5 DEF AnswerOp, IInv, ServerInv
  <2>6. CASE /\ s.op.kind = "leave" /\ s' = [s EXCEPT !.op.answer = "ok"]
             /\ server' = IF member
                          THEN [server EXCEPT !.gen = NoGen, !.revision = 1, !.playing = 1]
                          ELSE server
    <3>1. CASE member
      <4>1. /\ server'.gen = NoGen /\ server'.last = server.last
            /\ server'.revision = 1 /\ server'.playing = 1
        BY <2>6, <3>1 DEF IInv, ServerInv
      <4>2. NoGen \in 0..MaxGen /\ 1 \in 1..MaxRevision
        BY SessionAssumption
      <4>3. server' \in [gen: 0..MaxGen, last: 0..MaxGen, revision: 1..MaxRevision,
                         playing: 1..MaxRevision]
        BY <2>6, <3>1, <4>2 DEF IInv, ServerInv
      <4>4. ServerInv'
        <5>1. told' = told /\ told \subseteq (1..server.last) \ {NoGen}
          BY <1>2 DEF AnswerOp, IInv, ServerInv
        <5> HIDE DEF op, x
        <5>2. QED
          BY <4>1, <4>3, <5>1 DEF ServerInv
      <4> HIDE DEF x
      <4>5. QED
        BY <1>1, <2>1, <2>3, <2>4, <2>6, <4>1, <4>4
    <3>2. CASE ~member
      <4> HIDE DEF x
      <4>1. QED
        BY <1>1, <2>3, <2>4, <2>5, <2>6, <3>2
    <3>3. QED
      BY <3>1, <3>2
  <2>7. CASE s.op.kind # "leave" /\ server' = server /\ s' = [s EXCEPT !.op.answer = "refused"]
    <3> HIDE DEF x
    <3>1. QED
      BY <1>1, <2>3, <2>4, <2>5, <2>7
  <2>8. ASSUME s.op.kind # "leave", server.gen = Gen(s),
               NEW r \in {[server EXCEPT !.revision = @ + 1,
                                         !.playing = IF s.op.kind = "advance" THEN @ + 1 ELSE @],
                          server},
               r.revision <= MaxRevision, server' = r,
               s' = [s EXCEPT !.op.answer = "ok",
                              !.op.view = [gen |-> r.gen, revision |-> r.revision,
                                           playing |-> r.playing]]
        PROVE  Fine
    <3> DEFINE view == [gen |-> r.gen, revision |-> r.revision, playing |-> r.playing]
    <3>1. /\ r.gen = server.gen /\ r.last = server.last
          /\ r.revision \in 1..MaxRevision /\ r.playing \in 1..MaxRevision
          /\ r.playing <= r.revision
      <4>1. CASE r = server
        BY <2>8, <4>1 DEF IInv, ServerInv
      <4>2. CASE r # server
        <5>1. /\ r.gen = server.gen /\ r.last = server.last
              /\ r.revision = server.revision + 1
              /\ r.playing \in {server.playing, server.playing + 1}
          BY <2>8, <4>2 DEF IInv, ServerInv
        <5>2. QED
          BY <2>8, <5>1, SessionAssumption DEF IInv, ServerInv
      <4>3. QED
        BY <4>1, <4>2
    <3>2. r \in [gen: 0..MaxGen, last: 0..MaxGen, revision: 1..MaxRevision,
                 playing: 1..MaxRevision]
      BY <2>8, <3>1 DEF IInv, ServerInv
    <3>3. ServerInv'
      BY <1>2, <2>8, <3>1, <3>2 DEF AnswerOp, IInv, ServerInv
    <3>4. view \in Views \cup {NoView}
      BY <2>1, <2>8, <3>1 DEF Views
    <3>5. s' = x("ok", view)
      BY <1>1, <2>8 DEF Sessions, Operations
    <3> HIDE DEF x, view
    <3>6. QED
      BY <2>3, <2>8, <3>1, <3>3, <3>4, <3>5
  <2>9. QED
    BY <1>2, <2>6, <2>7, <2>8 DEF AnswerOp
<1>3. CASE ResumeOp
  <2>1. Gen(s) # NoGen
    BY <1>1, <1>3 DEF ResumeOp, Operations
  <2>2. CASE s.op.answer = "ok" /\ s.op.kind = "leave"
    BY <1>3, <2>1, <2>2, EndedFine DEF ResumeOp, Good, Truthful
  <2>3. CASE s.op.answer = "ok" /\ s.op.kind # "leave"
    <3> DEFINE x == ApplyQueue(s, s.op.view, TRUE)
    <3>1. Becomes(Finally(x))
      BY <1>3, <2>3 DEF ResumeOp
    <3>2. Good(x) /\ Advances(s, x)
      BY <1>1, ApplyQueueKeeps DEF Good
    <3> HIDE DEF x
    <3>3. Good(Finally(x)) /\ Shown(Finally(x)) = Shown(x)
      BY <3>2, FinallyKeeps DEF Good
    <3>4. Advances(s, Finally(x))
      BY <3>2, <3>3, AdvancesThen
    <3>5. QED
      BY <3>1, <3>3, <3>4, BecomesFine
  <2>4. CASE s.op.answer \in {"refused", "failed"} /\ s.op.kind = "leave"
    <3> DEFINE y == [s EXCEPT !.op = NoOp]
               x == [s EXCEPT !.busy = FALSE, !.op = NoOp]
    <3>1. Becomes(Sync(x))
      BY <1>3, <2>4 DEF ResumeOp
    <3>2. NoOp \in Operations /\ NoOp.kind = "none"
      BY SessionAssumption DEF NoOp, Operations, Answers
    <3>3. Good(y) /\ Shown(y) = Shown(s)
      BY <2>1, <3>2, OtherOp DEF Good
    <3>4. x = [y EXCEPT !.busy = FALSE]
      BY DEF Sessions
    <3> HIDE DEF x, y
    <3>5. x \in Sessions
      BY <3>3, <3>4 DEF Good, Whole, Sessions
    <3>6. /\ x.op = y.op /\ x.flight = y.flight /\ x.stream = y.stream
          /\ x.member = y.member /\ x.queue = y.queue /\ x.revision = y.revision
      BY <3>3, <3>4 DEF Good, Whole, Sessions
    <3>7. Good(x) /\ Shown(x) = Shown(s)
      BY <3>3, <3>5, <3>6 DEF Good, Whole, Truthful, Shown, Gen
    <3>8. QED
      BY <3>1, <3>7, SyncKeeps, SameFine DEF Good
  <2>5. CASE s.op.answer \in {"refused", "failed"} /\ s.op.kind # "leave"
    <3> DEFINE o == [s.op EXCEPT !.answer = "recovering"]
               x == [s EXCEPT !.op = o]
    <3>1. Becomes(Sync(x))
      BY <1>3, <2>5 DEF ResumeOp
    <3>2. o \in Operations /\ o.answer = "recovering"
      BY <1>1, <2>5 DEF Operations
    <3> HIDE DEF o
    <3>3. Good(x) /\ Shown(x) = Shown(s)
      BY <2>1, <3>2, OtherOp DEF Good
    <3> HIDE DEF x
    <3>4. QED
      BY <3>1, <3>3, SyncKeeps, SameFine DEF Good
  <2>6. QED
    BY <1>3, <2>2, <2>3, <2>4, <2>5 DEF ResumeOp
<1>4. CASE FinishOp
  BY <1>4, FinallyKeeps, SameFine DEF FinishOp, Good
<1>5. QED
  BY <1>2, <1>3, <1>4 DEF Operation

LEMMA FailureStep ==
  ASSUME IInv, Failure
  PROVE  Fine
<1> USE InvFacts
<1>1. /\ s.flight \in Flights /\ s.stream \in Streams /\ s.op \in Operations
      /\ (s.op.kind # "none" \/ s.stream.state # "none" => Gen(s) # NoGen)
  BY DEF Whole, Sessions
<1>2. ASSUME NEW x, Fails(x), Good(x), Shown(x) = Shown(s)
      PROVE  Fine
  BY <1>2, FailsFine, SameShown
<1>3. CASE FailFlight
  <2> DEFINE f == [s.flight EXCEPT !.answer = "failed"]
  <2>1. Fails([s EXCEPT !.flight = f])
    BY <1>3 DEF FailFlight
  <2>2. f \in Flights /\ f.answer = "failed" /\ f.view = s.flight.view
    BY <1>1 DEF Flights, Answers
  <2> HIDE DEF f
  <2>3. Good([s EXCEPT !.flight = f]) /\ Shown([s EXCEPT !.flight = f]) = Shown(s)
    BY <2>2, OtherFlight DEF Good, Truthful
  <2>4. QED
    BY <1>2, <2>1, <2>3
<1>4. CASE StreamBreaks
  <2>1. Gen(s) # NoGen /\ Fails(Disconnected(s))
    BY <1>1, <1>4 DEF StreamBreaks
  <2>2. QED
    BY <1>2, <2>1, DisconnectedKeeps DEF Good
<1>5. CASE FailOp
  <2> DEFINE o == [s.op EXCEPT !.answer = "failed", !.view = NoView]
  <2>1. Fails([s EXCEPT !.op = o])
    <3>1. [s EXCEPT !.op.answer = "failed", !.op.view = NoView] = [s EXCEPT !.op = o]
      BY <1>1 DEF Sessions, Operations
    <3>2. QED
      BY <1>5, <3>1 DEF FailOp
  <2>2. o \in Operations /\ o.answer = "failed"
    BY <1>1, <1>5 DEF FailOp, Operations, Answers
  <2>3. Gen(s) # NoGen
    BY <1>1, <1>5 DEF FailOp
  <2> HIDE DEF o
  <2>4. Good([s EXCEPT !.op = o]) /\ Shown([s EXCEPT !.op = o]) = Shown(s)
    BY <2>2, <2>3, OtherOp DEF Good
  <2>5. QED
    BY <1>2, <2>1, <2>4
<1>6. QED
  BY <1>3, <1>4, <1>5 DEF Failure

LEMMA Step ==
  ASSUME IInv, [Next]_vars
  PROVE  Fine
<1>1. CASE UNCHANGED vars
  <2>1. Advances(s, s)
    BY SameShown DEF IInv
  <2>2. QED
    BY <1>1, <2>1 DEF vars, Fine, IInv, ServerInv
<1>2. QED
  BY <1>1, EnvironmentStep, PersonStep, FlightStep, StreamStep, OperationStep, FailureStep DEF Next

LEMMA InitInv == Init => IInv
<1> SUFFICES ASSUME Init PROVE IInv
  OBVIOUS
<1>1. /\ NoOp \in Operations /\ NoStream \in Streams /\ NoFlight \in Flights
      /\ Nothing \in 0..MaxRevision /\ NoGen \in 0..MaxGen /\ 1 \in 1..MaxRevision
      /\ 0 \in 0..MaxFailures
  <2>1. Nothing \in 0..MaxRevision /\ NoGen \in 0..MaxGen /\ 1 \in 1..MaxRevision
        /\ 0 \in 0..MaxFailures
    BY SessionAssumption
  <2>2. NoFlight \in Flights
    BY DEF NoFlight, Flights, Answers, NoView
  <2>3. QED
    BY <2>1, <2>2 DEF NoOp, NoStream, Operations, Streams, Answers
<1>2. ServerInv
  BY <1>1 DEF Init, ServerInv
<1>3. s \in Sessions
  BY <1>1 DEF Init, Sessions
<1>4. Whole(s) /\ Truthful(s, server.gen, server.last, told)
  BY <1>3 DEF Init, Whole, Truthful, Gen, NoOp, NoStream, NoFlight, NoView
<1>5. QED
  BY <1>1, <1>2, <1>4 DEF Init, IInv

-----------------------------------------------------------------------------
(* The theorems.                                                           *)

\* Every reachable state satisfies the inductive invariant: whatever the server,
\* the people, late answers and failures do, what the session holds is of the
\* membership on screen, and what it would believe is not known to have ended.
THEOREM Invariant == Spec => []IInv
<1>1. IInv /\ [Next]_vars => IInv'
  BY Step DEF Fine
<1>2. QED
  BY InitInv, <1>1, PTL DEF Spec

\* The session, the server and the history always have their types.
THEOREM TypeCorrect == Spec => []TypeOK
<1>1. IInv => TypeOK
  <2> SUFFICES ASSUME IInv PROVE TypeOK
    OBVIOUS
  <2>1. told \subseteq 1..MaxGen
    BY SessionAssumption DEF IInv, ServerInv
  <2>2. QED
    BY <2>1 DEF IInv, ServerInv, Whole, TypeOK
<1>2. QED
  BY Invariant, <1>1, PTL

\* The queue on screen is the queue of the membership on screen (setMembership
\* and applyQueue), through every join, transfer, departure and late answer.
THEOREM QueueBelongs == Spec => []QueueBelongsToMembership
<1>1. IInv => QueueBelongsToMembership
  BY DEF IInv, Whole, QueueBelongsToMembership
<1>2. QED
  BY Invariant, <1>1, PTL

\* A membership whose end the session was told, by the stream or by the answer
\* to a departure, never comes back on screen, whatever read was under way.
THEOREM EndedStaysAway == Spec => []EndedNeverReturns
<1>1. IInv => EndedNeverReturns
  BY DEF IInv, Truthful, EndedNeverReturns
<1>2. QED
  BY Invariant, <1>1, PTL

\* No step takes the view of a membership back to an older revision, in whatever
\* order reads and operations are answered.
THEOREM NeverBack == Spec => ViewNeverGoesBack
<1>1. ASSUME IInv, [Next]_vars, s'.member = s.member, Gen(s) # NoGen
      PROVE  s'.revision >= s.revision /\ s'.queue.revision >= s.queue.revision
  BY <1>1, Step DEF Fine, Advances
<1>2. IInv /\ [Next]_vars
        => [s'.member = s.member /\ Gen(s) # NoGen =>
              s'.revision >= s.revision /\ s'.queue.revision >= s.queue.revision]_vars
  BY <1>1
<1>3. QED
  BY <1>2, Invariant, PTL DEF Spec, ViewNeverGoesBack
=============================================================================
