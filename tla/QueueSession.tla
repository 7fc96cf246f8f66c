---------------------------- MODULE QueueSession ----------------------------
(***************************************************************************)
(* The client of one mounted lobby view: class QueueSession of             *)
(* frontendUI/app/lib/queue-state.ts, with the event stream it reads       *)
(* (lib/lobby.ts, streamLobbyEvents) and a server that other clients       *)
(* change at any moment.                                                   *)
(*                                                                         *)
(* JavaScript runs one task at a time: an action is what runs between two  *)
(* awaits.  A request is answered by the server at one moment and its      *)
(* answer is processed at a later one.  Work of an earlier epoch is        *)
(* dropped as soon as its epoch ends: it is aborted, or returns at the     *)
(* first check of its epoch without touching the state.                    *)
(***************************************************************************)
EXTENDS Integers

CONSTANTS
  MaxGen,       \* bound on the membership generations of this user
  MaxRevision,  \* bound on the revisions of a lobby
  MaxFailures,  \* bound on failed requests and broken streams
  Restarts      \* whether a stopped session may be started again

ASSUME SessionAssumption ==
  /\ MaxGen \in Nat /\ MaxRevision \in Nat \ {0}
  /\ MaxFailures \in Nat /\ Restarts \in BOOLEAN

VARIABLES
  server,    \* the truth: generation (NoGen: none), revision, playing entry
  s,         \* the QueueSession object; hinted is history: a hint of the stream
             \* came during a read, and no read was started since
  player,    \* the entry whose end the player reported last
  failures,  \* how many failures happened
  told       \* history: generations the session was told the end of

vars == <<server, s, player, failures, told>>

NoGen == 0
Unknown == -1     \* membership: undefined, before the first read
Nothing == 0      \* no entry
Budget == 2       \* how often one flight recovers from a 403

Views == [gen: 1..MaxGen, revision: 1..MaxRevision, playing: 1..MaxRevision]
NoView == [gen |-> NoGen, revision |-> 0, playing |-> Nothing]
NoFlight == [stage |-> "none", valid |-> FALSE, answer |-> "none", view |-> NoView,
             recoveries |-> 0]
NoStream == [state |-> "none", seen |-> 0, event |-> "none"]
NoOp == [kind |-> "none", entry |-> Nothing, answer |-> "none", view |-> NoView]
Answers == {"none", "ok", "refused", "failed"}

Operations ==
  {op \in [kind: {"none", "change", "leave", "advance"}, entry: 0..MaxRevision,
          answer: Answers \cup {"recovering", "recovered"}, view: Views \cup {NoView}] :
     /\ (op.kind = "advance") = (op.entry # Nothing)
     /\ op.answer # "none" => op.kind # "none"}
Flights == [stage: {"none", "current", "identity", "read"}, valid: BOOLEAN,
            answer: Answers, view: Views \cup {NoView}, recoveries: 0..Budget]
Streams == [state: {"none", "opening", "open", "backoff"}, seen: 0..MaxRevision,
            event: {"none", "changed", "ended"}]
Sessions == [phase: {"new", "on", "off"}, member: {Unknown} \cup (0..MaxGen),
             revision: 0..MaxRevision, queue: Views \cup {NoView}, busy: BOOLEAN,
             op: Operations, ended: 0..MaxRevision, loading: BOOLEAN, syncError: BOOLEAN,
             dirty: BOOLEAN, hinted: BOOLEAN, flight: Flights, stream: Streams]

TypeOK ==
  /\ server \in [gen: 0..MaxGen, last: 0..MaxGen, revision: 1..MaxRevision, playing: 1..MaxRevision]
  /\ s \in Sessions
  /\ player \in [gen: 0..MaxGen, entry: 0..MaxRevision]
  /\ failures \in 0..MaxFailures
  /\ told \subseteq 1..MaxGen

Init ==
  /\ server = [gen |-> NoGen, last |-> NoGen, revision |-> 1, playing |-> 1]
  /\ s = [phase |-> "new", member |-> Unknown, revision |-> 0, queue |-> NoView,
          busy |-> FALSE, op |-> NoOp, ended |-> Nothing, loading |-> TRUE,
          syncError |-> FALSE, dirty |-> FALSE, hinted |-> FALSE, flight |-> NoFlight, stream |-> NoStream]
  /\ player = [gen |-> NoGen, entry |-> Nothing]
  /\ failures = 0
  /\ told = {}

ServerView ==
  IF server.gen = NoGen THEN NoView
  ELSE [gen |-> server.gen, revision |-> server.revision, playing |-> server.playing]

-----------------------------------------------------------------------------
(* The methods, as functions from a session to a session.  An epoch (version *)
(* and membership) is kept as what it is compared for: whether it is still   *)
(* the session's.  The version only grows, so an epoch that has passed never *)
(* comes back.                                                               *)

Active(x) == x.phase = "on"
Gen(x) == IF x.member = Unknown THEN NoGen ELSE x.member
NewVersion(x) == [x EXCEPT !.flight.valid = FALSE]

StartRead(x, recoveries) ==
  [x EXCEPT !.dirty = FALSE, !.hinted = FALSE,
            !.flight = [NoFlight EXCEPT !.stage = "current", !.valid = TRUE,
                                        !.recoveries = recoveries]]

\* Mutant: a read under way is taken to answer every later hint.
SyncOnce(x) == IF Active(x) /\ x.flight = NoFlight THEN StartRead(x, 0) ELSE x

Sync(x) ==
  IF ~Active(x) THEN x
  ELSE IF x.flight = NoFlight THEN StartRead(x, 0)
  ELSE [x EXCEPT !.dirty = TRUE]

\* Mutant: nobody waits for the flight.
SettleAlone(x) == [x EXCEPT !.flight = NoFlight]

\* The promise of the flight settles: a failed operation was waiting for it.
Settle(x) ==
  [x EXCEPT !.flight = NoFlight,
            !.op.answer = IF @ = "recovering" THEN "recovered" ELSE @]

\* The end of an iteration of the loop in synchronize, and its catch.
NextRound(x) == IF x.dirty THEN StartRead(x, x.flight.recoveries) ELSE Settle(x)
SyncFailed(x) == [Settle(x) EXCEPT !.loading = FALSE, !.syncError = TRUE]

Connect(x) == [x EXCEPT !.stream = [NoStream EXCEPT !.state = "opening"]]

Rebound(x, gen, revision) ==
  LET y == [NewVersion(x) EXCEPT !.member = gen, !.revision = revision, !.queue = NoView,
                                 !.busy = FALSE, !.op = NoOp, !.ended = Nothing,
                                 !.stream = NoStream]
  IN IF gen = NoGen THEN y ELSE Connect(y)

\* Mutant: the queue of the previous membership stays until the next read.
SetMembershipKeepingQueue(x, gen, revision) ==
  IF x.member # gen
  THEN [Rebound(x, gen, revision) EXCEPT !.queue = x.queue]
  ELSE [x EXCEPT !.revision = revision]

SetMembership(x, gen, revision) ==
  IF x.member # gen THEN Rebound(x, gen, revision)
  ELSE IF gen # NoGen /\ revision < x.revision THEN x
  ELSE [x EXCEPT !.revision = revision]

\* Mutant: whatever was read last is shown.
ApplyAnyQueue(x, view, valid) == IF valid THEN [x EXCEPT !.queue = view] ELSE x

ApplyQueue(x, view, valid) ==
  IF ~valid \/ view.gen # Gen(x) \/ view.revision < x.queue.revision THEN x
  ELSE [x EXCEPT !.queue = view]

Ended(x) == Sync([SetMembership(x, NoGen, 0) EXCEPT !.loading = FALSE])

StartOp(x, kind, entry) ==
  [x EXCEPT !.busy = TRUE, !.op = [NoOp EXCEPT !.kind = kind, !.entry = entry]]

\* Mutant: the end that was waiting is forgotten.
FinallyForgetful(x) == [x EXCEPT !.busy = FALSE, !.op = NoOp, !.ended = Nothing]

\* The finally of mutate: the end of an entry that came meanwhile is handled.
Finally(x) ==
  LET y == [x EXCEPT !.busy = FALSE, !.op = NoOp, !.ended = Nothing]
  IN IF x.ended # Nothing /\ ~x.syncError /\ x.queue.playing = x.ended
     THEN StartOp(y, "advance", x.ended)
     ELSE y

Becomes(x) == s' = x /\ UNCHANGED <<server, player, failures, told>>
Fails(x) == failures < MaxFailures /\ failures' = failures + 1 /\ s' = x /\ UNCHANGED <<server, player, told>>

-----------------------------------------------------------------------------
(* The server, as the other members, devices and tabs change it.           *)

ServerChanges ==
  /\ server.gen # NoGen /\ server.revision < MaxRevision
  /\ \E playing \in {server.playing, server.playing + 1} :
       server' = [server EXCEPT !.revision = @ + 1, !.playing = playing]
  /\ UNCHANGED <<s, player, failures, told>>

\* The user left elsewhere, or the lobby closed or expired.
ServerEnds ==
  /\ server.gen # NoGen
  /\ server' = [server EXCEPT !.gen = NoGen, !.revision = 1, !.playing = 1]
  /\ UNCHANGED <<s, player, failures, told>>

\* The user joined or was transferred elsewhere.
ServerJoins ==
  /\ server.last < MaxGen
  /\ server' = [gen |-> server.last + 1, last |-> server.last + 1, revision |-> 1, playing |-> 1]
  /\ UNCHANGED <<s, player, failures, told>>

-----------------------------------------------------------------------------
(* Mounting and unmounting.                                                *)

Start ==
  /\ s.phase = "new" \/ (s.phase = "off" /\ Restarts)
  /\ LET x == [s EXCEPT !.phase = "on"]
     IN Becomes(Sync(IF Gen(x) = NoGen THEN x ELSE Connect(x)))

\* What is under way is aborted, or finds its epoch passed.
Stop ==
  /\ Active(s)
  /\ Becomes([s EXCEPT !.phase = "off", !.dirty = FALSE, !.flight = NoFlight,
                       !.op = NoOp, !.ended = Nothing, !.stream = NoStream])

\* The buttons: Retry when the first synchronisation has failed, Check session
\* again without a membership, Reconnect after a failure with one.
SyncByHand ==
  /\ Active(s)
  /\ \/ s.member = Unknown /\ ~s.loading
     \/ s.member = NoGen
     \/ Gen(s) # NoGen /\ s.syncError
  /\ Becomes(Sync(s))

-----------------------------------------------------------------------------
(* The flight of synchronize: current membership, identity, queue.         *)

AnswerFlight ==
  LET f == s.flight
  IN /\ f.stage # "none" /\ f.answer = "none"
     /\ \/ /\ f.stage = "current"
           /\ Becomes([s EXCEPT !.flight.answer = "ok", !.flight.view = ServerView])
        \/ /\ f.stage = "identity"
           /\ Becomes([s EXCEPT !.flight.answer = "ok"])
        \/ /\ f.stage = "read" /\ server.gen = f.view.gen
           /\ Becomes([s EXCEPT !.flight.answer = "ok", !.flight.view = ServerView])
        \/ /\ f.stage = "read" /\ server.gen # f.view.gen
           /\ Becomes([s EXCEPT !.flight.answer = "refused"])

FailFlight ==
  /\ s.flight.stage # "none" /\ s.flight.answer = "none"
  /\ Fails([s EXCEPT !.flight.answer = "failed"])

Await(x, stage) ==
  [x EXCEPT !.flight.stage = stage, !.flight.answer = "none", !.flight.valid = TRUE]

Synced(x) ==
  NextRound(IF x.flight.valid THEN [x EXCEPT !.loading = FALSE, !.syncError = FALSE] ELSE x)

\* Mutant: the answer counts whatever happened since the request.
ResumeCurrentAnyway ==
  LET f == s.flight
  IN /\ f.stage = "current" /\ f.answer # "none"
     /\ Becomes(IF f.answer = "failed" THEN SyncFailed(s)
                ELSE Await(SetMembership(s, f.view.gen, f.view.revision), "identity"))

ResumeCurrent ==
  LET f == s.flight
  IN /\ f.stage = "current" /\ f.answer # "none"
     /\ Becomes(IF f.answer = "failed" THEN SyncFailed(s)
                ELSE IF ~f.valid THEN NextRound(s)
                ELSE Await(SetMembership(s, f.view.gen, f.view.revision), "identity"))

ResumeIdentity ==
  LET f == s.flight
  IN /\ f.stage = "identity" /\ f.answer # "none"
     /\ Becomes(IF f.answer = "failed" THEN SyncFailed(s)
                ELSE IF ~f.valid THEN NextRound(s)
                ELSE IF f.view.gen = NoGen THEN Synced(s)
                ELSE Await(s, "read"))

\* A 403 says that the membership changed: read both again.
ResumeRead ==
  LET f == s.flight
  IN /\ f.stage = "read" /\ f.answer # "none"
     /\ Becomes(IF f.answer = "ok" THEN Synced(ApplyQueue(s, f.view, f.valid))
                ELSE IF ~f.valid THEN NextRound(s)
                ELSE IF f.answer = "refused" /\ f.recoveries < Budget
                THEN NextRound([s EXCEPT !.dirty = TRUE, !.flight.recoveries = @ + 1])
                ELSE SyncFailed(s))

-----------------------------------------------------------------------------
(* The event stream of the displayed membership.                           *)

StreamOpens ==
  /\ s.stream.state = "opening"
  /\ server.gen = Gen(s)
  /\ Becomes([s EXCEPT !.stream.state = "open"])

\* What LobbyEvents promises: a first revision, later ones, the end.
StreamSends ==
  /\ s.stream.state = "open" /\ s.stream.event = "none"
  /\ \/ /\ server.gen # Gen(s)
        /\ Becomes([s EXCEPT !.stream.event = "ended"])
     \/ /\ server.gen = Gen(s) /\ server.revision > s.stream.seen
        /\ Becomes([s EXCEPT !.stream.event = "changed", !.stream.seen = server.revision])

ReceiveChange ==
  /\ s.stream.event = "changed"
  /\ Becomes([Sync([s EXCEPT !.stream.event = "none"]) EXCEPT !.hinted = s.flight # NoFlight])

ReceiveEnd ==
  /\ s.stream.event = "ended"
  /\ told' = told \cup {Gen(s)}
  /\ s' = Ended(s)
  /\ UNCHANGED <<server, player, failures>>

Disconnected(x) == Sync([x EXCEPT !.stream = [NoStream EXCEPT !.state = "backoff"]])

StreamRefused ==
  /\ s.stream.state = "opening" /\ server.gen # Gen(s)
  /\ Becomes(Disconnected(s))

\* The connection breaks, or the token expired and was refreshed.
StreamBreaks == s.stream.state \in {"opening", "open"} /\ Fails(Disconnected(s))

Reconnect == s.stream.state = "backoff" /\ Becomes(Connect(s))

-----------------------------------------------------------------------------
(* What the user and the player do.                                        *)

CanAct == Active(s) /\ Gen(s) # NoGen /\ ~s.busy

Mutate == CanAct /\ Becomes(StartOp(s, "change", Nothing))
Leave == CanAct /\ Becomes(StartOp(s, "leave", Nothing))

\* The host skips the entry on screen.
Skip == CanAct /\ s.queue # NoView /\ Becomes(StartOp(s, "advance", s.queue.playing))

\* The player reached the end of the entry on screen, which it reports once.
\* An operation under way goes first.
PlaybackEnds ==
  LET entry == [gen |-> s.queue.gen, entry |-> s.queue.playing]
  IN /\ Active(s) /\ s.queue # NoView /\ player # entry
     /\ player' = entry
     /\ s' = IF s.busy THEN [s EXCEPT !.ended = s.queue.playing]
             ELSE StartOp(s, "advance", s.queue.playing)
     /\ UNCHANGED <<server, failures, told>>

\* The server carries the operation out, finds nothing to change, or refuses.
AnswerOp ==
  LET member == server.gen = Gen(s)
      fits == s.op.kind = "advance" => server.playing = s.op.entry
      next == [server EXCEPT !.revision = @ + 1,
                             !.playing = IF s.op.kind = "advance" THEN @ + 1 ELSE @]
  IN /\ s.op.kind # "none" /\ s.op.answer = "none"
     /\ \/ /\ s.op.kind = "leave"
           /\ server' = IF member
                        THEN [server EXCEPT !.gen = NoGen, !.revision = 1, !.playing = 1]
                        ELSE server
           /\ s' = [s EXCEPT !.op.answer = "ok"]
        \/ /\ s.op.kind # "leave" /\ (~member \/ ~fits \/ server.revision = MaxRevision)
           /\ UNCHANGED server
           /\ s' = [s EXCEPT !.op.answer = "refused"]
        \/ /\ s.op.kind # "leave" /\ member /\ fits
           /\ \E r \in {next} \cup (IF s.op.kind = "advance" THEN {} ELSE {server}) :
                /\ r.revision <= MaxRevision
                /\ server' = r
                /\ s' = [s EXCEPT !.op.answer = "ok",
                           !.op.view = [gen |-> r.gen, revision |-> r.revision, playing |-> r.playing]]
     /\ UNCHANGED <<player, failures, told>>

\* Lost before or after the server carried it out.
FailOp ==
  /\ s.op.kind # "none" /\ s.op.answer \in {"none", "ok"}
  /\ Fails([s EXCEPT !.op.answer = "failed", !.op.view = NoView])

ResumeOp ==
  LET op == s.op
  IN \/ /\ op.answer = "ok" /\ op.kind = "leave"
        /\ s' = Ended(s)
        /\ told' = told \cup {Gen(s)}
        /\ UNCHANGED <<server, player, failures>>
     \/ /\ op.answer = "ok" /\ op.kind # "leave"
        /\ Becomes(Finally(ApplyQueue(s, op.view, TRUE)))
     \/ /\ op.answer \in {"refused", "failed"} /\ op.kind = "leave"
        /\ Becomes(Sync([s EXCEPT !.busy = FALSE, !.op = NoOp]))
     \/ /\ op.answer \in {"refused", "failed"} /\ op.kind # "leave"
        /\ Becomes(Sync([s EXCEPT !.op.answer = "recovering"]))

\* The read that follows a failed operation is over: finally runs.
FinishOp == s.op.answer = "recovered" /\ Becomes(Finally(s))

Environment == ServerChanges \/ ServerEnds \/ ServerJoins
Person == Start \/ Stop \/ SyncByHand \/ Mutate \/ Skip \/ Leave \/ PlaybackEnds
Flight == AnswerFlight \/ ResumeCurrent \/ ResumeIdentity \/ ResumeRead
Stream == StreamOpens \/ StreamSends \/ ReceiveChange \/ ReceiveEnd \/ StreamRefused \/ Reconnect
Operation == AnswerOp \/ ResumeOp \/ FinishOp
Failure == FailFlight \/ StreamBreaks \/ FailOp

Next == Environment \/ Person \/ Flight \/ Stream \/ Operation \/ Failure

Spec == Init /\ [][Next]_vars

\* Requests are answered or fail, continuations run, timers fire.  Nothing is
\* assumed of the people, the other clients, or failures.
Fairness == WF_vars(Flight) /\ WF_vars(Stream) /\ WF_vars(Operation)

FairSpec == Spec /\ Fairness

-----------------------------------------------------------------------------
(* Safety.                                                                 *)

\* The queue on screen is the queue of the membership on screen, through every
\* join, transfer, departure and late answer.
QueueBelongsToMembership == s.queue # NoView => s.queue.gen = Gen(s)

\* A membership whose end the session was told never comes back on screen: a
\* read that was under way does not restore it.
EndedNeverReturns == s.member \notin told

\* docs/queue-api.md: a hint during a read requires another read.  As long as
\* the stream's hint has not had it, a read must be under way.
HintsAlwaysGetRead == Active(s) /\ s.hinted => s.flight # NoFlight

\* What a membership's view shows never goes back to an older revision, in
\* whatever order reads and operations are answered.
ViewNeverGoesBack ==
  [][s'.member = s.member /\ Gen(s) # NoGen =>
       s'.revision >= s.revision /\ s'.queue.revision >= s.queue.revision]_vars

-----------------------------------------------------------------------------
(* Liveness.                                                               *)

\* A page that shows a membership catches up with the server, finds that the
\* membership ended, or says that it could not synchronise: it is never
\* silently stale, whatever hints, reads and operations overlapped.
NeverSilentlyStale ==
  Active(s) /\ Gen(s) # NoGen
    ~> s.queue = ServerView \/ Gen(s) = NoGen \/ s.syncError \/ ~Active(s)

\* Every operation gives the controls back.
BusyEnds == s.busy /\ Active(s) ~> ~s.busy \/ ~Active(s)

\* The end of an entry that comes while an operation is under way is followed
\* by the request to advance from it, unless the entry is gone by then or the
\* page could not synchronise.  (Leaving is not such an operation: after a
\* failed departure the end waits for the next operation.)
EndIsDelivered ==
  \A e \in 1..MaxRevision :
    (s.ended = e /\ s.op.kind \in {"change", "advance"})
      ~> \/ s.op.kind = "advance" /\ s.op.entry = e
         \/ s.queue.playing # e \/ s.syncError \/ ~Active(s)
=============================================================================
