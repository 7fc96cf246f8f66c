---------------------------- MODULE LobbyEvents ----------------------------
(***************************************************************************)
(* Membership event streams: the process-local hub and the connections of  *)
(* backend/src/lobbies/updates.rs, opened by routes/lobbies.rs (events)    *)
(* and fed by the handlers that publish after their transaction committed. *)
(*                                                                         *)
(* A hint is published outside the transaction, so hints of two handlers   *)
(* may be swapped, and one is lost when its handler is cancelled or its    *)
(* process dies in between.  Of time, only the order of the wall clock and *)
(* the deadlines is kept; the one-second timer may fire at any moment.     *)
(***************************************************************************)
EXTENDS LobbyLife, Sequences, FiniteSets

CONSTANTS
  Conns,     \* event stream requests being served
  Capacity,  \* hints a receiver can hold; 256 in the code
  MaxPending,  \* bound on the publications under way at a time
  MaxLost      \* bound on the publications lost

ASSUME EventsAssumption ==
  /\ Capacity \in Nat \ {0}
  /\ MaxPending \in Nat
  /\ MaxLost \in Nat

VARIABLES
  pending,   \* committed <<lobby, revision>> whose handler has not published yet
  lost,      \* the ones never published
  conn,      \* the connections
  departed   \* history: <<generation, the revision of its lobby that ended it>>

eventVars == <<pending, lost, conn, departed>>
allVars == <<lifeVars, eventVars>>

NoGen == 0
None == 0     \* last_revision: None; revisions start at 1

Off == [phase |-> "off", gen |-> NoGen, lobby |-> 1, until |-> 0, last |-> None,
        inbox |-> <<>>, lagged |-> FALSE, snap |-> <<>>, said |-> "nothing"]

Hints == Lobbies \X (1..MaxRevision)
Snapshots == [row: BOOLEAN, revision: 0..MaxRevision, closed: BOOLEAN, member: BOOLEAN]
Inboxes == UNION {[1..n -> Lobbies] : n \in 0..Capacity}
Connection ==
  [phase: {"off", "subscribed", "waiting", "reading", "read", "over"},
   gen: 0..MaxMemberships, lobby: Lobbies, until: 0..(MaxTime + 1), last: 0..MaxRevision,
   inbox: Inboxes, lagged: BOOLEAN, snap: Snapshots \cup {<<>>},
   said: {"nothing", "sync_required", "lobby_changed", "left", "closed", "expired", "auth_expired"}]

EventsTypeOK ==
  /\ pending \subseteq Hints
  /\ lost \subseteq Hints
  /\ departed \subseteq (1..MaxMemberships) \X (1..MaxRevision)
  /\ conn \in [Conns -> Connection]

EventsInit ==
  /\ LifeInit
  /\ pending = {}
  /\ lost = {}
  /\ conn = [c \in Conns |-> Off]
  /\ departed = {}

-----------------------------------------------------------------------------
(* Commits and publications.                                               *)

\* Any transaction of the store.  Every one that moved a revision has a
\* handler that is about to publish it.
Commit ==
  /\ LifeNext
  /\ LET moved == {l \in Lobbies : life'[l].revision # life[l].revision}
     IN /\ Cardinality(pending) + Cardinality(moved) <= MaxPending
        /\ pending' = pending \cup {<<l, life'[l].revision>> : l \in moved}
        /\ departed' = departed \cup {<<m.id, life'[m.lobby].revision>> :
                                      m \in {x \in members \ members' : x.lobby \in moved}}
  /\ UNCHANGED <<lost, conn>>

\* Mutant: a full receiver drops the hint without noticing.
ReceiveOrDrop(k, l) ==
  IF k.phase = "off" \/ Len(k.inbox) = Capacity THEN k
  ELSE [k EXCEPT !.inbox = Append(@, l)]

\* A broadcast channel overwrites the oldest hint and tells the receiver.
Receive(k, l) ==
  IF k.phase = "off" THEN k
  ELSE IF Len(k.inbox) < Capacity THEN [k EXCEPT !.inbox = Append(@, l)]
  ELSE [k EXCEPT !.inbox = Append(Tail(@), l), !.lagged = TRUE]

Publish(p) ==
  /\ pending' = pending \ {p}
  /\ conn' = [c \in Conns |-> Receive(conn[c], p[1])]
  /\ UNCHANGED <<lifeVars, lost, departed>>

LosePublication(p) ==
  /\ Cardinality(lost) < MaxLost
  /\ pending' = pending \ {p}
  /\ lost' = lost \cup {p}
  /\ UNCHANGED <<lifeVars, conn, departed>>

-----------------------------------------------------------------------------
(* Opening a stream (routes/lobbies.rs, events).                           *)

Becomes(c, k) ==
  /\ conn' = [conn EXCEPT ![c] = k]
  /\ UNCHANGED <<lifeVars, pending, lost, departed>>

Subscribe(c) ==
  /\ conn[c].phase = "off"
  /\ \E until \in (now + 1)..(MaxTime + 1) :
       Becomes(c, [Off EXCEPT !.phase = "subscribed", !.until = until])

\* require_lobby_account and stream_membership, then the two deadline checks.
Bind(c) ==
  /\ conn[c].phase = "subscribed"
  /\ now < conn[c].until
  /\ \E m \in members :
       /\ Usable(m.lobby)
       /\ Becomes(c, [conn[c] EXCEPT !.phase = "waiting", !.gen = m.id, !.lobby = m.lobby])

\* A refused request, a client that goes away, a connection that breaks.
Disconnect(c) ==
  /\ conn[c].phase # "off"
  /\ Becomes(c, Off)

-----------------------------------------------------------------------------
(* Serving a stream (Connection::stream).                                  *)

Streaming(c) == conn[c].phase \in {"waiting", "reading", "read"}
Deadline(c) == now >= conn[c].until \/ now >= life[conn[c].lobby].expires

\* Mutant: only the token's deadline is watched.
TerminateToken(c) ==
  /\ Streaming(c)
  /\ now >= conn[c].until
  /\ Becomes(c, [conn[c] EXCEPT !.phase = "over", !.snap = <<>>, !.said = "auth_expired"])

\* A deadline is reported even while a read of the store is blocked.
Terminate(c) ==
  /\ Streaming(c)
  /\ Deadline(c)
  /\ Becomes(c, [conn[c] EXCEPT !.phase = "over", !.snap = <<>>,
                   !.said = IF now >= conn[c].until THEN "auth_expired" ELSE "expired"])

ReadFirst(c) ==
  /\ conn[c].phase = "waiting" /\ ~Deadline(c)
  /\ conn[c].last = None
  /\ Becomes(c, [conn[c] EXCEPT !.phase = "reading"])

\* Mutant: the timer only reads when a hint is waiting.
TimerAfterHint(c) ==
  /\ conn[c].phase = "waiting" /\ ~Deadline(c)
  /\ conn[c].last # None /\ conn[c].inbox # <<>>
  /\ Becomes(c, [conn[c] EXCEPT !.phase = "reading"])

\* The next read or the keepalive is due.
Timer(c) ==
  /\ conn[c].phase = "waiting" /\ ~Deadline(c)
  /\ conn[c].last # None
  /\ Becomes(c, [conn[c] EXCEPT !.phase = "reading"])

\* A hint of this lobby, or the news that hints were missed, starts a read; a
\* hint of another lobby does not.
Hint(c) ==
  LET k == conn[c]
  IN /\ k.phase = "waiting" /\ ~Deadline(c)
     /\ k.last # None
     /\ k.inbox # <<>>
     /\ Becomes(c, IF k.lagged THEN [k EXCEPT !.lagged = FALSE, !.phase = "reading"]
                   ELSE [k EXCEPT !.inbox = Tail(@),
                           !.phase = IF Head(k.inbox) = k.lobby THEN "reading" ELSE "waiting"])

\* bound_stream_state: one statement, one coherent snapshot.
ReadState(c) ==
  /\ conn[c].phase = "reading"
  /\ Becomes(c, [conn[c] EXCEPT !.phase = "read",
       !.snap = [row |-> life[conn[c].lobby].state # "gone",
                 revision |-> life[conn[c].lobby].revision,
                 closed |-> life[conn[c].lobby].state = "closed",
                 member |-> \E m \in In(conn[c].lobby) : m.id = conn[c].gen]])

FailRead(c) ==
  /\ conn[c].phase = "reading"
  /\ Becomes(c, [conn[c] EXCEPT !.phase = "over"])

\* Mutant: the revision is queried again after the membership was found.
AnswerFresh(k) ==
  LET r == life[k.lobby].revision
  IN IF k.snap.closed THEN [k EXCEPT !.phase = "over", !.snap = <<>>, !.said = "closed"]
     ELSE IF ~k.snap.member THEN [k EXCEPT !.phase = "over", !.snap = <<>>, !.said = "left"]
     ELSE [k EXCEPT !.phase = "waiting", !.snap = <<>>, !.last = r,
             !.said = IF k.last = None THEN "sync_required" ELSE "lobby_changed"]

\* Mutant: membership is looked at before closure.
AnswerMemberFirst(k) ==
  LET s == k.snap
  IN IF ~s.member \/ s.closed
     THEN [k EXCEPT !.phase = "over", !.snap = <<>>, !.said = IF s.member THEN "closed" ELSE "left"]
     ELSE [k EXCEPT !.phase = "waiting", !.snap = <<>>, !.last = s.revision]

\* What the stream says of the snapshot it has read.
Answer(k) ==
  LET s == k.snap
      after(said) == [k EXCEPT !.phase = "over", !.snap = <<>>, !.said = said]
  IN IF ~s.row THEN after(k.said)
     ELSE IF s.closed THEN after("closed")
     ELSE IF ~s.member THEN after("left")
     ELSE IF k.last = None \/ s.revision > k.last
     THEN [k EXCEPT !.phase = "waiting", !.snap = <<>>, !.last = s.revision,
             !.said = IF k.last = None THEN "sync_required" ELSE "lobby_changed"]
     ELSE [k EXCEPT !.phase = "waiting", !.snap = <<>>]

Finish(c) ==
  /\ conn[c].phase = "read" /\ ~Deadline(c)
  /\ Becomes(c, Answer(conn[c]))

Serve(c) ==
  \/ Subscribe(c) \/ Bind(c) \/ Disconnect(c)
  \/ Terminate(c) \/ ReadFirst(c) \/ Timer(c) \/ Hint(c)
  \/ ReadState(c) \/ FailRead(c) \/ Finish(c)

EventsNext ==
  \/ Commit
  \/ \E p \in pending : Publish(p) \/ LosePublication(p)
  \/ \E c \in Conns : Serve(c)

EventsSpec == EventsInit /\ [][EventsNext]_allVars

\* Tokio runs the server's side of a stream, and the client keeps reading it:
\* timers fire, reads return.  Nothing is assumed of hints, commits, clients
\* that open or drop streams, failures or the clock.
EventsFairness ==
  \A c \in Conns :
    /\ WF_allVars(Terminate(c))
    /\ WF_allVars(ReadFirst(c) \/ Timer(c))
    /\ WF_allVars(ReadState(c))
    /\ WF_allVars(Finish(c))

FairEventsSpec == EventsSpec /\ EventsFairness

-----------------------------------------------------------------------------
(* Safety.                                                                 *)

\* The revision a stream has seen, reported or about to be.
Seen(k) == IF k.phase = "read" THEN k.snap.revision ELSE k.last

\* No wakeup is lost: while a stream waits, or works on what it has read, and
\* its lobby has moved on, a hint of that is in its receiver, or the receiver
\* knows that it missed some, or the publication is still to come, or it was
\* never made.  Subscribing before the membership is read and consuming a hint
\* before the state is read are what this rests on.
HintsWakeReaders ==
  \A c \in Conns :
    LET k == conn[c]
    IN /\ k.phase \in {"waiting", "read"}
       /\ k.phase = "waiting" => k.last # None
       /\ Seen(k) < life[k.lobby].revision
       => \/ \E i \in 1..Len(k.inbox) : k.inbox[i] = k.lobby
          \/ k.lagged
          \/ \E p \in pending \cup lost : p[1] = k.lobby /\ p[2] > Seen(k)

\* A stream never reports a revision that its generation did not live to see:
\* whoever left or was transferred learns nothing of the lobby from then on.
NothingSeenAfterLeaving ==
  \A c \in Conns : \A d \in departed : d[1] = conn[c].gen => conn[c].last < d[2]

\* The reason a stream gives when it ends is the truth about its generation:
\* "left" is never said of one that the closing of the lobby ended.
ReasonsAreTrue ==
  \A c \in Conns :
    LET k == conn[c]
        l == life[k.lobby]
        leftAt == {d[2] : d \in {x \in departed : x[1] = k.gen}}
    IN /\ k.said = "left" => \E r \in leftAt : l.state = "closed" => r < l.revision
       /\ k.said = "closed" => leftAt # {} /\ l.state \in {"closed", "gone"}
       /\ k.said = "expired" => now >= l.expires
       /\ k.said = "auth_expired" => now >= k.until

\* docs/lobby-api.md: every connected client using a departed generation
\* receives membership_ended with reason "left".
DepartedHearLeft ==
  \A c \in Conns :
    conn[c].said = "closed" => <<conn[c].gen, life[conn[c].lobby].revision>> \in departed

-----------------------------------------------------------------------------
(* Liveness.                                                               *)

\* Even if the hint of a change was lost, a stream that stays open reports a
\* revision at least as new: the one-second read finds it.
ChangesAreReported ==
  \A c \in Conns, r \in 1..MaxRevision :
    (Streaming(c) /\ life[conn[c].lobby].revision >= r) ~> (conn[c].last >= r \/ ~Streaming(c))

\* A stream ends once its token or lobby expired or its generation is gone,
\* whether or not anybody is told of it.
AccessEnds ==
  \A c \in Conns :
    (Streaming(c) /\ (Deadline(c) \/ \A m \in members : m.id # conn[c].gen)) ~> ~Streaming(c)
=============================================================================
