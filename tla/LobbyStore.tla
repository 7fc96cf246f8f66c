----------------------------- MODULE LobbyStore -----------------------------
(***************************************************************************)
(* The SQLite store of lobbies, memberships and queues:                    *)
(* backend/src/database/lobbies.rs, database/queue.rs and the lobby part   *)
(* of the cleanup task in database.rs.                                     *)
(*                                                                         *)
(* Every writer runs inside one BEGIN IMMEDIATE transaction, so SQLite     *)
(* serialises them and each is one action here.  A request that is         *)
(* refused, busy or fails is rolled back: it changes no state and is a     *)
(* stuttering step.  The several clock reads of one transaction are        *)
(* collapsed into one, the last deadline check before COMMIT.              *)
(*                                                                         *)
(* Ids are 128-bit values of the system's random source, retried on a      *)
(* collision: they are modelled as never repeating, numbered in the order  *)
(* they are issued.  Running out of numbers is a failed allocation.        *)
(***************************************************************************)
EXTENDS Integers, FiniteSets

CONSTANTS
  Users,           \* accounts; the users table never loses a row
  NoUser,          \* the owner of a lobby id that was not issued yet
  Requests,        \* idempotency keys a client chooses for its submissions
  FixedCounts,     \* vote counts a host may fix
  Lifetime,        \* seconds from creation to expiry (one day in the code)
  MaxTime,         \* bound on the clock
  MaxLobbies,      \* bound on the lobbies ever created
  MaxMemberships,  \* bound on the membership generations ever created
  MaxEntries,      \* bound on the queue entries ever submitted
  MaxRevision      \* the largest revision; i64::MAX in the code

ASSUME StoreAssumption ==
  /\ IsFiniteSet(Users)
  /\ NoUser \notin Users
  /\ FixedCounts \subseteq Nat \ {0}
  /\ Lifetime \in Nat \ {0}
  /\ MaxTime \in Nat
  /\ MaxLobbies \in Nat
  /\ MaxMemberships \in Nat
  /\ MaxEntries \in Nat
  /\ MaxRevision \in Nat \ {0}

VARIABLES
  lobbies,      \* lobbies: one row per id; state "free" before, "gone" after its life
  memberships,  \* lobby_memberships: rows [id, user, lobby]
  policy,       \* lobby_queue_policies: Majority, a fixed count, or NoPolicy (no row)
  entries,      \* queue_entries: rows [id, lobby, user, request], consumed ones included
  order,        \* queue_order: per lobby, active entry |-> position
  votes,        \* queue_votes: rows <<entry, user>>
  issued,       \* how many ids of each kind were issued
  now           \* the wall clock in seconds

vars == <<lobbies, memberships, policy, entries, order, votes, issued, now>>
queueVars == <<entries, order, votes, policy>>

Majority == 0
NoPolicy == -1
Lobbies == 1..MaxLobbies

LobbyRow == [state: {"free", "open", "closed", "gone"}, owner: Users \cup {NoUser},
             expires: Nat, revision: 0..MaxRevision]
MembershipRow == [id: 1..MaxMemberships, user: Users, lobby: Lobbies]
EntryRow == [id: 1..MaxEntries, lobby: Lobbies, user: Users, request: Requests]

\* The rows of queue_order of one lobby: entry ids with their positions.
IsOrder(ord) ==
  /\ DOMAIN ord \subseteq 1..MaxEntries
  /\ ord \in [DOMAIN ord -> Nat]

TypeOK ==
  /\ lobbies \in [Lobbies -> LobbyRow]
  /\ memberships \subseteq MembershipRow
  /\ policy \in [Lobbies -> {NoPolicy, Majority} \cup FixedCounts]
  /\ entries \subseteq EntryRow
  /\ order = [l \in Lobbies |-> order[l]]
  /\ \A l \in Lobbies : IsOrder(order[l])
  /\ votes \subseteq (1..MaxEntries) \X Users
  /\ issued \in [lobby: 0..MaxLobbies, membership: 0..MaxMemberships, entry: 0..MaxEntries]
  /\ now \in 0..MaxTime

Init ==
  /\ lobbies = [l \in Lobbies |-> [state |-> "free", owner |-> NoUser, expires |-> 0, revision |-> 0]]
  /\ memberships = {}
  /\ policy = [l \in Lobbies |-> NoPolicy]
  /\ entries = {}
  /\ order = [l \in Lobbies |-> <<>>]
  /\ votes = {}
  /\ issued = [lobby |-> 0, membership |-> 0, entry |-> 0]
  /\ now = 0

-----------------------------------------------------------------------------
(* What the queries of a transaction read.                                 *)

Active(l) == lobbies[l].state = "open" /\ now < lobbies[l].expires

Host(m) == lobbies[m.lobby].owner = m.user

\* Mutant: the membership is deleted whether its lobby ended or not.
WithoutAny(u) == {m \in memberships : m.user # u}

\* A user's membership of a lobby that closed or expired no longer counts.
WithoutStale(u) == {m \in memberships : ~(m.user = u /\ ~Active(m.lobby))}

\* Mutant: the caller's membership is looked up through the lobby's owner.
CurrentAsHost(u) == {m \in WithoutStale(u) : m.user = u /\ Host(m)}

\* The membership a creating or joining user already has.
Current(u) == {m \in WithoutStale(u) : m.user = u}

Guests(ms, l) == {m.user : m \in {x \in ms : x.lobby = l /\ ~Host(x)}}

ActiveVotes(ms, vs, l, e) == {u \in Guests(ms, l) : <<e, u>> \in vs}

Threshold(p, guests) == IF p = Majority THEN guests \div 2 + 1 ELSE p

\* The active entries that the votes of the lobby's guests remove.
Qualifying(ms, vs, p, l) ==
  {e \in DOMAIN order[l] :
     /\ Guests(ms, l) # {}
     /\ Cardinality(ActiveVotes(ms, vs, l, e)) >= Threshold(p, Cardinality(Guests(ms, l)))}

\* ordered_ids, retain, replace_order: the kept entries, renumbered from 0.
Retain(ord, kept) == [e \in kept |-> Cardinality({f \in kept : ord[f] < ord[e]})]

\* Mutants: the guests are counted before the change; the order is rebuilt
\* from every entry ever submitted.
ReevaluateBefore(ms, vs, p, l) ==
  LET removed == Qualifying(memberships, vs, p, l)
  IN IF removed = {} THEN order[l] ELSE Retain(order[l], DOMAIN order[l] \ removed)
ReevaluateAll(ms, vs, p, l) ==
  LET kept == {x.id : x \in {y \in entries : y.lobby = l}} \ Qualifying(ms, vs, p, l)
  IN [e \in kept |-> Cardinality({f \in kept : f < e})]

Reevaluate(ms, vs, p, l) ==
  LET removed == Qualifying(ms, vs, p, l)
  IN IF removed = {} THEN order[l] ELSE Retain(order[l], DOMAIN order[l] \ removed)

\* to_index counts the upcoming entries, behind the one that plays.
Destination(index) == index + 1

\* Mutant: the entry at the destination changes places with the moved one.
Swap(ord, e, to) ==
  [f \in DOMAIN ord |-> IF f = e THEN to ELSE IF ord[f] = to THEN ord[e] ELSE ord[f]]

\* Vec::remove then Vec::insert, on the positions.
Shift(ord, e, to) ==
  [f \in DOMAIN ord |->
     IF f = e THEN to
     ELSE IF ord[e] < ord[f] /\ ord[f] <= to THEN ord[f] - 1
     ELSE IF to <= ord[f] /\ ord[f] < ord[e] THEN ord[f] + 1
     ELSE ord[f]]

\* Mutants: the increment wraps or overflows; a transfer counts in one lobby.
CanAlwaysBump(l) == TRUE
BumpOne(ls) == \E k \in ls : lobbies' = [lobbies EXCEPT ![k].revision = @ + 1]

CanBump(l) == lobbies[l].revision < MaxRevision
Bump(ls) == lobbies' = [l \in Lobbies |-> IF l \in ls THEN [lobbies[l] EXCEPT !.revision = @ + 1]
                                          ELSE lobbies[l]]

-----------------------------------------------------------------------------
(* Lobby and membership transactions (database/lobbies.rs).                *)

CreateLobby(u) ==
  LET l == issued.lobby + 1
      m == issued.membership + 1
  IN /\ l <= MaxLobbies /\ m <= MaxMemberships
     /\ Current(u) = {}
     /\ lobbies' = [lobbies EXCEPT ![l] = [state |-> "open", owner |-> u,
                                           expires |-> now + Lifetime, revision |-> 1]]
     /\ memberships' = WithoutStale(u) \cup {[id |-> m, user |-> u, lobby |-> l]}
     /\ policy' = [policy EXCEPT ![l] = Majority]
     /\ issued' = [issued EXCEPT !.lobby = l, !.membership = m]
     /\ UNCHANGED <<entries, order, votes, now>>

\* Joining the lobby one is already in changes nothing; a guest of another
\* lobby leaves it in the same transaction; a host has to close its own first.
JoinLobby(u, l) ==
  LET m == issued.membership + 1
      old == Current(u)
      joined == (WithoutStale(u) \ old) \cup {[id |-> m, user |-> u, lobby |-> l]}
      touched == {l} \cup {x.lobby : x \in old}
  IN /\ Active(l)
     /\ \A x \in old : x.lobby # l /\ ~Host(x)
     /\ \A k \in touched : CanBump(k)
     /\ m <= MaxMemberships
     /\ memberships' = joined
     /\ order' = [k \in Lobbies |-> IF k \in touched THEN Reevaluate(joined, votes, policy[k], k)
                                    ELSE order[k]]
     /\ Bump(touched)
     /\ issued' = [issued EXCEPT !.membership = m]
     /\ UNCHANGED <<policy, entries, votes, now>>

\* Access already ended: the row goes, nothing is published.
LeaveStale(m) ==
  /\ ~Active(m.lobby)
  /\ memberships' = memberships \ {m}
  /\ UNCHANGED <<lobbies, policy, entries, order, votes, issued, now>>

LeaveAsGuest(m) ==
  /\ Active(m.lobby)
  /\ ~Host(m)
  /\ CanBump(m.lobby)
  /\ memberships' = memberships \ {m}
  /\ order' = [order EXCEPT ![m.lobby] =
                 Reevaluate(memberships \ {m}, votes, policy[m.lobby], m.lobby)]
  /\ Bump({m.lobby})
  /\ UNCHANGED <<policy, entries, votes, issued, now>>

\* Mutant: without foreign keys the positions and votes stay.
DropEntriesOnly(ls) ==
  /\ entries' = {e \in entries : e.lobby \notin ls}
  /\ policy' = [l \in Lobbies |-> IF l \in ls THEN NoPolicy ELSE policy[l]]
  /\ memberships' = {m \in memberships : m.lobby \notin ls}
  /\ UNCHANGED <<order, votes>>

\* DELETE FROM queue_entries cascades to queue_order and queue_votes.
DropQueues(ls) ==
  /\ entries' = {e \in entries : e.lobby \notin ls}
  /\ votes' = {v \in votes : \A e \in entries : e.id = v[1] => e.lobby \notin ls}
  /\ order' = [l \in Lobbies |-> IF l \in ls THEN <<>> ELSE order[l]]
  /\ policy' = [l \in Lobbies |-> IF l \in ls THEN NoPolicy ELSE policy[l]]
  /\ memberships' = {m \in memberships : m.lobby \notin ls}

\* The owner leaving closes the lobby for everyone.
CloseLobby(m) ==
  /\ Active(m.lobby)
  /\ Host(m)
  /\ CanBump(m.lobby)
  /\ lobbies' = [lobbies EXCEPT ![m.lobby] = [state |-> "closed", owner |-> @.owner,
                                              expires |-> @.expires, revision |-> @.revision + 1]]
  /\ DropQueues({m.lobby})
  /\ UNCHANGED <<issued, now>>

\* The cleanup task: expired rows go, and everything that references them.
DeleteExpired ==
  LET expired == {l \in Lobbies : lobbies[l].state \in {"open", "closed"} /\ lobbies[l].expires <= now}
  IN /\ expired # {}
     /\ lobbies' = [l \in Lobbies |-> IF l \in expired THEN [lobbies[l] EXCEPT !.state = "gone"]
                                      ELSE lobbies[l]]
     /\ DropQueues(expired)
     /\ UNCHANGED <<issued, now>>

-----------------------------------------------------------------------------
(* Queue transactions (database/queue.rs), each bound to a membership row  *)
(* m that authorize has found.                                             *)

Member(m) == Active(m.lobby) /\ CanBump(m.lobby)
HostOnly(m) == Member(m) /\ Host(m)
GuestOnly(m) == Member(m) /\ ~Host(m)

\* A request id already used in this lobby by this user answers with its
\* receipt and changes nothing.
Receipt(m, r) == \E x \in entries : x.lobby = m.lobby /\ x.user = m.user /\ x.request = r

SubmitEntry(m, r) ==
  LET e == issued.entry + 1
      l == m.lobby
  IN /\ Member(m)
     /\ ~Receipt(m, r)
     /\ e <= MaxEntries
     /\ entries' = entries \cup {[id |-> e, lobby |-> l, user |-> m.user, request |-> r]}
     /\ order' = [order EXCEPT ![l] = [f \in DOMAIN order[l] \cup {e} |->
                    IF f = e THEN Cardinality(DOMAIN order[l]) ELSE order[l][f]]]
     /\ issued' = [issued EXCEPT !.entry = e]
     /\ Bump({l})
     /\ UNCHANGED <<memberships, policy, votes, now>>

MoveEntry(m, e, index, expected) ==
  LET l == m.lobby
      destination == Destination(index)
  IN /\ HostOnly(m)
     /\ lobbies[l].revision = expected
     /\ e \in DOMAIN order[l]
     /\ order[l][e] # 0
     /\ destination < Cardinality(DOMAIN order[l])
     /\ order[l][e] # destination
     /\ order' = [order EXCEPT ![l] = Shift(order[l], e, destination)]
     /\ Bump({l})
     /\ UNCHANGED <<memberships, policy, entries, votes, issued, now>>

Vote(m, e) ==
  LET l == m.lobby
      cast == votes \cup {<<e, m.user>>}
  IN /\ GuestOnly(m)
     /\ e \in DOMAIN order[l]
     /\ <<e, m.user>> \notin votes
     /\ votes' = cast
     /\ order' = [order EXCEPT ![l] = Reevaluate(memberships, cast, policy[l], l)]
     /\ Bump({l})
     /\ UNCHANGED <<memberships, policy, entries, issued, now>>

SetPolicy(m, p) ==
  LET l == m.lobby
  IN /\ HostOnly(m)
     /\ policy[l] # p
     /\ policy' = [policy EXCEPT ![l] = p]
     /\ order' = [order EXCEPT ![l] = Reevaluate(memberships, votes, p, l)]
     /\ Bump({l})
     /\ UNCHANGED <<memberships, entries, votes, issued, now>>

Remove(l, e) ==
  /\ e \in DOMAIN order[l]
  /\ order' = [order EXCEPT ![l] = Retain(order[l], DOMAIN order[l] \ {e})]
  /\ Bump({l})
  /\ UNCHANGED <<memberships, policy, entries, votes, issued, now>>

\* The host's player asks for the entry it has just finished.
AdvanceQueue(m, e) ==
  /\ HostOnly(m)
  /\ e \in DOMAIN order[m.lobby]
  /\ order[m.lobby][e] = 0
  /\ Remove(m.lobby, e)

VetoEntry(m, e) ==
  /\ HostOnly(m)
  /\ Remove(m.lobby, e)

-----------------------------------------------------------------------------
Tick ==
  /\ now < MaxTime
  /\ now' = now + 1
  /\ UNCHANGED <<lobbies, memberships, policy, entries, order, votes, issued>>

LobbyStep ==
  \/ \E u \in Users : CreateLobby(u) \/ \E l \in Lobbies : JoinLobby(u, l)
  \/ \E m \in memberships : LeaveStale(m) \/ LeaveAsGuest(m) \/ CloseLobby(m)

QueueStep ==
  \E m \in memberships :
    \/ \E r \in Requests : SubmitEntry(m, r)
    \/ \E p \in {Majority} \cup FixedCounts : SetPolicy(m, p)
    \/ \E e \in DOMAIN order[m.lobby] :
         \/ Vote(m, e) \/ AdvanceQueue(m, e) \/ VetoEntry(m, e)
         \/ \E index \in 0..MaxEntries, expected \in 1..MaxRevision : MoveEntry(m, e, index, expected)

Next == LobbyStep \/ QueueStep \/ DeleteExpired \/ Tick

Spec == Init /\ [][Next]_vars

-----------------------------------------------------------------------------
(* Safety.                                                                 *)

\* A user belongs to at most one lobby: create, join and transfer never leave
\* two memberships behind (lobby_memberships.user_id is UNIQUE).
OneMembershipPerUser ==
  \A x, y \in memberships : x.user = y.user => x = y

\* No row outlives its lobby: an open lobby has its policy row, and once it is
\* closed or deleted no member, entry, position, vote or policy is left of it;
\* every active entry is a submitted entry of that very lobby.
NoOrphanRows ==
  /\ \A l \in Lobbies : (policy[l] # NoPolicy) <=> (lobbies[l].state = "open")
  /\ \A m \in memberships : lobbies[m.lobby].state = "open"
  /\ \A x \in entries : lobbies[x.lobby].state = "open"
  /\ \A l \in Lobbies : \A e \in DOMAIN order[l] : \E x \in entries : x.id = e /\ x.lobby = l
  /\ \A v \in votes : \E x \in entries : x.id = v[1]

\* A lobby that can be used always has its host in it: the host can neither
\* join nor create another lobby, only close this one.
HostIsPresent ==
  \A l \in Lobbies : Active(l) => \E m \in memberships : m.lobby = l /\ Host(m)

\* After every commit no active entry still has the votes that remove it:
\* each transaction that changes the guests, the votes or the policy
\* re-evaluates the queue it touched, departures and arrivals included.
NoQualifyingEntry ==
  \A l \in Lobbies : Active(l) => Qualifying(memberships, votes, policy[l], l) = {}

\* What a member can see of a lobby through its roster and its queue.
Visible(l) == <<lobbies[l].state, policy[l], order[l],
                {m \in memberships : m.lobby = l},
                {v \in votes : v[1] \in DOMAIN order[l]}>>

\* The revision of a usable lobby grows by one exactly with the transactions
\* that change what its members see, in one lobby or in both lobbies of a
\* transfer; once the lobby closed or expired it never changes again.
RevisionCountsChanges ==
  [][\A l \in Lobbies :
       IF Active(l)
       THEN lobbies'[l].revision = lobbies[l].revision + IF Visible(l)' = Visible(l) THEN 0 ELSE 1
       ELSE lobbies[l].state # "free" => lobbies'[l].revision = lobbies[l].revision]_vars

\* An entry that was played, vetoed or voted out never becomes active again,
\* whatever is retried.
ConsumedNeverReturns ==
  [][\A x \in entries : x.id \notin DOMAIN order[x.lobby] => x.id \notin DOMAIN order'[x.lobby]]_vars
=============================================================================
