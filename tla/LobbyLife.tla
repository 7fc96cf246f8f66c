----------------------------- MODULE LobbyLife -----------------------------
(***************************************************************************)
(* What the store promises those who only watch lobbies: event streams and *)
(* clients.  A lobby opens once, its revision counts the visible changes,  *)
(* its host closes it or it expires, and it never comes back; a membership *)
(* generation ends once and never comes back.                              *)
(*                                                                         *)
(* LobbyStore implements this module (LobbyStoreLife); LobbyEvents is      *)
(* built on it.                                                            *)
(***************************************************************************)
EXTENDS Integers

CONSTANTS Users, NoUser, Lifetime, MaxTime, MaxLobbies, MaxMemberships, MaxRevision

ASSUME LifeAssumption ==
  /\ Lifetime \in Nat /\ MaxTime \in Nat /\ MaxMemberships \in Nat
  /\ MaxLobbies \in Nat \ {0} /\ MaxRevision \in Nat \ {0}

VARIABLES
  life,     \* per lobby: state, owner, expiry and revision
  members,  \* the generations that exist: [id, user, lobby]
  made,     \* how many lobbies and generations were made
  now

lifeVars == <<life, members, made, now>>

Lobbies == 1..MaxLobbies
Generation == [id: 1..MaxMemberships, user: Users, lobby: Lobbies]

LifeInit ==
  /\ life = [l \in Lobbies |-> [state |-> "free", owner |-> NoUser, expires |-> 0, revision |-> 0]]
  /\ members = {}
  /\ made = [lobby |-> 0, membership |-> 0]
  /\ now = 0

Usable(l) == life[l].state = "open" /\ now < life[l].expires
Hosts(m) == life[m.lobby].owner = m.user
In(l) == {m \in members : m.lobby = l}

Advance(ls) ==
  /\ \A l \in ls : Usable(l) /\ life[l].revision < MaxRevision
  /\ life' = [l \in Lobbies |-> IF l \in ls THEN [life[l] EXCEPT !.revision = @ + 1] ELSE life[l]]

\* A new generation replaces every other one of its user: the one a transfer
\* leaves, and one whose lobby ended.
Enter(u, l) ==
  LET m == made.membership + 1
  IN /\ m <= MaxMemberships
     /\ members' = {x \in members : x.user # u} \cup {[id |-> m, user |-> u, lobby |-> l]}
     /\ made' = [lobby |-> IF l > made.lobby THEN l ELSE made.lobby, membership |-> m]

Open(u) ==
  LET l == made.lobby + 1
  IN /\ l <= MaxLobbies
     /\ \A m \in members : m.user = u => ~Usable(m.lobby)
     /\ Enter(u, l)
     /\ life' = [life EXCEPT ![l] = [state |-> "open", owner |-> u, expires |-> now + Lifetime,
                                     revision |-> 1]]
     /\ UNCHANGED now

\* Joining, and the transfer from another usable lobby in one step.
Join(u, l) ==
  LET left == {m \in members : m.user = u /\ Usable(m.lobby)}
  IN /\ \A m \in left : m.lobby # l /\ ~Hosts(m)
     /\ Advance({l} \cup {m.lobby : m \in left})
     /\ Enter(u, l)
     /\ UNCHANGED now

Leave(m) ==
  /\ ~Hosts(m)
  /\ Advance({m.lobby})
  /\ members' = members \ {m}
  /\ UNCHANGED <<made, now>>

\* The queue of the lobby changed.
Change(l) ==
  /\ Advance({l})
  /\ UNCHANGED <<members, made, now>>

Forget(m) ==
  /\ ~Usable(m.lobby)
  /\ members' = members \ {m}
  /\ UNCHANGED <<life, made, now>>

Close(m) ==
  /\ Usable(m.lobby)
  /\ Hosts(m)
  /\ life[m.lobby].revision < MaxRevision
  /\ life' = [life EXCEPT ![m.lobby] = [state |-> "closed", owner |-> @.owner, expires |-> @.expires,
                                        revision |-> @.revision + 1]]
  /\ members' = members \ In(m.lobby)
  /\ UNCHANGED <<made, now>>

Delete(ls) ==
  /\ \A l \in ls : life[l].state \in {"open", "closed"} /\ life[l].expires <= now
  /\ life' = [l \in Lobbies |-> IF l \in ls THEN [life[l] EXCEPT !.state = "gone"] ELSE life[l]]
  /\ members' = {m \in members : m.lobby \notin ls}
  /\ UNCHANGED <<made, now>>

LifeTick ==
  /\ now < MaxTime
  /\ now' = now + 1
  /\ UNCHANGED <<life, members, made>>

LifeNext ==
  \/ \E u \in Users : Open(u) \/ \E l \in Lobbies : Join(u, l)
  \/ \E m \in members : Leave(m) \/ Forget(m) \/ Close(m)
  \/ \E l \in Lobbies : Change(l)
  \/ \E ls \in SUBSET Lobbies : Delete(ls)
  \/ LifeTick

LifeSpec == LifeInit /\ [][LifeNext]_lifeVars
=============================================================================
