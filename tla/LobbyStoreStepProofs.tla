------------------------ MODULE LobbyStoreStepProofs ------------------------
(***************************************************************************)
(* What a step of LobbyStore does, for every number of users, lobbies and  *)
(* entries: it implements a step of LobbyLife, it counts what the members  *)
(* of a lobby see change, and it brings no consumed entry back.            *)
(***************************************************************************)
EXTENDS LobbyStoreRefinement, LobbyStoreProofs, SequenceTheorems

-----------------------------------------------------------------------------
(* The store implements LobbyLife: every transaction is a step of a lobby's *)
(* life or of a generation's, or is not one at all.                        *)

LEMMA SameUsable == \A l \in Lobbies : Life!Usable(l) <=> Active(l)
BY DEF Life!Usable, Active

\* A transaction that counts in the lobbies ls moves their lives one step on.
LEMMA BumpAdvances ==
  ASSUME NEW ls \in SUBSET Lobbies, \A l \in ls : Active(l) /\ CanBump(l), Bump(ls)
  PROVE  Life!Advance(ls)
BY DEF Life!Advance, Life!Usable, Life!Lobbies, Lobbies, Active, CanBump, Bump

LEMMA CreateIsOpen ==
  ASSUME IInv, NEW u \in Users, CreateLobby(u)
  PROVE  Life!Open(u)
<1>1. issued.lobby \in Nat /\ issued.membership \in Nat
  BY DEF IInv, TypeOK
<1>2. issued'.lobby = issued.lobby + 1 /\ issued'.membership = issued.membership + 1
  BY DEF CreateLobby, IInv, TypeOK
<1>3. WithoutStale(u) = {x \in memberships : x.user # u}
  BY DEF CreateLobby, Current, WithoutStale
<1>4. \A m \in memberships : m.user = u => ~Life!Usable(m.lobby)
  BY DEF CreateLobby, Current, WithoutStale, Life!Usable, Active
<1>5. Life!Enter(u, issued.lobby + 1)
  BY <1>1, <1>2, <1>3 DEF CreateLobby, Life!Enter
<1>6. QED
  BY <1>4, <1>5 DEF CreateLobby, Life!Open

LEMMA JoinIsJoin ==
  ASSUME IInv, NEW u \in Users, NEW l \in Lobbies, JoinLobby(u, l)
  PROVE  Life!Join(u, l)
<1> DEFINE old == Current(u)
<1>1. \A m \in memberships : m.lobby \in Lobbies
  BY DEF IInv, TypeOK, MembershipRow
<1>2. old = {m \in memberships : m.user = u /\ Life!Usable(m.lobby)}
  BY DEF Current, WithoutStale, Life!Usable, Active
<1>3. WithoutStale(u) \ old = {x \in memberships : x.user # u}
  BY DEF Current, WithoutStale
<1>4. Life!Advance({l} \cup {x.lobby : x \in old})
  <2>1. \A x \in old : x.lobby \in Lobbies /\ Active(x.lobby)
    BY <1>1 DEF Current, WithoutStale
  <2>2. QED
    BY <2>1, BumpAdvances DEF JoinLobby
<1>5. ~(l > issued.lobby)
  BY DEF JoinLobby, Active, IInv, FreshIds, TypeOK, Lobbies
<1>6. issued'.lobby = issued.lobby /\ issued'.membership = issued.membership + 1
  BY DEF JoinLobby, IInv, TypeOK
<1>7. Life!Enter(u, l)
  BY <1>3, <1>5, <1>6 DEF JoinLobby, Life!Enter
<1>8. \A m \in old : m.lobby # l /\ ~Life!Hosts(m)
  BY DEF JoinLobby, Life!Hosts, Host
<1>9. now' = now
  BY DEF JoinLobby
<1>10. QED
  BY <1>2, <1>4, <1>7, <1>8, <1>9 DEF Life!Join

LEMMA DepartureIsStep ==
  ASSUME IInv, NEW m \in memberships, LeaveStale(m) \/ LeaveAsGuest(m) \/ CloseLobby(m)
  PROVE  Life!Forget(m) \/ Life!Leave(m) \/ Life!Close(m)
<1>1. m.lobby \in Lobbies
  BY DEF IInv, TypeOK, MembershipRow
<1>2. CASE LeaveStale(m)
  BY <1>2 DEF LeaveStale, Life!Forget, Life!Usable, Active
<1>3. CASE LeaveAsGuest(m)
  <2>1. Life!Advance({m.lobby})
    BY <1>1, <1>3, BumpAdvances DEF LeaveAsGuest
  <2>2. QED
    BY <1>3, <2>1 DEF LeaveAsGuest, Life!Leave, Life!Hosts, Host
<1>4. CASE CloseLobby(m)
  <2>1. memberships' = memberships \ Life!In(m.lobby)
    BY <1>4 DEF CloseLobby, DropQueues, Life!In
  <2>2. QED
    BY <1>4, <2>1 DEF CloseLobby, Life!Close, Life!Usable, Life!Hosts, Active, Host, CanBump
<1>5. QED
  BY <1>2, <1>3, <1>4

LEMMA ExpiryIsDelete ==
  ASSUME DeleteExpired
  PROVE  \E ls \in SUBSET Lobbies : Life!Delete(ls)
<1> DEFINE expired == {l \in Lobbies : lobbies[l].state \in {"open", "closed"}
                                       /\ lobbies[l].expires <= now}
<1>1. Life!Delete(expired)
  BY DEF DeleteExpired, DropQueues, Life!Delete, Life!Lobbies, Lobbies
<1>2. QED
  BY <1>1

LEMMA QueueIsChange ==
  ASSUME IInv, QueueStep
  PROVE  \E l \in Lobbies : Life!Change(l)
<1>1. PICK m \in memberships :
        \/ \E r \in Requests : SubmitEntry(m, r)
        \/ \E p \in {Majority} \cup FixedCounts : SetPolicy(m, p)
        \/ \E e \in DOMAIN order[m.lobby] :
             \/ Vote(m, e) \/ AdvanceQueue(m, e) \/ VetoEntry(m, e)
             \/ \E index \in 0..MaxEntries, expected \in 1..MaxRevision :
                  MoveEntry(m, e, index, expected)
  BY DEF QueueStep
<1>2. m.lobby \in Lobbies
  BY DEF IInv, TypeOK, MembershipRow
<1>3. /\ Member(m) /\ Bump({m.lobby}) /\ UNCHANGED <<memberships, now>>
      /\ issued'.lobby = issued.lobby /\ issued'.membership = issued.membership
  BY <1>1 DEF SubmitEntry, SetPolicy, Vote, AdvanceQueue, VetoEntry, MoveEntry, Destination,
              Remove, HostOnly, GuestOnly, IInv, TypeOK
<1>4. Life!Advance({m.lobby})
  BY <1>2, <1>3, BumpAdvances DEF Member
<1>5. QED
  BY <1>2, <1>3, <1>4 DEF Life!Change

LEMMA StepIsLife ==
  ASSUME IInv, [Next]_vars
  PROVE  [Life!LifeNext]_Life!lifeVars
<1> USE DEF Life!LifeNext, Life!Lobbies
<1>1. ASSUME NEW u \in Users, CreateLobby(u) PROVE Life!LifeNext
  BY <1>1, CreateIsOpen
<1>2. ASSUME NEW u \in Users, NEW l \in Lobbies, JoinLobby(u, l) PROVE Life!LifeNext
  BY <1>2, JoinIsJoin DEF Lobbies
<1>3. ASSUME NEW m \in memberships, LeaveStale(m) \/ LeaveAsGuest(m) \/ CloseLobby(m)
      PROVE  Life!LifeNext
  BY <1>3, DepartureIsStep
<1>4. CASE QueueStep
  BY <1>4, QueueIsChange DEF Lobbies
<1>5. CASE DeleteExpired
  BY <1>5, ExpiryIsDelete DEF Lobbies
<1>6. CASE Tick
  BY <1>6 DEF Tick, Life!LifeTick
<1>7. CASE UNCHANGED vars
  BY <1>7 DEF vars, Life!lifeVars
<1>8. QED
  BY <1>1, <1>2, <1>3, <1>4, <1>5, <1>6, <1>7 DEF Next, LobbyStep

\* Every transaction of the store, expiry and the clock are steps of LobbyLife:
\* to a watcher a lobby opens once, its revision counts, it closes or expires
\* for good, and a membership generation ends once (database/lobbies.rs).
THEOREM ImplementsLife == Spec => ImplementsLobbyLife
<1>1. Init => Life!LifeInit
  BY DEF Init, Life!LifeInit, Life!Lobbies, Lobbies
<1>2. IInv /\ [Next]_vars => [Life!LifeNext]_Life!lifeVars
  BY StepIsLife
<1>3. QED
  BY <1>1, <1>2, InductiveInvariant, PTL DEF Spec, ImplementsLobbyLife, Life!LifeSpec

-----------------------------------------------------------------------------
(* Consumed entries.                                                       *)

\* An order only gains an entry by its submission, under an id never issued.
LEMMA StepConsumed ==
  ASSUME IInv, [Next]_vars, NEW x \in entries, x.id \notin DOMAIN order[x.lobby]
  PROVE  x.id \notin DOMAIN order'[x.lobby]
<1> DEFINE l == x.lobby
           Kept == DOMAIN order'[l] \subseteq DOMAIN order[l]
<1>1. l \in Lobbies /\ x.id \in Nat /\ x.id <= issued.entry /\ issued.entry \in Nat
  BY DEF IInv, FreshIds, TypeOK, EntryRow
<1>2. ASSUME NEW k \in Lobbies, NEW ord, DOMAIN ord \subseteq DOMAIN order[k],
             order' = [order EXCEPT ![k] = ord]
      PROVE  Kept
  BY <1>1, <1>2, OrderKept DEF IInv
<1>r. ASSUME NEW k \in Lobbies, NEW ms, NEW vs, NEW p
      PROVE  DOMAIN Reevaluate(ms, vs, p, k) \subseteq DOMAIN order[k]
  <2>1. TypeOK
    BY DEF IInv
  <2>2. DOMAIN Reevaluate(ms, vs, p, k) = DOMAIN order[k] \ Qualifying(ms, vs, p, k)
    BY ONLY <2>1, k \in Lobbies, ReevaluateType, Zenon
  <2>3. QED
    BY <2>2
<1>3. ASSUME NEW u \in Users, CreateLobby(u) PROVE Kept
  BY <1>3 DEF CreateLobby
<1>4. ASSUME NEW u \in Users, NEW k \in Lobbies, JoinLobby(u, k) PROVE Kept
  <2>1. order'[l] = order[l] \/ order'[l] = Reevaluate(memberships', votes, policy[l], l)
    BY <1>1, <1>4 DEF JoinLobby
  <2>2. DOMAIN Reevaluate(memberships', votes, policy[l], l) \subseteq DOMAIN order[l]
    BY <1>1, <1>r
  <2>3. QED
    BY <2>1, <2>2
<1>5. ASSUME NEW m \in memberships, LeaveStale(m) PROVE Kept
  BY <1>5 DEF LeaveStale
<1>6. ASSUME NEW m \in memberships, LeaveAsGuest(m) PROVE Kept
  <2>1. m.lobby \in Lobbies
    BY DEF IInv, TypeOK, MembershipRow
  <2> DEFINE ord == Reevaluate(memberships \ {m}, votes, policy[m.lobby], m.lobby)
  <2>2. DOMAIN ord \subseteq DOMAIN order[m.lobby]
    BY <1>r, <2>1
  <2>3. order' = [order EXCEPT ![m.lobby] = ord]
    BY <1>6 DEF LeaveAsGuest
  <2> HIDE DEF ord
  <2>4. QED
    BY <1>2, <2>1, <2>2, <2>3
<1>7. ASSUME NEW ls \in SUBSET Lobbies, DropQueues(ls) PROVE Kept
  <2>1. order'[l] = order[l] \/ order'[l] = <<>>
    BY <1>1, <1>7 DEF DropQueues
  <2>2. DOMAIN <<>> = {}
    OBVIOUS
  <2>3. QED
    BY <2>1, <2>2
<1>8. ASSUME NEW m \in memberships, CloseLobby(m) PROVE Kept
  BY <1>7, <1>8 DEF CloseLobby, IInv, TypeOK, MembershipRow
<1>9. CASE DeleteExpired
  <2>1. PICK ls \in SUBSET Lobbies : DropQueues(ls)
    BY <1>9 DEF DeleteExpired
  <2>2. QED
    BY <1>7, <2>1
<1>10. ASSUME NEW m \in memberships, NEW r \in Requests, SubmitEntry(m, r)
       PROVE  DOMAIN order'[l] \subseteq DOMAIN order[l] \cup {issued.entry + 1}
  <2>1. CASE l = m.lobby
    BY <1>1, <1>10, <2>1 DEF SubmitEntry, IInv, TypeOK
  <2>2. CASE l # m.lobby
    BY <1>1, <1>10, <2>2 DEF SubmitEntry, IInv, TypeOK
  <2>3. QED
    BY <2>1, <2>2
<1>11. ASSUME NEW m \in memberships, NEW p, NEW vs,
              order' = [order EXCEPT ![m.lobby] = Reevaluate(memberships, vs, p, m.lobby)]
       PROVE  Kept
  <2>1. m.lobby \in Lobbies
    BY DEF IInv, TypeOK, MembershipRow
  <2> DEFINE ord == Reevaluate(memberships, vs, p, m.lobby)
  <2>2. DOMAIN ord \subseteq DOMAIN order[m.lobby]
    BY <1>r, <2>1
  <2>3. order' = [order EXCEPT ![m.lobby] = ord]
    BY <1>11
  <2> HIDE DEF ord
  <2>4. QED
    BY <1>2, <2>1, <2>2, <2>3
<1>12. ASSUME NEW m \in memberships, NEW e, Remove(m.lobby, e) PROVE Kept
  BY <1>2, <1>12 DEF Remove, Retain, IInv, TypeOK, MembershipRow
<1>13. ASSUME NEW m \in memberships, NEW e, NEW index \in 0..MaxEntries,
              NEW expected \in 1..MaxRevision, MoveEntry(m, e, index, expected)
       PROVE  Kept
  BY <1>2, <1>13 DEF MoveEntry, Destination, Shift, IInv, TypeOK, MembershipRow
<1>14. CASE Tick \/ UNCHANGED vars
  BY <1>14 DEF Tick, vars
<1>15. ASSUME Kept \/ DOMAIN order'[l] \subseteq DOMAIN order[l] \cup {issued.entry + 1}
       PROVE  x.id \notin DOMAIN order'[l]
  BY <1>1, <1>15
<1> HIDE DEF Kept
<1>16. CASE QueueStep
  <2>1. ASSUME NEW m \in memberships, NEW p \in {Majority} \cup FixedCounts, SetPolicy(m, p)
        PROVE  Kept
    BY <1>11, <2>1 DEF SetPolicy
  <2>2. ASSUME NEW m \in memberships, NEW e, Vote(m, e) PROVE Kept
    BY <1>11, <2>2 DEF Vote
  <2>3. ASSUME NEW m \in memberships, NEW e, AdvanceQueue(m, e) \/ VetoEntry(m, e) PROVE Kept
    BY <1>12, <2>3 DEF AdvanceQueue, VetoEntry
  <2>4. QED
    BY <1>10, <1>13, <1>15, <1>16, <2>1, <2>2, <2>3 DEF QueueStep
<1>17. QED
  BY <1>3, <1>4, <1>5, <1>6, <1>8, <1>9, <1>14, <1>15, <1>16 DEF Next, LobbyStep

\* An entry that was played, vetoed or voted out never becomes active again,
\* whatever is retried (submit_queue, reevaluate, advance_queue, queue.rs).
THEOREM ConsumedStaysOut == Spec => ConsumedNeverReturns
<1>1. IInv /\ [Next]_vars
        => [\A x \in entries : x.id \notin DOMAIN order[x.lobby]
                              => x.id \notin DOMAIN order'[x.lobby]]_vars
  BY StepConsumed
<1>2. QED
  BY <1>1, InductiveInvariant, PTL DEF Spec, ConsumedNeverReturns

-----------------------------------------------------------------------------
(* Revisions count visible changes.                                        *)

\* What RevisionCountsChanges says of one lobby.
Counted(l) ==
  IF Active(l)
  THEN lobbies'[l].revision = lobbies[l].revision + IF Visible(l)' = Visible(l) THEN 0 ELSE 1
  ELSE lobbies[l].state # "free" => lobbies'[l].revision = lobbies[l].revision

\* A lobby whose row is the same, and of which nothing is seen to change.
LEMMA QuietIsCounted ==
  ASSUME IInv, NEW l \in Lobbies, lobbies'[l] = lobbies[l],
         Active(l) =>
           /\ policy'[l] = policy[l] /\ order'[l] = order[l]
           /\ {m \in memberships' : m.lobby = l} = {m \in memberships : m.lobby = l}
           /\ \A e \in DOMAIN order[l] : \A u \in Users : <<e, u>> \in votes' <=> <<e, u>> \in votes,
         votes' \subseteq (1..MaxEntries) \X Users
  PROVE  Counted(l)
<1>1. lobbies[l].revision \in Nat
  BY DEF IInv, TypeOK, LobbyRow
<1>2. ASSUME Active(l) PROVE Visible(l)' = Visible(l)
  <2>1. {v \in votes' : v[1] \in DOMAIN order[l]} = {v \in votes : v[1] \in DOMAIN order[l]}
    <3>1. \A v \in votes \cup votes' : v = <<v[1], v[2]>> /\ v[2] \in Users
      BY DEF IInv, TypeOK
    <3>2. \A v \in votes \cup votes' : v[1] \in DOMAIN order[l] => (v \in votes' <=> v \in votes)
      BY <1>2, <3>1
    <3>3. QED
      BY <3>2
  <2>2. QED
    BY <1>2, <2>1 DEF Visible
<1>3. QED
  BY <1>1, <1>2 DEF Counted

\* A transaction that counts in the lobbies ls must change what is seen of each.
LEMMA BumpIsCounted ==
  ASSUME IInv, NEW ls \in SUBSET Lobbies, \A l \in ls : Active(l) /\ CanBump(l), Bump(ls),
         NEW l \in ls,
         \/ policy'[l] # policy[l] \/ order'[l] # order[l]
         \/ {m \in memberships' : m.lobby = l} # {m \in memberships : m.lobby = l}
         \/ \E e \in DOMAIN order[l], u \in Users : <<e, u>> \in votes' /\ <<e, u>> \notin votes
  PROVE  Counted(l)
<1>1. lobbies[l] \in LobbyRow /\ lobbies'[l] = [lobbies[l] EXCEPT !.revision = @ + 1]
  BY DEF IInv, TypeOK, Bump
<1>2. lobbies'[l].revision = lobbies[l].revision + 1
  BY <1>1 DEF LobbyRow
<1>3. ASSUME order'[l] = order[l],
             NEW e \in DOMAIN order[l], NEW u \in Users, <<e, u>> \in votes', <<e, u>> \notin votes
      PROVE  {v \in votes' : v[1] \in DOMAIN order'[l]} # {v \in votes : v[1] \in DOMAIN order[l]}
  <2>1. <<e, u>> \in {v \in votes' : v[1] \in DOMAIN order'[l]}
    BY <1>3
  <2>2. QED
    BY <1>3, <2>1
<1>4. Visible(l)' # Visible(l)
  BY <1>3 DEF Visible
<1>5. QED
  BY <1>2, <1>4 DEF Counted

\* An entry belongs to one lobby only: a vote for it is seen in no other.
LEMMA OneLobbyEach ==
  ASSUME IInv, NEW k \in Lobbies, NEW l \in Lobbies, k # l, NEW e \in DOMAIN order[k]
  PROVE  e \notin DOMAIN order[l]
BY DEF IInv, NoOrphanRows, FreshIds

LEMMA StepCounted ==
  ASSUME IInv, [Next]_vars, NEW l \in Lobbies
  PROVE  Counted(l)
<1> DEFINE Rows(ms) == {m \in ms : m.lobby = l}
<1>1. /\ votes \subseteq (1..MaxEntries) \X Users /\ lobbies \in [Lobbies -> LobbyRow]
      /\ DOMAIN order = Lobbies /\ policy \in [Lobbies -> {NoPolicy, Majority} \cup FixedCounts]
      /\ \A m \in memberships : m.lobby \in Lobbies /\ m.user \in Users
      /\ votes' \subseteq (1..MaxEntries) \X Users
  BY NextType DEF IInv, TypeOK, MembershipRow
<1>2. ASSUME NEW ls \in SUBSET Lobbies, l \notin ls, Bump(ls)
      PROVE  lobbies'[l] = lobbies[l]
  BY <1>2 DEF Bump
<1>3. ASSUME NEW u \in Users, CreateLobby(u) PROVE Counted(l)
  <2>1. issued.lobby + 1 \in Lobbies /\ lobbies[issued.lobby + 1].state = "free"
    BY <1>3 DEF CreateLobby, IInv, FreshIds, TypeOK, Lobbies
  <2>2. CASE l = issued.lobby + 1
    BY <2>1, <2>2 DEF Counted, Active
  <2>3. CASE l # issued.lobby + 1
    <3>1. lobbies'[l] = lobbies[l] /\ policy'[l] = policy[l] /\ order' = order /\ votes' = votes
      BY <1>1, <1>3, <2>3 DEF CreateLobby
    <3>2. Active(l) => Rows(memberships') = Rows(memberships)
      BY <1>3, <2>3 DEF CreateLobby, WithoutStale
    <3>3. QED
      BY <1>1, <3>1, <3>2, QuietIsCounted
  <2>4. QED
    BY <2>2, <2>3
<1>4. ASSUME NEW u \in Users, NEW k \in Lobbies, JoinLobby(u, k) PROVE Counted(l)
  <2> DEFINE old == Current(u)
             touched == {k} \cup {x.lobby : x \in old}
             row == [id |-> issued.membership + 1, user |-> u, lobby |-> k]
  <2>1. /\ Bump(touched) /\ \A j \in touched : Active(j) /\ CanBump(j)
        /\ touched \in SUBSET Lobbies
    BY <1>1, <1>4 DEF JoinLobby, Current, WithoutStale
  <2>2. memberships' = (WithoutStale(u) \ old) \cup {row} /\ votes' = votes /\ policy' = policy
    BY <1>4 DEF JoinLobby
  <2>3. CASE l = k
    <3>1. \A m \in memberships : m.user = u /\ m.lobby = k => m \in old
      BY <2>1 DEF Current, WithoutStale
    <3>2. row \notin memberships
      BY <1>4, <3>1 DEF JoinLobby
    <3>3. Rows(memberships') # Rows(memberships)
      BY <2>2, <2>3, <3>2
    <3>4. QED
      BY <2>1, <2>3, <3>3, BumpIsCounted
  <2>4. CASE l # k /\ l \in touched
    <3>1. PICK x \in old : x.lobby = l
      BY <2>4
    <3>2. x \in memberships /\ x \notin memberships'
      BY <2>2, <2>4, <3>1 DEF Current, WithoutStale
    <3>3. Rows(memberships') # Rows(memberships)
      BY <3>1, <3>2
    <3>4. QED
      BY <2>1, <2>4, <3>3, BumpIsCounted
  <2>5. CASE l \notin touched
    <3>1. lobbies'[l] = lobbies[l]
      BY <1>2, <2>1, <2>5
    <3>2. order'[l] = order[l]
      BY <1>4, <2>5 DEF JoinLobby
    <3>3. Active(l) => Rows(memberships') = Rows(memberships)
      BY <2>2, <2>5 DEF Current, WithoutStale
    <3>4. QED
      BY <1>1, <2>2, <3>1, <3>2, <3>3, QuietIsCounted
  <2>6. QED
    BY <2>3, <2>4, <2>5
<1>5. ASSUME NEW m \in memberships, LeaveStale(m) PROVE Counted(l)
  <2>1. Active(l) => Rows(memberships') = Rows(memberships)
    BY <1>5 DEF LeaveStale
  <2>2. lobbies' = lobbies /\ policy' = policy /\ order' = order /\ votes' = votes
    BY <1>5 DEF LeaveStale
  <2>3. QED
    BY <1>1, <2>1, <2>2, QuietIsCounted
<1>6. ASSUME NEW m \in memberships, LeaveAsGuest(m) PROVE Counted(l)
  <2>1. m.lobby \in Lobbies /\ Active(m.lobby) /\ CanBump(m.lobby) /\ Bump({m.lobby})
    BY <1>1, <1>6 DEF LeaveAsGuest
  <2>2. memberships' = memberships \ {m} /\ votes' = votes /\ policy' = policy
    BY <1>6 DEF LeaveAsGuest
  <2>3. CASE l = m.lobby
    <3>1. Rows(memberships') # Rows(memberships)
      BY <2>2, <2>3
    <3>2. QED
      BY <2>1, <2>3, <3>1, BumpIsCounted
  <2>4. CASE l # m.lobby
    <3>1. lobbies'[l] = lobbies[l]
      BY <1>2, <2>1, <2>4
    <3>2. order'[l] = order[l]
      BY <1>1, <1>6, <2>4 DEF LeaveAsGuest
    <3>3. Rows(memberships') = Rows(memberships)
      BY <2>2, <2>4
    <3>4. QED
      BY <1>1, <2>2, <3>1, <3>2, <3>3, QuietIsCounted
  <2>5. QED
    BY <2>3, <2>4
\* The lobbies ls are closed or deleted: what is left of l is what was there.
<1>7. ASSUME NEW ls \in SUBSET Lobbies, DropQueues(ls), l \notin ls, lobbies'[l] = lobbies[l]
      PROVE  Counted(l)
  <2>1. /\ Rows(memberships') = Rows(memberships)
        /\ policy'[l] = policy[l] /\ order'[l] = order[l]
        /\ \A e \in DOMAIN order'[l] : \A u \in Users : <<e, u>> \in votes' <=> <<e, u>> \in votes
    BY <1>7, DropQueuesElsewhere DEF IInv
  <2> HIDE DEF Rows
  <2>2. \A e \in DOMAIN order[l] : \A u \in Users : <<e, u>> \in votes' <=> <<e, u>> \in votes
    BY <2>1
  <2>3. QED
    BY <1>1, <1>7, <2>1, <2>2, QuietIsCounted DEF Rows
<1>8. ASSUME NEW m \in memberships, CloseLobby(m) PROVE Counted(l)
  <2>1. /\ m.lobby \in Lobbies /\ Active(m.lobby) /\ DropQueues({m.lobby})
        /\ lobbies' = [lobbies EXCEPT ![m.lobby] =
                         [state |-> "closed", owner |-> @.owner,
                          expires |-> @.expires, revision |-> @.revision + 1]]
    BY <1>1, <1>8 DEF CloseLobby
  <2>2. CASE l = m.lobby
    <3>1. lobbies'[l].state = "closed" /\ lobbies'[l].revision = lobbies[l].revision + 1
      BY <1>1, <2>1, <2>2
    <3>2. lobbies[l].state = "open" /\ Active(l)
      BY <2>1, <2>2 DEF Active
    <3>3. Visible(l)' # Visible(l)
      BY <3>1, <3>2 DEF Visible
    <3>4. QED
      BY <3>1, <3>2, <3>3 DEF Counted
  <2>3. CASE l # m.lobby
    <3>1. lobbies'[l] = lobbies[l]
      BY <1>1, <2>1, <2>3
    <3>2. QED
      BY <1>7, <2>1, <2>3, <3>1
  <2>4. QED
    BY <2>2, <2>3
<1>9. CASE DeleteExpired
  <2> DEFINE expired == {k \in Lobbies : lobbies[k].state \in {"open", "closed"}
                                         /\ lobbies[k].expires <= now}
  <2>1. /\ DropQueues(expired)
        /\ lobbies' = [k \in Lobbies |-> IF k \in expired THEN [lobbies[k] EXCEPT !.state = "gone"]
                                         ELSE lobbies[k]]
    BY <1>9 DEF DeleteExpired
  <2>2. CASE l \in expired
    <3>1. lobbies[l] \in LobbyRow /\ now \in Nat
      BY <1>1 DEF IInv, TypeOK
    <3>2. lobbies'[l].revision = lobbies[l].revision
      BY <2>1, <2>2, <3>1 DEF LobbyRow
    <3>3. ~Active(l)
      BY <2>2, <3>1 DEF Active, LobbyRow
    <3>4. QED
      BY <3>2, <3>3 DEF Counted
  <2>3. CASE l \notin expired
    <3>1. lobbies'[l] = lobbies[l]
      BY <2>1, <2>3
    <3> HIDE DEF expired
    <3>2. QED
      BY <1>7, <2>1, <2>3, <3>1, expired \in SUBSET Lobbies DEF expired
  <2>4. QED
    BY <2>2, <2>3
<1>10. ASSUME NEW m \in memberships, Member(m), Bump({m.lobby}), memberships' = memberships,
              \/ policy'[m.lobby] # policy[m.lobby] \/ order'[m.lobby] # order[m.lobby]
              \/ \E e \in DOMAIN order[m.lobby], u \in Users :
                   <<e, u>> \in votes' /\ <<e, u>> \notin votes,
              \A k \in Lobbies \ {m.lobby} : policy'[k] = policy[k] /\ order'[k] = order[k],
              \A k \in Lobbies \ {m.lobby} : \A e \in DOMAIN order[k], u \in Users :
                <<e, u>> \in votes' <=> <<e, u>> \in votes
       PROVE  Counted(l)
  <2>1. m.lobby \in Lobbies /\ Active(m.lobby) /\ CanBump(m.lobby)
    BY <1>1, <1>10 DEF Member
  <2>2. CASE l = m.lobby
    BY <1>10, <2>1, <2>2, BumpIsCounted
  <2>3. CASE l # m.lobby
    <3>1. lobbies'[l] = lobbies[l]
      BY <1>2, <1>10, <2>1, <2>3
    <3>2. QED
      BY <1>1, <1>10, <2>3, <3>1, QuietIsCounted
  <2>4. QED
    BY <2>2, <2>3
<1>11. ASSUME NEW m \in memberships, NEW r \in Requests, SubmitEntry(m, r) PROVE Counted(l)
  <2> DEFINE e == issued.entry + 1
  <2>1. m.lobby \in Lobbies /\ issued.entry \in Nat
    BY <1>1 DEF IInv, TypeOK
  <2>2. e \notin DOMAIN order[m.lobby]
    <3>1. \A f \in DOMAIN order[m.lobby] : f \in Nat /\ f <= issued.entry
      BY <2>1 DEF IInv, NoOrphanRows, FreshIds, TypeOK, EntryRow
    <3>2. QED
      BY <2>1, <3>1
  <2>3. e \in DOMAIN order'[m.lobby]
    BY <1>1, <1>11, <2>1 DEF SubmitEntry
  <2>4. order'[m.lobby] # order[m.lobby]
    BY <2>2, <2>3
  <2>5. \A k \in Lobbies \ {m.lobby} : order'[k] = order[k]
    BY <1>1, <1>11 DEF SubmitEntry
  <2> HIDE DEF e
  <2>6. /\ Member(m) /\ Bump({m.lobby}) /\ memberships' = memberships
        /\ policy' = policy /\ votes' = votes
    BY <1>11 DEF SubmitEntry
  <2>7. QED
    BY <1>10, <2>4, <2>5, <2>6
\* Positions of one lobby are written, and nothing else.
<1>12. ASSUME NEW m \in memberships, NEW ord, Member(m), Bump({m.lobby}), ord # order[m.lobby],
              order' = [order EXCEPT ![m.lobby] = ord],
              UNCHANGED <<memberships, policy, votes>>
       PROVE  Counted(l)
  <2>1. order'[m.lobby] = ord /\ \A k \in Lobbies \ {m.lobby} : order'[k] = order[k]
    BY <1>1, <1>12
  <2>2. QED
    BY <1>10, <1>12, <2>1
<1>13. ASSUME NEW m \in memberships, NEW e, HostOnly(m), Remove(m.lobby, e) PROVE Counted(l)
  <2> DEFINE ord == Retain(order[m.lobby], DOMAIN order[m.lobby] \ {e})
  <2>1. e \in DOMAIN order[m.lobby] /\ e \notin DOMAIN ord
    BY <1>13 DEF Remove, Retain
  <2>2. ord # order[m.lobby]
    BY <2>1
  <2>3. /\ Member(m) /\ Bump({m.lobby}) /\ order' = [order EXCEPT ![m.lobby] = ord]
        /\ UNCHANGED <<memberships, policy, votes>>
    BY <1>13 DEF Remove, HostOnly
  <2> HIDE DEF ord
  <2>4. QED
    BY <1>12, <2>2, <2>3
<1>14. ASSUME NEW m \in memberships, NEW e, NEW index \in 0..MaxEntries,
              NEW expected \in 1..MaxRevision, MoveEntry(m, e, index, expected)
       PROVE  Counted(l)
  <2> DEFINE to == Destination(index)
             ord == Shift(order[m.lobby], e, to)
  <2>1. e \in DOMAIN order[m.lobby] /\ order[m.lobby][e] # to
    BY <1>14 DEF MoveEntry
  <2>2. ord[e] = to
    BY <2>1 DEF Shift
  <2>3. ord # order[m.lobby]
    BY <2>1, <2>2
  <2>4. /\ Member(m) /\ Bump({m.lobby}) /\ order' = [order EXCEPT ![m.lobby] = ord]
        /\ UNCHANGED <<memberships, policy, votes>>
    BY <1>14 DEF MoveEntry, HostOnly
  <2> HIDE DEF ord
  <2>5. QED
    BY <1>12, <2>3, <2>4
<1>15. ASSUME NEW m \in memberships, NEW p, SetPolicy(m, p) PROVE Counted(l)
  <2>1. m.lobby \in Lobbies
    BY <1>1
  <2>2. policy'[m.lobby] # policy[m.lobby]
    BY <1>1, <1>15, <2>1 DEF SetPolicy
  <2>3. \A k \in Lobbies \ {m.lobby} : policy'[k] = policy[k] /\ order'[k] = order[k]
    BY <1>1, <1>15 DEF SetPolicy
  <2>4. Member(m) /\ Bump({m.lobby}) /\ memberships' = memberships /\ votes' = votes
    BY <1>15 DEF SetPolicy, HostOnly
  <2>5. QED
    BY <1>10, <2>2, <2>3, <2>4
<1>16. ASSUME NEW m \in memberships, NEW e, Vote(m, e) PROVE Counted(l)
  <2>1. m.lobby \in Lobbies /\ m.user \in Users
    BY <1>1
  <2>2. /\ Member(m) /\ Bump({m.lobby}) /\ memberships' = memberships /\ policy' = policy
        /\ votes' = votes \cup {<<e, m.user>>} /\ <<e, m.user>> \notin votes
        /\ e \in DOMAIN order[m.lobby]
    BY <1>16 DEF Vote, GuestOnly
  <2>3. \A k \in Lobbies \ {m.lobby} : order'[k] = order[k]
    BY <1>1, <1>16 DEF Vote
  <2>4. \A k \in Lobbies \ {m.lobby} : \A f \in DOMAIN order[k], u \in Users :
          <<f, u>> \in votes' <=> <<f, u>> \in votes
    BY <2>1, <2>2, OneLobbyEach
  <2>5. \E f \in DOMAIN order[m.lobby], u \in Users : <<f, u>> \in votes' /\ <<f, u>> \notin votes
    BY <2>1, <2>2
  <2>6. QED
    BY <1>10, <2>2, <2>3, <2>4, <2>5
<1>17. CASE Tick \/ UNCHANGED vars
  <2>1. /\ lobbies' = lobbies /\ policy' = policy /\ order' = order /\ votes' = votes
        /\ memberships' = memberships
    BY <1>17 DEF Tick, vars
  <2>2. QED
    BY <1>1, <2>1, QuietIsCounted
<1>18. CASE QueueStep
  BY <1>11, <1>13, <1>14, <1>15, <1>16, <1>18 DEF QueueStep, AdvanceQueue, VetoEntry
<1>19. QED
  BY <1>3, <1>4, <1>5, <1>6, <1>8, <1>9, <1>17, <1>18 DEF Next, LobbyStep

\* The revision of a usable lobby grows by one exactly with the transactions that
\* change what its members see, in both lobbies of a transfer, and never again
\* once the lobby closed or expired (increment, queue.rs; join, leave, lobbies.rs).
THEOREM RevisionCounts == Spec => RevisionCountsChanges
<1>1. IInv /\ [Next]_vars
        => [\A l \in Lobbies :
              IF Active(l)
              THEN lobbies'[l].revision
                     = lobbies[l].revision + IF Visible(l)' = Visible(l) THEN 0 ELSE 1
              ELSE lobbies[l].state # "free" => lobbies'[l].revision = lobbies[l].revision]_vars
  BY StepCounted DEF Counted
<1>2. QED
  BY <1>1, InductiveInvariant, PTL DEF Spec, RevisionCountsChanges

-----------------------------------------------------------------------------
(* The store implements SharedQueue.  The positions of a queue must be those *)
(* of a list: 0, 1, 2 and so on, each of one entry.  TypeOK says nothing of  *)
(* it, and Listed means nothing without it.                                  *)

IsList(ord) ==
  /\ IsOrder(ord)
  /\ \A e \in DOMAIN ord : ord[e] < Cardinality(DOMAIN ord)
  /\ \A e, f \in DOMAIN ord : ord[e] = ord[f] => e = f
  /\ \A i \in 0..Cardinality(DOMAIN ord)-1 : \E e \in DOMAIN ord : ord[e] = i

OrderIsList == \A l \in Lobbies : IsList(order[l])

\* As many different positions as there are entries leave none out.
LEMMA InjectiveIsList ==
  ASSUME NEW ord, IsOrder(ord),
         \A e \in DOMAIN ord : ord[e] < Cardinality(DOMAIN ord),
         \A e, f \in DOMAIN ord : ord[e] = ord[f] => e = f
  PROVE  IsList(ord)
<1> DEFINE D == DOMAIN ord
           n == Cardinality(D)
<1>1. IsFiniteSet(D) /\ n \in Nat
  BY EntrySetSize DEF IsOrder
<1>2. IsFiniteSet(0..n-1) /\ Cardinality(0..n-1) = n
  BY <1>1, FS_Interval, SMTT(30)
<1>3. ord \in [D -> 0..n-1]
  BY <1>1 DEF IsOrder
<1>4. ord \in Injection(D, 0..n-1)
  BY <1>3 DEF Injection, IsInjective
<1>5. ord \in Surjection(D, 0..n-1)
  BY <1>2, <1>4, FS_Injection
<1>6. \A i \in 0..n-1 : \E e \in D : ord[e] = i
  BY <1>5 DEF Surjection
<1>7. QED
  BY <1>6 DEF IsList

\* replace_order: the kept entries are a list, in the order they had.
LEMMA RetainIsList ==
  ASSUME NEW ord, IsList(ord), NEW kept, kept \subseteq DOMAIN ord
  PROVE  /\ IsList(Retain(ord, kept)) /\ DOMAIN Retain(ord, kept) = kept
         /\ \A e, f \in kept : Retain(ord, kept)[e] < Retain(ord, kept)[f] <=> ord[e] < ord[f]
<1> DEFINE r == Retain(ord, kept)
           Below(e) == {g \in kept : ord[g] < ord[e]}
<1>1. kept \subseteq 1..MaxEntries /\ \A e \in kept : ord[e] \in Nat
  BY DEF IsList, IsOrder
<1>2. IsFiniteSet(kept) /\ Cardinality(kept) \in Nat
  BY <1>1, EntrySetSize
<1>3. DOMAIN r = kept /\ IsOrder(r)
  BY <1>1, RetainType
<1>4. \A e \in kept : r[e] = Cardinality(Below(e))
  BY DEF Retain
<1>5. \A e \in kept : IsFiniteSet(Below(e)) /\ Cardinality(Below(e)) \in Nat
  BY <1>1, EntrySetSize
<1> HIDE DEF r
<1>6. ASSUME NEW e \in kept PROVE r[e] < Cardinality(kept)
  <2>1. Below(e) \in SUBSET kept /\ Below(e) # kept
    BY <1>1
  <2>2. Cardinality(Below(e)) <= Cardinality(kept) /\ Cardinality(Below(e)) # Cardinality(kept)
    BY <1>2, <2>1, FS_Subset
  <2>3. QED
    BY <1>2, <1>4, <1>5, <2>2
<1>7. ASSUME NEW e \in kept, NEW f \in kept, ord[e] < ord[f] PROVE r[e] < r[f]
  <2>1. Below(e) \in SUBSET Below(f)
    BY <1>1, <1>7
  <2>2. e \in Below(f) /\ e \notin Below(e)
    BY <1>1, <1>7
  <2>3. Cardinality(Below(e)) <= Cardinality(Below(f)) /\ Cardinality(Below(e)) # Cardinality(Below(f))
    BY <1>5, <2>1, <2>2, FS_Subset
  <2>4. QED
    BY <1>4, <1>5, <2>3
<1>8. \A e, f \in kept : ord[e] = ord[f] => e = f
  BY DEF IsList
<1>9. \A e \in kept : r[e] \in Nat
  BY <1>4, <1>5
<1>10. \A e, f \in kept : r[e] < r[f] <=> ord[e] < ord[f]
  BY <1>1, <1>7, <1>8, <1>9
<1>11. \A e, f \in kept : r[e] = r[f] => e = f
  BY <1>1, <1>7, <1>8, <1>9
<1>12. IsList(r)
  BY <1>3, <1>6, <1>11, InjectiveIsList
<1>13. QED
  BY <1>3, <1>10, <1>12 DEF r

\* move_queue permutes the positions.
LEMMA ShiftIsList ==
  ASSUME NEW ord, IsList(ord), NEW e \in DOMAIN ord, NEW to \in Nat,
         to < Cardinality(DOMAIN ord)
  PROVE  IsList(Shift(ord, e, to)) /\ DOMAIN Shift(ord, e, to) = DOMAIN ord
<1> DEFINE r == Shift(ord, e, to)
           n == Cardinality(DOMAIN ord)
<1>1. n \in Nat /\ \A f \in DOMAIN ord : ord[f] \in Nat /\ ord[f] < n
  BY EntrySetSize DEF IsList, IsOrder
<1>2. DOMAIN r = DOMAIN ord /\ IsOrder(r)
  BY ShiftType DEF IsList
<1>3. \A f \in DOMAIN ord : r[f] = IF f = e THEN to
                                   ELSE IF ord[e] < ord[f] /\ ord[f] <= to THEN ord[f] - 1
                                   ELSE IF to <= ord[f] /\ ord[f] < ord[e] THEN ord[f] + 1
                                   ELSE ord[f]
  BY DEF Shift
<1> HIDE DEF r
<1>4. \A f \in DOMAIN ord : r[f] < n
  BY <1>1, <1>3
<1>5. \A f, g \in DOMAIN ord : ord[f] = ord[g] => f = g
  BY DEF IsList
<1>6. ASSUME NEW f \in DOMAIN ord, NEW g \in DOMAIN ord, r[f] = r[g] PROVE f = g
  <2>1. /\ ord[e] \in Nat /\ ord[f] \in Nat /\ ord[g] \in Nat
        /\ (ord[f] = ord[e] => f = e) /\ (ord[g] = ord[e] => g = e)
        /\ (ord[f] = ord[g] => f = g)
    BY <1>1, <1>5
  <2>2. QED
    BY <1>3, <1>6, <2>1
<1>7. IsList(r)
  BY <1>2, <1>4, <1>6, InjectiveIsList
<1>8. QED
  BY <1>2, <1>7 DEF r

\* submit_queue: count(*) is the position behind the last one.
LEMMA AppendIsList ==
  ASSUME NEW ord, IsList(ord), NEW e \in (1..MaxEntries) \ DOMAIN ord, NEW r,
         r = [f \in DOMAIN ord \cup {e} |->
                IF f = e THEN Cardinality(DOMAIN ord) ELSE ord[f]]
  PROVE  /\ IsList(r) /\ DOMAIN r = DOMAIN ord \cup {e}
         /\ Cardinality(DOMAIN r) = Cardinality(DOMAIN ord) + 1
<1> DEFINE n == Cardinality(DOMAIN ord)
<1>1. /\ n \in Nat /\ IsFiniteSet(DOMAIN ord)
      /\ \A f \in DOMAIN ord : ord[f] \in Nat /\ ord[f] < n
  BY EntrySetSize DEF IsList, IsOrder
<1>2. DOMAIN r = DOMAIN ord \cup {e}
  OBVIOUS
<1>3. Cardinality(DOMAIN r) = n + 1
  BY <1>1, <1>2, FS_AddElement
<1>4. \A f \in DOMAIN r : r[f] = IF f = e THEN n ELSE ord[f]
  OBVIOUS
<1>5. IsOrder(r)
  <2>1. \A f \in DOMAIN r : r[f] \in Nat
    BY <1>1, <1>2, <1>4
  <2>2. DOMAIN r \subseteq 1..MaxEntries
    BY <1>2 DEF IsList, IsOrder
  <2>3. QED
    BY <2>1, <2>2 DEF IsOrder
<1>6. \A f \in DOMAIN r : r[f] < n + 1
  BY <1>1, <1>2, <1>4
<1>7. \A f, g \in DOMAIN r : r[f] = r[g] => f = g
  <2>1. \A f, g \in DOMAIN ord : ord[f] = ord[g] => f = g
    BY DEF IsList
  <2>2. QED
    BY <1>1, <1>2, <1>4, <2>1
<1>8. IsList(r)
  <2> HIDE DEF n
  <2>1. QED
    BY <1>3, <1>5, <1>6, <1>7, InjectiveIsList DEF n
<1>9. QED
  BY <1>2, <1>3, <1>8

LEMMA EmptyIsList == IsList(<<>>) /\ DOMAIN <<>> = {}
<1>1. DOMAIN <<>> = {} /\ IsOrder(<<>>)
  BY DEF IsOrder
<1>2. QED
  BY <1>1, InjectiveIsList

\* ORDER BY position lists every active entry once, at its position.
LEMMA ListedIs ==
  ASSUME NEW ord, IsList(ord)
  PROVE  LET q == Listed(ord)
             n == Cardinality(DOMAIN ord)
         IN /\ n \in Nat /\ q \in Seq(1..MaxEntries) /\ Len(q) = n /\ DOMAIN q = 1..n
            /\ \A i \in 1..n : q[i] \in DOMAIN ord /\ ord[q[i]] = i - 1
            /\ \A e \in DOMAIN ord : /\ ord[e] \in Nat /\ ord[e] < n
                                    /\ q[ord[e] + 1] = e
<1> DEFINE n == Cardinality(DOMAIN ord)
           q == Listed(ord)
<1>1. n \in Nat /\ DOMAIN ord \subseteq 1..MaxEntries
  BY EntrySetSize DEF IsList, IsOrder
<1>2. \A e \in DOMAIN ord : ord[e] \in Nat /\ ord[e] < n
  BY DEF IsList, IsOrder
<1>3. q = [i \in 1..n |-> CHOOSE e \in DOMAIN ord : ord[e] = i - 1]
  BY DEF Listed
<1>4. ASSUME NEW i \in 1..n PROVE q[i] \in DOMAIN ord /\ ord[q[i]] = i - 1
  <2>1. i - 1 \in 0..n-1
    BY <1>1
  <2>2. \E e \in DOMAIN ord : ord[e] = i - 1
    BY <2>1 DEF IsList
  <2>3. q[i] = CHOOSE e \in DOMAIN ord : ord[e] = i - 1
    BY <1>3
  <2> HIDE DEF q
  <2>4. QED
    BY <2>2, <2>3
<1>5. DOMAIN q = 1..n
  BY <1>3
<1>6. q \in [1..n -> 1..MaxEntries]
  <2>1. \A i \in 1..n : q[i] \in 1..MaxEntries
    BY <1>1, <1>4
  <2>2. q = [i \in 1..n |-> q[i]]
    BY <1>3
  <2> HIDE DEF q
  <2>3. QED
    BY <2>1, <2>2
<1> HIDE DEF q
<1>7. q \in Seq(1..MaxEntries)
  BY <1>1, <1>6, SeqDef
<1>8. Len(q) = n
  <2>1. Len(q) \in Nat /\ DOMAIN q = 1..Len(q)
    BY <1>7, LenProperties
  <2>2. QED
    BY <1>1, <1>5, <2>1
<1>9. ASSUME NEW e \in DOMAIN ord PROVE q[ord[e] + 1] = e
  <2>1. ord[e] + 1 \in 1..n
    BY <1>1, <1>2
  <2>2. \A i \in 1..n : q[i] \in DOMAIN ord /\ ord[q[i]] = i - 1
    BY <1>4
  <2> HIDE DEF n
  <2>3. q[ord[e] + 1] \in DOMAIN ord /\ ord[q[ord[e] + 1]] = (ord[e] + 1) - 1
    BY <2>1, <2>2
  <2>4. ord[q[ord[e] + 1]] = ord[e]
    BY <1>2, <2>3
  <2>5. QED
    BY <2>3, <2>4 DEF IsList
<1>10. QED
  BY <1>1, <1>2, <1>4, <1>5, <1>7, <1>8, <1>9 DEF q

LEMMA ListedRange ==
  ASSUME NEW ord, IsList(ord)
  PROVE  Promise!Range(Listed(ord)) = DOMAIN ord
<1> DEFINE q == Listed(ord)
           n == Cardinality(DOMAIN ord)
<1>1. /\ n \in Nat /\ DOMAIN q = 1..n /\ \A i \in 1..n : q[i] \in DOMAIN ord
      /\ \A e \in DOMAIN ord : ord[e] \in Nat /\ ord[e] < n /\ q[ord[e] + 1] = e
  BY ListedIs
<1>2. \A e \in DOMAIN ord : ord[e] + 1 \in 1..n
  BY <1>1
<1> HIDE DEF q, n
<1>3. {q[i] : i \in DOMAIN q} = DOMAIN ord
  BY <1>1, <1>2
<1>4. QED
  BY <1>3 DEF Promise!Range, q

LEMMA ListedBefore ==
  ASSUME NEW ord, IsList(ord), NEW e \in DOMAIN ord, NEW f \in DOMAIN ord
  PROVE  Promise!Before(Listed(ord), e, f) <=> ord[e] < ord[f]
<1> DEFINE q == Listed(ord)
           n == Cardinality(DOMAIN ord)
<1>1. /\ n \in Nat /\ DOMAIN q = 1..n /\ \A i \in 1..n : ord[q[i]] = i - 1
      /\ \A g \in DOMAIN ord : ord[g] \in Nat /\ ord[g] < n /\ q[ord[g] + 1] = g
  BY ListedIs
<1> HIDE DEF q, n
<1>2. ASSUME NEW i \in DOMAIN q, NEW j \in DOMAIN q, i < j, q[i] = e, q[j] = f
      PROVE  ord[e] < ord[f]
  BY <1>1, <1>2
<1>3. ASSUME ord[e] < ord[f]
      PROVE  \E i, j \in DOMAIN q : i < j /\ q[i] = e /\ q[j] = f
  <2>1. /\ ord[e] + 1 \in DOMAIN q /\ ord[f] + 1 \in DOMAIN q /\ ord[e] + 1 < ord[f] + 1
        /\ q[ord[e] + 1] = e /\ q[ord[f] + 1] = f
    BY <1>1, <1>3
  <2>2. QED
    BY <2>1
<1>4. (\E i, j \in DOMAIN q : i < j /\ q[i] = e /\ q[j] = f) <=> ord[e] < ord[f]
  BY <1>2, <1>3
<1>5. QED
  BY <1>4 DEF Promise!Before, q

\* r holds some of the entries of ord, in the order they have there.
Thinned(ord, r) ==
  /\ DOMAIN r \subseteq DOMAIN ord
  /\ \A e, f \in DOMAIN r : r[e] < r[f] <=> ord[e] < ord[f]

LEMMA ReevaluateThins ==
  ASSUME TypeOK, NEW l \in Lobbies, IsList(order[l]), NEW ms, NEW vs, NEW p
  PROVE  LET r == Reevaluate(ms, vs, p, l)
         IN IsList(r) /\ Thinned(order[l], r)
<1> DEFINE removed == Qualifying(ms, vs, p, l)
<1>1. CASE removed = {}
  BY <1>1 DEF Reevaluate, Thinned
<1>2. CASE removed # {}
  <2> DEFINE kept == DOMAIN order[l] \ removed
  <2>1. Reevaluate(ms, vs, p, l) = Retain(order[l], kept)
    BY <1>2 DEF Reevaluate
  <2>2. kept \subseteq DOMAIN order[l]
    OBVIOUS
  <2> HIDE DEF kept
  <2>3. QED
    BY <2>1, <2>2, RetainIsList DEF Thinned
<1>3. QED
  BY <1>1, <1>2

\* The entries gone from any queue are taken from all, in one step.
LEMMA ThinnedIsTake ==
  ASSUME IInv, OrderIsList, TypeOK', issued'.entry = issued.entry,
         \A l \in Lobbies : IsList(order'[l]) /\ Thinned(order[l], order'[l])
  PROVE  \E taken \in SUBSET (1..issued.entry) : Promise!Take(taken)
<1> DEFINE taken == UNION {DOMAIN order[l] \ DOMAIN order'[l] : l \in Lobbies}
           old(l) == Listed(order[l])
           new(l) == Listed(order'[l])
<1>1. \A l \in Lobbies : DOMAIN order'[l] = DOMAIN order[l] \ taken
  <2>1. ASSUME NEW l \in Lobbies, NEW e \in DOMAIN order[l]
        PROVE  e \in taken <=> e \notin DOMAIN order'[l]
    BY <2>1, OneLobbyEach
  <2> HIDE DEF taken
  <2>2. QED
    BY <2>1 DEF Thinned
<1>2. taken \in SUBSET (1..issued.entry)
  <2>1. ASSUME NEW l \in Lobbies, NEW e \in DOMAIN order[l] PROVE e \in 1..issued.entry
    BY <2>1 DEF IInv, NoOrphanRows, FreshIds, TypeOK, EntryRow
  <2>2. QED
    BY <2>1
<1> HIDE DEF taken
<1>3. ASSUME NEW l \in Lobbies PROVE Promise!Left(old(l), taken, new(l))
  <2>1. IsList(order[l]) /\ IsList(order'[l]) /\ DOMAIN order'[l] = DOMAIN order[l] \ taken
    BY <1>1 DEF OrderIsList
  <2>2. Promise!Range(old(l)) = DOMAIN order[l] /\ Promise!Range(new(l)) = DOMAIN order'[l]
    BY <2>1, ListedRange
  <2>3. ASSUME NEW e \in DOMAIN order[l] \ taken, NEW f \in DOMAIN order[l] \ taken
        PROVE  Promise!Before(new(l), e, f) <=> Promise!Before(old(l), e, f)
    <3>1. e \in DOMAIN order'[l] /\ f \in DOMAIN order'[l]
      BY <2>1, <2>3
    <3>2. Promise!Before(old(l), e, f) <=> order[l][e] < order[l][f]
      BY <2>1, ListedBefore
    <3>3. Promise!Before(new(l), e, f) <=> order'[l][e] < order'[l][f]
      BY <2>1, <3>1, ListedBefore
    <3>4. order'[l][e] < order'[l][f] <=> order[l][e] < order[l][f]
      BY <3>1 DEF Thinned
    <3>5. QED
      BY <3>2, <3>3, <3>4
  <2> HIDE DEF old, new
  <2>4. QED
    BY <2>1, <2>2, <2>3 DEF Promise!Left
<1>4. \A l \in Lobbies : new(l) \in Seq(1..MaxEntries)
  BY ListedIs
<1>5. Promise!Take(taken)
  <2> HIDE DEF old, new
  <2>1. [l \in Lobbies |-> new(l)] \in [Lobbies -> Seq(1..MaxEntries)]
    BY <1>4
  <2>2. \A l \in Lobbies : Promise!Left([k \in Lobbies |-> old(k)][l], taken, [k \in Lobbies |-> new(k)][l])
    BY <1>3
  <2>3. QED
    BY <2>1, <2>2 DEF Promise!Take, old, new
<1>6. QED
  BY <1>2, <1>5

\* Vec::remove and Vec::insert, element by element.
LEMMA RemoveAtIs ==
  ASSUME NEW S, NEW q \in Seq(S), NEW i \in 1..Len(q)
  PROVE  LET r == Promise!RemoveAt(q, i)
         IN /\ r \in Seq(S) /\ Len(r) = Len(q) - 1
            /\ \A k \in 1..Len(q)-1 : r[k] = IF k < i THEN q[k] ELSE q[k + 1]
<1> DEFINE n == Len(q)
           a == SubSeq(q, 1, i - 1)
           b == SubSeq(q, i + 1, n)
<1>1. n \in Nat /\ \A k \in 1..n : q[k] \in S
  BY LenProperties, ElementOfSeq
<1>2. /\ a \in Seq(S) /\ Len(a) = i - 1
      /\ \A k \in 1..i-1 : a[k] = q[k]
  <2>1. i - 1 \in Int /\ 1 \in Int /\ \A k \in 1..i-1 : q[k] \in S
    BY <1>1
  <2>2. /\ a \in Seq(S) /\ Len(a) = IF 1 <= i - 1 THEN i - 1 - 1 + 1 ELSE 0
        /\ \A k \in 1..i-1-1+1 : a[k] = q[1 + k - 1]
    BY <2>1, SubSeqProperties
  <2> HIDE DEF a
  <2>3. QED
    BY <2>1, <2>2
<1>3. /\ b \in Seq(S) /\ Len(b) = n - i
      /\ \A k \in 1..n-i : b[k] = q[k + i]
  <2>1. i + 1 \in Int /\ n \in Int /\ \A k \in i+1..n : q[k] \in S
    BY <1>1
  <2>2. /\ b \in Seq(S) /\ Len(b) = IF i + 1 <= n THEN n - (i + 1) + 1 ELSE 0
        /\ \A k \in 1..n-(i+1)+1 : b[k] = q[i + 1 + k - 1]
    BY <2>1, SubSeqProperties
  <2> HIDE DEF b, n
  <2>3. n - i \in Nat /\ i \in Nat
    BY <1>1 DEF n
  <2>4. QED
    BY <1>1, <2>2, <2>3
<1> HIDE DEF a, b
<1>4. /\ a \o b \in Seq(S) /\ Len(a \o b) = Len(a) + Len(b)
      /\ \A k \in 1..Len(a)+Len(b) : (a \o b)[k] = IF k <= Len(a) THEN a[k] ELSE b[k - Len(a)]
  BY <1>2, <1>3, ConcatProperties
<1>5. Promise!RemoveAt(q, i) = a \o b
  BY DEF Promise!RemoveAt, a, b
<1> DEFINE r == a \o b
<1> HIDE DEF r, n
<1>6. \A k \in 1..n-1 : r[k] = IF k < i THEN q[k] ELSE q[k + 1]
  <2> SUFFICES ASSUME NEW k \in 1..n-1 PROVE r[k] = IF k < i THEN q[k] ELSE q[k + 1]
    OBVIOUS
  <2>1. i \in 1..n
    BY DEF n
  <2>2. r[k] = IF k <= i - 1 THEN a[k] ELSE b[k - (i - 1)]
    BY <1>1, <1>2, <1>3, <1>4, <2>1 DEF r
  <2>3. CASE k < i
    BY <1>1, <1>2, <2>1, <2>2, <2>3
  <2>4. CASE ~(k < i)
    <3>1. k - (i - 1) \in 1..n-i /\ k - (i - 1) + i = k + 1
      BY <1>1, <2>1, <2>4
    <3>2. QED
      BY <1>1, <1>3, <2>1, <2>2, <2>4, <3>1
  <2>5. QED
    BY <2>3, <2>4
<1>7. Len(r) = n - 1 /\ r \in Seq(S)
  BY <1>1, <1>2, <1>3, <1>4 DEF r, n
<1>8. QED
  BY <1>5, <1>6, <1>7 DEF r, n

\* r is q with x before what was at j.
Inserted(q, j, x, r) ==
  /\ Len(r) = Len(q) + 1
  /\ \A k \in 1..Len(q)+1 : r[k] = IF k < j THEN q[k]
                                 ELSE IF k = j THEN x ELSE q[k - 1]

LEMMA InsertAtIs ==
  ASSUME NEW S, NEW q \in Seq(S), NEW j \in 1..Len(q)+1, NEW x \in S
  PROVE  LET r == Promise!InsertAt(q, j, x)
         IN r \in Seq(S) /\ Inserted(q, j, x, r)
<1> DEFINE n == Len(q)
           a == SubSeq(q, 1, j - 1)
           b == SubSeq(q, j, n)
           ax == a \o <<x>>
           r == ax \o b
<1>1. n \in Nat /\ \A k \in 1..n : q[k] \in S
  BY LenProperties, ElementOfSeq
<1>2. j \in 1..n+1 /\ j \in Int /\ j - 1 \in Int
  BY <1>1
<1>3. /\ a \in Seq(S) /\ Len(a) = j - 1
      /\ \A k \in 1..j-1 : a[k] = q[k]
  <2>1. \A k \in 1..j-1 : q[k] \in S
    BY <1>1, <1>2
  <2>2. /\ a \in Seq(S) /\ Len(a) = IF 1 <= j - 1 THEN j - 1 - 1 + 1 ELSE 0
        /\ \A k \in 1..j-1-1+1 : a[k] = q[1 + k - 1]
    BY <1>2, <2>1, SubSeqProperties
  <2> HIDE DEF a
  <2>3. QED
    BY <1>1, <1>2, <2>2
<1>4. /\ b \in Seq(S) /\ Len(b) = n - j + 1
      /\ \A k \in 1..n-j+1 : b[k] = q[k + j - 1]
  <2>1. n \in Int /\ \A k \in j..n : q[k] \in S
    BY <1>1, <1>2
  <2>2. /\ b \in Seq(S) /\ Len(b) = IF j <= n THEN n - j + 1 ELSE 0
        /\ \A k \in 1..n-j+1 : b[k] = q[j + k - 1]
    BY <1>2, <2>1, SubSeqProperties
  <2> HIDE DEF b, n
  <2>3. QED
    BY <1>1, <1>2, <2>2
<1>5. <<x>> \in Seq(S) /\ Len(<<x>>) = 1 /\ <<x>>[1] = x
  OBVIOUS
<1> HIDE DEF a, b
<1>6. /\ ax \in Seq(S) /\ Len(ax) = Len(a) + 1
      /\ \A k \in 1..Len(a)+1 : ax[k] = IF k <= Len(a) THEN a[k] ELSE <<x>>[k - Len(a)]
  BY <1>3, <1>5, ConcatProperties
<1> HIDE DEF ax
<1>7. /\ r \in Seq(S) /\ Len(r) = Len(ax) + Len(b)
      /\ \A k \in 1..Len(ax)+Len(b) : r[k] = IF k <= Len(ax) THEN ax[k] ELSE b[k - Len(ax)]
  BY <1>4, <1>6, ConcatProperties
<1>8. Promise!InsertAt(q, j, x) = r
  BY DEF Promise!InsertAt, a, b, ax
<1> HIDE DEF r, n
<1>9. Len(ax) = j /\ Len(r) = n + 1
  BY <1>1, <1>2, <1>3, <1>4, <1>6, <1>7
<1>10. \A k \in 1..n+1 : r[k] = IF k < j THEN q[k] ELSE IF k = j THEN x ELSE q[k - 1]
  <2> SUFFICES ASSUME NEW k \in 1..n+1
               PROVE  r[k] = IF k < j THEN q[k] ELSE IF k = j THEN x ELSE q[k - 1]
    OBVIOUS
  <2>1. r[k] = IF k <= j THEN ax[k] ELSE b[k - j]
    BY <1>1, <1>2, <1>4, <1>7, <1>9
  <2>2. CASE k < j
    <3>1. k \in 1..j-1 /\ k <= Len(a) /\ k \in 1..Len(a)+1
      BY <1>1, <1>2, <1>3, <2>2
    <3>2. ax[k] = a[k] /\ a[k] = q[k]
      BY <1>3, <1>6, <3>1
    <3>3. QED
      BY <1>2, <2>1, <2>2, <3>2
  <2>3. CASE k = j
    <3>1. k \in 1..Len(a)+1 /\ ~(k <= Len(a)) /\ k - Len(a) = 1
      BY <1>1, <1>2, <1>3, <2>3
    <3>2. ax[k] = x
      BY <1>5, <1>6, <3>1
    <3>3. QED
      BY <1>2, <2>1, <2>3, <3>2
  <2>4. CASE k > j
    <3>1. k - j \in 1..n-j+1 /\ k - j + j - 1 = k - 1
      BY <1>1, <1>2, <2>4
    <3>2. b[k - j] = q[k - 1]
      BY <1>4, <3>1
    <3>3. QED
      BY <1>1, <1>2, <2>1, <2>4, <3>2
  <2>5. QED
    BY <1>1, <1>2, <2>2, <2>3, <2>4
<1>11. QED
  BY <1>7, <1>8, <1>9, <1>10 DEF n, Inserted

\* The queue of one lobby changes when its order does.
LEMMA QueueOfLobby ==
  ASSUME TypeOK, NEW l \in Lobbies, NEW r, order' = [order EXCEPT ![l] = r]
  PROVE  /\ order'[l] = r /\ \A k \in Lobbies : k # l => order'[k] = order[k]
         /\ [k \in Lobbies |-> Listed(order'[k])]
              = [[k \in Lobbies |-> Listed(order[k])] EXCEPT ![l] = Listed(r)]
<1>1. DOMAIN order = Lobbies
  BY DEF TypeOK
<1>2. order'[l] = r /\ \A k \in Lobbies : k # l => order'[k] = order[k]
  BY <1>1
<1> DEFINE old == [k \in Lobbies |-> Listed(order[k])]
<1>3. \A k \in Lobbies : Listed(order'[k]) = IF k = l THEN Listed(r) ELSE Listed(order[k])
  BY <1>2
<1>4. [old EXCEPT ![l] = Listed(r)]
        = [k \in Lobbies |-> IF k = l THEN Listed(r) ELSE Listed(order[k])]
  OBVIOUS
<1>5. QED
  BY <1>2, <1>3, <1>4

\* count(*) is the place behind the last entry.
LEMMA SubmitIsSubmit ==
  ASSUME IInv, OrderIsList, NEW m \in memberships, NEW request \in Requests,
         SubmitEntry(m, request)
  PROVE  /\ OrderIsList'
         /\ \E l \in Lobbies : \E e \in 1..MaxEntries : Promise!Submit(l, e)
<1> DEFINE l == m.lobby
           e == issued.entry + 1
           ord == order[l]
           r == [f \in DOMAIN ord \cup {e} |-> IF f = e THEN Cardinality(DOMAIN ord) ELSE ord[f]]
           n == Cardinality(DOMAIN ord)
<1>1. /\ TypeOK /\ l \in Lobbies /\ issued.entry \in Nat /\ e \in 1..MaxEntries
      /\ IsList(ord) /\ order' = [order EXCEPT ![l] = r] /\ issued'.entry = e
  BY StoreAssumption DEF IInv, TypeOK, MembershipRow, SubmitEntry, OrderIsList
<1>2. e \notin DOMAIN ord
  <2>1. \A f \in DOMAIN ord : f \in 1..issued.entry
    BY <1>1 DEF IInv, NoOrphanRows, FreshIds, TypeOK, EntryRow
  <2>2. QED
    BY <1>1, <2>1
<1> HIDE DEF l, e
<1>3. IsList(r) /\ DOMAIN r = DOMAIN ord \cup {e} /\ Cardinality(DOMAIN r) = n + 1
  <2> DEFINE rr == r
  <2>1. rr = [f \in DOMAIN ord \cup {e} |-> IF f = e THEN Cardinality(DOMAIN ord) ELSE ord[f]]
    OBVIOUS
  <2>2. e \in (1..MaxEntries) \ DOMAIN ord
    BY <1>1, <1>2
  <2> HIDE DEF rr, ord
  <2>3. IsList(rr) /\ DOMAIN rr = DOMAIN ord \cup {e} /\ Cardinality(DOMAIN rr) = n + 1
    BY <1>1, <2>1, <2>2, AppendIsList
  <2>4. QED
    BY <2>3 DEF rr, ord
<1>4. /\ r[e] = n /\ \A f \in DOMAIN ord : r[f] = ord[f]
  BY <1>2
<1> HIDE DEF r
<1>5. /\ order'[l] = r /\ \A k \in Lobbies : k # l => order'[k] = order[k]
      /\ [k \in Lobbies |-> Listed(order'[k])]
           = [[k \in Lobbies |-> Listed(order[k])] EXCEPT ![l] = Listed(r)]
  BY <1>1, QueueOfLobby
<1>6. OrderIsList'
  BY <1>3, <1>5 DEF OrderIsList
<1>7. Listed(r) = Append(Listed(ord), e)
  <2> DEFINE q == Listed(ord)
             t == Listed(r)
             u == Append(q, e)
             S == 1..MaxEntries
  <2>1. /\ n \in Nat /\ q \in Seq(S) /\ Len(q) = n
        /\ \A i \in 1..n : q[i] \in DOMAIN ord /\ ord[q[i]] = i - 1
    BY <1>1, ListedIs
  <2>2. /\ t \in Seq(S) /\ Len(t) = n + 1 /\ \A f \in DOMAIN r : t[r[f] + 1] = f
    BY <1>3, ListedIs
  <2>3. /\ u \in Seq(S) /\ Len(u) = n + 1
        /\ \A i \in 1..n : u[i] = q[i]
        /\ u[n + 1] = e
    <3>1. e \in S
      BY <1>1
    <3> HIDE DEF q, S
    <3>2. /\ u \in Seq(S) /\ Len(u) = Len(q) + 1
          /\ \A i \in 1..Len(q) : u[i] = q[i]
          /\ u[Len(q) + 1] = e
      BY <2>1, <3>1, AppendProperties
    <3>3. QED
      BY <2>1, <3>2
  <2> HIDE DEF q, t, u, S, n, ord
  <2>4. \A i \in 1..n : t[i] = q[i]
    <3>1. TAKE i \in 1..n
    <3>2. q[i] \in DOMAIN r /\ r[q[i]] = i - 1
      BY <1>3, <1>4, <2>1
    <3>3. t[r[q[i]] + 1] = q[i]
      BY <2>2, <3>2
    <3>4. QED
      BY <3>2, <3>3
  <2>5. t[n + 1] = e
    BY <1>3, <1>4, <2>2
  <2>6. \A i \in 1..n+1 : t[i] = u[i]
    BY <2>1, <2>3, <2>4, <2>5
  <2>7. t = u
    BY <2>2, <2>3, <2>6, SeqEqual
  <2>8. QED
    BY <2>7 DEF t, u, q
<1>8. Promise!Submit(l, e)
  <2> DEFINE old == [k \in Lobbies |-> Listed(order[k])]
  <2>1. e \notin 1..issued.entry /\ 1..issued'.entry = (1..issued.entry) \cup {e}
    BY <1>1 DEF e
  <2>2. [k \in Lobbies |-> Listed(order'[k])] = [old EXCEPT ![l] = Append(old[l], e)]
    BY <1>1, <1>5, <1>7
  <2>3. QED
    BY <2>1, <2>2 DEF Promise!Submit
<1>9. QED
  BY <1>1, <1>6, <1>8

\* The shift of the positions between is what remove and insert do to the list.
LEMMA ListedShift ==
  ASSUME NEW ord, IsList(ord), NEW e \in DOMAIN ord, NEW to \in Nat,
         to < Cardinality(DOMAIN ord)
  PROVE  Listed(Shift(ord, e, to))
           = Promise!InsertAt(Promise!RemoveAt(Listed(ord), ord[e] + 1), to + 1, e)
<1> DEFINE r == Shift(ord, e, to)
           q == Listed(ord)
           n == Cardinality(DOMAIN ord)
           i == ord[e] + 1
           j == to + 1
           p == Promise!RemoveAt(q, i)
           t == Promise!InsertAt(p, j, e)
           u == Listed(r)
           S == 1..MaxEntries
<1>1. /\ n \in Nat /\ q \in Seq(S) /\ Len(q) = n
      /\ \A f \in DOMAIN ord : ord[f] \in Nat /\ ord[f] < n /\ q[ord[f] + 1] = f
  BY ListedIs
<1>2. \A f \in DOMAIN ord : r[f] = IF f = e THEN to
                                   ELSE IF ord[e] < ord[f] /\ ord[f] <= to THEN ord[f] - 1
                                   ELSE IF to <= ord[f] /\ ord[f] < ord[e] THEN ord[f] + 1
                                   ELSE ord[f]
  BY DEF Shift
<1>3. IsList(r) /\ DOMAIN r = DOMAIN ord
  BY ShiftIsList
<1>4. \A f \in DOMAIN ord : f # e => ord[f] # ord[e]
  BY DEF IsList
<1>5. e \in S /\ i \in 1..n /\ j \in 1..n /\ to + 1 = j /\ ord[e] + 1 = i
  BY <1>1 DEF IsList, IsOrder
<1> HIDE DEF r, q
<1>6. /\ u \in Seq(S) /\ Len(u) = n
      /\ \A k \in 1..n : u[k] \in DOMAIN ord /\ r[u[k]] = k - 1
  BY <1>3, ListedIs
<1> HIDE DEF u, n, S, i, j
<1>7. /\ p \in Seq(S) /\ Len(p) = n - 1
      /\ \A k \in 1..n-1 : p[k] = IF k < i THEN q[k] ELSE q[k + 1]
  <2>1. q \in Seq(S) /\ i \in 1..Len(q)
    BY <1>1, <1>5
  <2>2. /\ p \in Seq(S) /\ Len(p) = Len(q) - 1
        /\ \A k \in 1..Len(q)-1 : p[k] = IF k < i THEN q[k] ELSE q[k + 1]
    BY ONLY <2>1, RemoveAtIs, Zenon
  <2> HIDE DEF p
  <2>3. QED
    BY <1>1, <2>2
<1> HIDE DEF p
<1>8. /\ t \in Seq(S) /\ Len(t) = n
      /\ \A k \in 1..n : t[k] = IF k < j THEN p[k] ELSE IF k = j THEN e ELSE p[k - 1]
  <2>1. j \in 1..Len(p)+1 /\ Len(p) + 1 = n
    BY <1>1, <1>5, <1>7
  <2>2. t \in Seq(S) /\ Inserted(p, j, e, t)
    <3>1. p \in Seq(S) /\ j \in 1..Len(p)+1 /\ e \in S
      BY <1>5, <1>7, <2>1
    <3>2. QED
      BY ONLY <3>1, InsertAtIs, Zenon
  <2> HIDE DEF t
  <2>3. QED
    BY <2>1, <2>2 DEF Inserted
<1> HIDE DEF t
<1>9. \A k \in 1..n : u[k] = t[k]
  <2> TAKE k \in 1..n
  <2> DEFINE g == u[k]
  <2>1. g \in DOMAIN ord /\ r[g] = k - 1
    BY <1>6
  <2> HIDE DEF g
  <2>2. CASE g = e
    <3>1. k = j
      BY <1>2, <1>5, <2>1, <2>2
    <3>2. QED
      BY <1>8, <2>2, <3>1 DEF g
  <2>3. CASE g # e /\ ord[e] < ord[g] /\ ord[g] <= to
    <3>1. k = ord[g] /\ k < j /\ ~(k < i) /\ k \in 1..n-1
      BY <1>1, <1>2, <1>5, <2>1, <2>3
    <3>2. t[k] = p[k] /\ p[k] = q[k + 1]
      BY <1>7, <1>8, <3>1
    <3>3. q[k + 1] = g
      BY <1>1, <2>1, <3>1
    <3>4. QED
      BY <3>2, <3>3 DEF g
  <2>4. CASE g # e /\ to <= ord[g] /\ ord[g] < ord[e]
    <3>1. k - 1 = ord[g] + 1 /\ ~(k < j) /\ k # j /\ k - 1 < i /\ k - 1 \in 1..n-1
      BY <1>1, <1>2, <1>5, <2>1, <2>4
    <3>2. t[k] = p[k - 1] /\ p[k - 1] = q[k - 1]
      BY <1>7, <1>8, <3>1
    <3>3. q[k - 1] = g
      BY <1>1, <2>1, <3>1
    <3>4. QED
      BY <3>2, <3>3 DEF g
  <2>5. CASE g # e /\ ord[g] < ord[e] /\ ord[g] < to
    <3>1. k = ord[g] + 1 /\ k < j /\ k < i /\ k \in 1..n-1
      BY <1>1, <1>2, <1>5, <2>1, <2>5
    <3>2. t[k] = p[k] /\ p[k] = q[k]
      BY <1>7, <1>8, <3>1
    <3>3. q[k] = g
      BY <1>1, <2>1, <3>1
    <3>4. QED
      BY <3>2, <3>3 DEF g
  <2>6. CASE g # e /\ ord[e] < ord[g] /\ to < ord[g]
    <3>1. /\ k = ord[g] + 1 /\ ~(k < j) /\ k # j /\ ~(k - 1 < i) /\ k - 1 \in 1..n-1
          /\ (k - 1) + 1 = k
      BY <1>1, <1>2, <1>5, <2>1, <2>6
    <3>2. t[k] = p[k - 1] /\ p[k - 1] = q[k]
      BY <1>7, <1>8, <3>1
    <3>3. q[k] = g
      BY <1>1, <2>1, <3>1
    <3>4. QED
      BY <3>2, <3>3 DEF g
  <2>7. ord[g] \in Nat /\ ord[e] \in Nat /\ (g # e => ord[g] # ord[e])
    BY <1>1, <1>4, <2>1
  <2>8. u[k] = t[k] \/ (g # e /\ ~(ord[g] < ord[e]) /\ ~(ord[e] < ord[g]))
    BY <2>2, <2>3, <2>4, <2>5, <2>6, <2>7
  <2>9. QED
    BY <2>2, <2>7, <2>8
<1>10. u = t
  BY <1>6, <1>8, <1>9, SeqEqual
<1>11. QED
  BY <1>10 DEF u, r, t, p, q, i, j

LEMMA MoveIsMove ==
  ASSUME IInv, OrderIsList, NEW m \in memberships, NEW e \in DOMAIN order[m.lobby],
         NEW index \in 0..MaxEntries, NEW expected, MoveEntry(m, e, index, expected)
  PROVE  /\ OrderIsList'
         /\ \E l \in Lobbies : \E i, j \in 2..Len(Listed(order[l])) : Promise!Move(l, i, j)
<1> DEFINE l == m.lobby
           ord == order[l]
           to == Destination(index)
           n == Cardinality(DOMAIN ord)
           i == ord[e] + 1
           j == to + 1
           q == Listed(ord)
<1>1. /\ TypeOK /\ l \in Lobbies /\ IsList(ord) /\ issued' = issued /\ to \in Nat \ {0} /\ to < n
      /\ ord[e] # 0 /\ ord[e] # to /\ order' = [order EXCEPT ![l] = Shift(ord, e, to)]
  BY DEF IInv, TypeOK, MembershipRow, MoveEntry, OrderIsList, Destination
<1> HIDE DEF l, to
<1>2. /\ n \in Nat /\ Len(q) = n /\ ord[e] \in Nat /\ ord[e] < n /\ q[i] = e
  BY <1>1, ListedIs DEF l
<1>3. i \in 2..Len(q) /\ j \in 2..Len(q) /\ i # j
  BY <1>1, <1>2
<1>4. IsList(Shift(ord, e, to))
  BY <1>1, ShiftIsList DEF l
<1>5. /\ order'[l] = Shift(ord, e, to) /\ \A k \in Lobbies : k # l => order'[k] = order[k]
      /\ [k \in Lobbies |-> Listed(order'[k])]
           = [[k \in Lobbies |-> Listed(order[k])] EXCEPT ![l] = Listed(Shift(ord, e, to))]
  BY <1>1, QueueOfLobby
<1>6. OrderIsList'
  BY <1>4, <1>5 DEF OrderIsList
<1>7. Listed(Shift(ord, e, to)) = Promise!InsertAt(Promise!RemoveAt(q, i), j, q[i])
  BY <1>1, <1>2, ListedShift DEF l
<1>8. Promise!Move(l, i, j)
  <2> DEFINE old == [k \in Lobbies |-> Listed(order[k])]
  <2>1. old[l] = q
    BY <1>1
  <2>2. [k \in Lobbies |-> Listed(order'[k])]
          = [old EXCEPT ![l] = Promise!InsertAt(Promise!RemoveAt(old[l], i), j, old[l][i])]
    BY <1>5, <1>7, <2>1
  <2> HIDE DEF i, j
  <2>3. QED
    BY <1>1, <1>3, <2>2 DEF Promise!Move
<1>9. QED
  BY <1>1, <1>3, <1>6, <1>8

\* Every queue keeps its list, or some entries of it in their order.
Thinning ==
  /\ issued'.entry = issued.entry
  /\ \A l \in Lobbies : IsList(order'[l]) /\ Thinned(order[l], order'[l])

LEMMA SameIsThinned ==
  ASSUME NEW ord
  PROVE  Thinned(ord, ord)
BY DEF Thinned

LEMMA ThinOne ==
  ASSUME TypeOK, OrderIsList, NEW l \in Lobbies, NEW r, IsList(r), Thinned(order[l], r),
         order' = [order EXCEPT ![l] = r], issued'.entry = issued.entry
  PROVE  Thinning
<1>1. order'[l] = r /\ \A k \in Lobbies : k # l => order'[k] = order[k]
  BY DEF TypeOK
<1>2. ASSUME NEW k \in Lobbies PROVE IsList(order'[k]) /\ Thinned(order[k], order'[k])
  <2>1. CASE k = l
    BY <1>1, <2>1
  <2>2. CASE k # l
    BY <1>1, <2>2, SameIsThinned DEF OrderIsList
  <2>3. QED
    BY <2>1, <2>2
<1>3. QED
  BY <1>2 DEF Thinning

LEMMA QuietThins ==
  ASSUME OrderIsList, order' = order, issued'.entry = issued.entry
  PROVE  Thinning
BY SameIsThinned DEF Thinning, OrderIsList

LEMMA DropThins ==
  ASSUME OrderIsList, NEW ls \in SUBSET Lobbies, DropQueues(ls), issued' = issued
  PROVE  Thinning
<1>1. \A l \in Lobbies : order'[l] = IF l \in ls THEN <<>> ELSE order[l]
  BY DEF DropQueues
<1>2. ASSUME NEW l \in Lobbies PROVE IsList(order'[l]) /\ Thinned(order[l], order'[l])
  <2>1. CASE l \in ls
    BY <1>1, <2>1, EmptyIsList DEF Thinned
  <2>2. CASE l \notin ls
    BY <1>1, <2>2, SameIsThinned DEF OrderIsList
  <2>3. QED
    BY <2>1, <2>2
<1>3. QED
  BY <1>2 DEF Thinning

LEMMA LobbyStepThins ==
  ASSUME TypeOK, OrderIsList, LobbyStep
  PROVE  Thinning
<1>1. ASSUME NEW u \in Users, CreateLobby(u) PROVE Thinning
  <2>1. order' = order /\ issued'.entry = issued.entry
    BY <1>1 DEF CreateLobby, TypeOK
  <2>2. QED
    BY <2>1, QuietThins
<1>2. ASSUME NEW u \in Users, NEW l \in Lobbies, JoinLobby(u, l) PROVE Thinning
  <2>1. issued'.entry = issued.entry
    BY <1>2 DEF JoinLobby, TypeOK
  <2>2. PICK ms, touched :
          order' = [k \in Lobbies |-> IF k \in touched THEN Reevaluate(ms, votes, policy[k], k)
                                      ELSE order[k]]
    BY <1>2 DEF JoinLobby
  <2>3. ASSUME NEW k \in Lobbies PROVE IsList(order'[k]) /\ Thinned(order[k], order'[k])
    <3>1. CASE k \in touched
      <4>1. order'[k] = Reevaluate(ms, votes, policy[k], k) /\ IsList(order[k])
        BY <2>2, <3>1 DEF OrderIsList
      <4>2. QED
        BY <4>1, ReevaluateThins
    <3>2. CASE k \notin touched
      BY <2>2, <3>2, SameIsThinned DEF OrderIsList
    <3>3. QED
      BY <3>1, <3>2
  <2>4. QED
    BY <2>1, <2>3 DEF Thinning
<1>3. ASSUME NEW m \in memberships, LeaveStale(m) PROVE Thinning
  BY <1>3, QuietThins DEF LeaveStale
<1>4. ASSUME NEW m \in memberships, LeaveAsGuest(m) PROVE Thinning
  <2> DEFINE r == Reevaluate(memberships \ {m}, votes, policy[m.lobby], m.lobby)
  <2>1. m.lobby \in Lobbies /\ order' = [order EXCEPT ![m.lobby] = r] /\ issued' = issued
    BY <1>4 DEF LeaveAsGuest, TypeOK, MembershipRow
  <2>2. IsList(r) /\ Thinned(order[m.lobby], r)
    BY <2>1, ReevaluateThins DEF OrderIsList
  <2> HIDE DEF r
  <2>3. QED
    BY <2>1, <2>2, ThinOne
<1>5. ASSUME NEW m \in memberships, CloseLobby(m) PROVE Thinning
  <2>1. {m.lobby} \in SUBSET Lobbies /\ DropQueues({m.lobby}) /\ issued' = issued
    BY <1>5 DEF CloseLobby, TypeOK, MembershipRow
  <2>2. QED
    BY <2>1, DropThins
<1>6. QED
  BY <1>1, <1>2, <1>3, <1>4, <1>5 DEF LobbyStep

LEMMA RemoveThins ==
  ASSUME TypeOK, OrderIsList, NEW l \in Lobbies, NEW e, Remove(l, e)
  PROVE  Thinning
<1> DEFINE r == Retain(order[l], DOMAIN order[l] \ {e})
<1>1. order' = [order EXCEPT ![l] = r] /\ issued'.entry = issued.entry
  BY DEF Remove
<1>2. IsList(r) /\ Thinned(order[l], r)
  <2> DEFINE kept == DOMAIN order[l] \ {e}
  <2>1. kept \subseteq DOMAIN order[l] /\ IsList(order[l])
    BY DEF OrderIsList
  <2> HIDE DEF kept
  <2>2. IsList(Retain(order[l], kept)) /\ Thinned(order[l], Retain(order[l], kept))
    BY <2>1, RetainIsList DEF Thinned
  <2>3. QED
    BY <2>2 DEF kept
<1> HIDE DEF r
<1>3. QED
  BY <1>1, <1>2, ThinOne

\* A step of the queue is a submission, a move, or takes entries out.
LEMMA QueueStepThins ==
  ASSUME TypeOK, OrderIsList, QueueStep
  PROVE  \/ Thinning
         \/ \E m \in memberships : \E request \in Requests : SubmitEntry(m, request)
         \/ \E m \in memberships : \E e \in DOMAIN order[m.lobby] :
              \E index \in 0..MaxEntries : \E expected \in 1..MaxRevision :
                MoveEntry(m, e, index, expected)
<1>1. PICK m \in memberships :
        \/ \E request \in Requests : SubmitEntry(m, request)
        \/ \E p \in {Majority} \cup FixedCounts : SetPolicy(m, p)
        \/ \E e \in DOMAIN order[m.lobby] :
             \/ Vote(m, e) \/ AdvanceQueue(m, e) \/ VetoEntry(m, e)
             \/ \E index \in 0..MaxEntries, expected \in 1..MaxRevision :
                  MoveEntry(m, e, index, expected)
  BY DEF QueueStep
<1>2. m.lobby \in Lobbies
  BY DEF TypeOK, MembershipRow
<1>3. ASSUME NEW p, SetPolicy(m, p) PROVE Thinning
  <2> DEFINE r == Reevaluate(memberships, votes, p, m.lobby)
  <2>1. order' = [order EXCEPT ![m.lobby] = r] /\ issued'.entry = issued.entry
    BY <1>3 DEF SetPolicy
  <2>2. IsList(r) /\ Thinned(order[m.lobby], r)
    BY <1>2, ReevaluateThins DEF OrderIsList
  <2> HIDE DEF r
  <2>3. QED
    BY <1>2, <2>1, <2>2, ThinOne
<1>4. ASSUME NEW e, Vote(m, e) PROVE Thinning
  <2> DEFINE cast == votes \cup {<<e, m.user>>}
             r == Reevaluate(memberships, cast, policy[m.lobby], m.lobby)
  <2>1. order' = [order EXCEPT ![m.lobby] = r] /\ issued'.entry = issued.entry
    BY <1>4 DEF Vote
  <2> HIDE DEF cast
  <2>2. IsList(r) /\ Thinned(order[m.lobby], r)
    BY <1>2, ReevaluateThins DEF OrderIsList
  <2> HIDE DEF r
  <2>3. QED
    BY <1>2, <2>1, <2>2, ThinOne
<1>5. ASSUME NEW e, AdvanceQueue(m, e) \/ VetoEntry(m, e) PROVE Thinning
  BY <1>2, <1>5, RemoveThins DEF AdvanceQueue, VetoEntry
<1>6. QED
  BY <1>1, <1>3, <1>4, <1>5

\* To take nothing is what every other step does to the queues.
LEMMA StepIsQueue ==
  ASSUME IInv, OrderIsList, [Next]_vars
  PROVE  OrderIsList' /\ Promise!QNext
<1>1. TypeOK /\ TypeOK'
  BY NextType DEF IInv
<1>2. ASSUME Thinning PROVE OrderIsList' /\ Promise!QNext
  <2>1. OrderIsList'
    BY <1>2 DEF Thinning, OrderIsList
  <2>2. \E taken \in SUBSET (1..issued.entry) : Promise!Take(taken)
    BY <1>1, <1>2, ThinnedIsTake DEF Thinning
  <2>3. QED
    BY <2>1, <2>2 DEF Promise!QNext
<1>3. CASE LobbyStep
  BY <1>1, <1>2, <1>3, LobbyStepThins
<1>4. CASE QueueStep
  <2>1. ASSUME NEW m \in memberships, NEW request \in Requests, SubmitEntry(m, request)
        PROVE  OrderIsList' /\ Promise!QNext
    BY <2>1, SubmitIsSubmit DEF Promise!QNext
  <2>2. ASSUME NEW m \in memberships, NEW e \in DOMAIN order[m.lobby], NEW index \in 0..MaxEntries,
               NEW expected \in 1..MaxRevision, MoveEntry(m, e, index, expected)
        PROVE  OrderIsList' /\ Promise!QNext
    <3>1. PICK l \in Lobbies : \E i, j \in 2..Len(Listed(order[l])) : Promise!Move(l, i, j)
      BY <2>2, MoveIsMove
    <3>2. \E i, j \in 2..Len([k \in Lobbies |-> Listed(order[k])][l]) : Promise!Move(l, i, j)
      BY <3>1
    <3>3. Promise!QNext
      BY <3>2 DEF Promise!QNext
    <3>4. QED
      BY <2>2, <3>3, MoveIsMove
  <2>3. QED
    BY <1>1, <1>2, <1>4, <2>1, <2>2, QueueStepThins
<1>5. CASE DeleteExpired
  <2>1. PICK ls \in SUBSET Lobbies : DropQueues(ls)
    BY <1>5 DEF DeleteExpired
  <2>2. issued' = issued
    BY <1>5 DEF DeleteExpired
  <2>3. QED
    BY <1>2, <2>1, <2>2, DropThins
<1>6. CASE Tick \/ UNCHANGED vars
  <2>1. order' = order /\ issued' = issued
    BY <1>6 DEF Tick, vars
  <2>2. QED
    BY <1>2, <2>1, QuietThins
<1>7. QED
  BY <1>3, <1>4, <1>5, <1>6 DEF Next

LEMMA InitIsQueue == Init => OrderIsList /\ Promise!QInit
<1> SUFFICES ASSUME Init PROVE OrderIsList /\ Promise!QInit
  OBVIOUS
<1>1. \A l \in Lobbies : order[l] = <<>>
  BY DEF Init
<1>2. OrderIsList
  BY <1>1, EmptyIsList DEF OrderIsList
<1>3. Listed(<<>>) = <<>>
  <2> DEFINE q == Listed(<<>>)
  <2>1. Cardinality(DOMAIN <<>>) = 0
    BY EmptyIsList, FS_EmptySet
  <2>2. q \in Seq(1..MaxEntries) /\ Len(q) = 0
    BY <2>1, EmptyIsList, ListedIs
  <2> HIDE DEF q
  <2>3. q = <<>>
    BY <2>2, EmptySeq
  <2>4. QED
    BY <2>3 DEF q
<1>4. [l \in Lobbies |-> Listed(order[l])] = [l \in Lobbies |-> <<>>]
  BY <1>1, <1>3
<1>5. 1..issued.entry = {}
  BY DEF Init
<1>6. QED
  BY <1>2, <1>4, <1>5 DEF Promise!QInit

\* The positions of every queue (queue_order, which replace_order rewrites row
\* by row and move_queue shifts by ranges) are always 0, 1, 2 and so on, each
\* of exactly one entry.
THEOREM OrdersAreLists == Spec => []OrderIsList
<1>1. Init => OrderIsList
  BY InitIsQueue
<1>2. IInv /\ OrderIsList /\ [Next]_vars => OrderIsList'
  BY StepIsQueue
<1>3. QED
  BY <1>1, <1>2, InductiveInvariant, PTL DEF Spec

\* The queue of every lobby is the list SharedQueue describes (database/queue.rs):
\* submissions append, the host's moves are a removal and an insertion behind the
\* playing entry, and votes, vetoes, departures, transfers, closures and expiry
\* only take entries out, for good, leaving the others in their order.
THEOREM ImplementsQueue == Spec => ImplementsSharedQueue
<1>1. Init => Promise!QInit
  BY InitIsQueue
<1>2. IInv /\ OrderIsList /\ [Next]_vars => [Promise!QNext]_(Promise!qvars)
  BY StepIsQueue
<1>3. QED
  BY <1>1, <1>2, InductiveInvariant, OrdersAreLists, PTL DEF Spec, ImplementsSharedQueue, Promise!QSpec
=============================================================================
