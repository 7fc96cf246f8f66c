-------------------------- MODULE LobbyStoreProofs --------------------------
(***************************************************************************)
(* Theorems about LobbyStore, for every number of users, lobbies and       *)
(* entries.                                                                *)
(***************************************************************************)
EXTENDS LobbyStore, FiniteSetTheorems, TLAPS

-----------------------------------------------------------------------------
(* Lemmas about the operators.                                             *)

\* A set of entry ids is finite: its size is a natural number.
LEMMA EntrySetSize ==
  ASSUME NEW S, S \subseteq 1..MaxEntries
  PROVE  IsFiniteSet(S) /\ Cardinality(S) \in Nat
<1>1. IsFiniteSet(1..MaxEntries)
  BY StoreAssumption, FS_Interval, 1 \in Int, MaxEntries \in Int
<1>2. IsFiniteSet(S)
  BY <1>1, FS_Subset
<1> QED
  BY <1>2, FS_CardinalityType

\* replace_order writes a well-formed order, of the kept entries.
LEMMA RetainType ==
  ASSUME NEW ord, NEW kept, kept \subseteq 1..MaxEntries
  PROVE  /\ DOMAIN Retain(ord, kept) = kept
         /\ IsOrder(Retain(ord, kept))
<1>1. \A e \in kept : Cardinality({f \in kept : ord[f] < ord[e]}) \in Nat
  BY EntrySetSize
<1> QED
  BY <1>1 DEF Retain, IsOrder

\* reevaluate writes a well-formed order and only takes entries out.
LEMMA ReevaluateType ==
  ASSUME TypeOK, NEW l \in Lobbies, NEW ms, NEW vs, NEW p
  PROVE  /\ DOMAIN Reevaluate(ms, vs, p, l) = DOMAIN order[l] \ Qualifying(ms, vs, p, l)
         /\ IsOrder(Reevaluate(ms, vs, p, l))
<1> DEFINE removed == Qualifying(ms, vs, p, l)
<1>1. IsOrder(order[l]) /\ DOMAIN order[l] \subseteq 1..MaxEntries
  BY DEF TypeOK, IsOrder
<1>2. CASE removed = {}
  BY <1>1, <1>2 DEF Reevaluate
<1>3. CASE removed # {}
  <2>1. Reevaluate(ms, vs, p, l) = Retain(order[l], DOMAIN order[l] \ removed)
    BY <1>3 DEF Reevaluate
  <2> QED
    BY <1>1, <2>1, RetainType
<1> QED
  BY <1>2, <1>3

\* move_queue writes a well-formed order of the same entries.
LEMMA ShiftType ==
  ASSUME NEW ord, IsOrder(ord), NEW e \in DOMAIN ord, NEW to \in Nat
  PROVE  DOMAIN Shift(ord, e, to) = DOMAIN ord /\ IsOrder(Shift(ord, e, to))
<1>1. \A f \in DOMAIN ord : ord[f] \in Nat
  BY DEF IsOrder
<1>2. \A f \in DOMAIN ord : Shift(ord, e, to)[f] \in Nat
  BY <1>1 DEF Shift
<1> QED
  BY <1>2 DEF Shift, IsOrder

\* A revision below the limit stays within it when it is incremented.
LEMMA BumpType ==
  ASSUME TypeOK, NEW ls \in SUBSET Lobbies, \A l \in ls : CanBump(l), Bump(ls)
  PROVE  /\ lobbies' \in [Lobbies -> LobbyRow]
         /\ \A l \in Lobbies : /\ lobbies'[l].state = lobbies[l].state
                               /\ lobbies'[l].owner = lobbies[l].owner
                               /\ lobbies'[l].expires = lobbies[l].expires
<1>1. \A l \in Lobbies : lobbies[l] \in LobbyRow
  BY DEF TypeOK
<1>2. \A l \in ls : lobbies[l].revision + 1 \in 0..MaxRevision
  BY <1>1, StoreAssumption DEF CanBump, LobbyRow
<1>3. \A l \in Lobbies : [lobbies[l] EXCEPT !.revision = @ + 1] =
        [state |-> lobbies[l].state, owner |-> lobbies[l].owner,
         expires |-> lobbies[l].expires, revision |-> lobbies[l].revision + 1]
  BY <1>1 DEF LobbyRow
<1>4. \A l \in Lobbies : lobbies'[l] \in LobbyRow
  <2> TAKE l \in Lobbies
  <2>1. CASE l \in ls
    BY <1>1, <1>2, <1>3, <2>1 DEF Bump, LobbyRow
  <2>2. CASE l \notin ls
    BY <1>1, <2>2 DEF Bump
  <2> QED
    BY <2>1, <2>2
<1> QED
  BY <1>1, <1>3, <1>4 DEF Bump, LobbyRow

-----------------------------------------------------------------------------
(* Type correctness.                                                       *)

\* The rows left after a cascade are rows that were there before.
LEMMA DropQueuesType ==
  ASSUME TypeOK, NEW ls \in SUBSET Lobbies, DropQueues(ls)
  PROVE  /\ memberships' \subseteq MembershipRow
         /\ policy' \in [Lobbies -> {NoPolicy, Majority} \cup FixedCounts]
         /\ entries' \subseteq EntryRow
         /\ order' = [l \in Lobbies |-> order'[l]]
         /\ \A l \in Lobbies : IsOrder(order'[l])
         /\ votes' \subseteq (1..MaxEntries) \X Users
<1>1. IsOrder(<<>>)
  BY DEF IsOrder
<1>2. order' = [l \in Lobbies |-> IF l \in ls THEN <<>> ELSE order[l]]
  BY DEF DropQueues
<1>3. order' = [l \in Lobbies |-> order'[l]] /\ \A l \in Lobbies : IsOrder(order'[l])
  BY <1>1, <1>2, Zenon DEF TypeOK
<1> QED
  BY <1>3 DEF TypeOK, DropQueues

\* Replacing the order of one lobby by a well-formed one.
LEMMA OrderType ==
  ASSUME TypeOK, NEW l \in Lobbies, NEW ord, IsOrder(ord),
         order' = [order EXCEPT ![l] = ord]
  PROVE  order' = [k \in Lobbies |-> order'[k]] /\ \A k \in Lobbies : IsOrder(order'[k])
<1>1. DOMAIN order = Lobbies
  BY DEF TypeOK
<1>2. \A k \in Lobbies : order'[k] = IF k = l THEN ord ELSE order[k]
  BY <1>1
<1>3. order' = [k \in Lobbies |-> order'[k]]
  BY <1>1
<1> QED
  BY <1>2, <1>3, Zenon DEF TypeOK

\* Taking entries out of one queue takes none into any.
LEMMA OrderKept ==
  ASSUME TypeOK, NEW l \in Lobbies, NEW ord, DOMAIN ord \subseteq DOMAIN order[l],
         order' = [order EXCEPT ![l] = ord]
  PROVE  \A k \in Lobbies : \A e \in DOMAIN order'[k] : e \in DOMAIN order[k]
<1> TAKE k \in Lobbies
<1>1. DOMAIN order = Lobbies
  BY DEF TypeOK
<1>2. CASE k = l
  BY <1>1, <1>2
<1>3. CASE k # l
  BY <1>1, <1>3
<1> QED
  BY <1>2, <1>3

LEMMA InitType == Init => TypeOK
<1>1. IsOrder(<<>>)
  BY DEF IsOrder
<1> QED
  BY <1>1, StoreAssumption DEF Init, TypeOK, LobbyRow

\* Lobby and membership transactions keep the types.
LEMMA LobbyStepType == TypeOK /\ LobbyStep => TypeOK'
<1> SUFFICES ASSUME TypeOK, LobbyStep PROVE TypeOK'
  OBVIOUS
<1> USE DEF Lobbies
<1>1. ASSUME NEW u \in Users, CreateLobby(u) PROVE TypeOK'
  <2> DEFINE l == issued.lobby + 1
             m == issued.membership + 1
  <2>1. l \in Lobbies /\ l \in 0..MaxLobbies /\ m \in 1..MaxMemberships /\ m \in 0..MaxMemberships
    BY <1>1, StoreAssumption, SMTT(30) DEF TypeOK, CreateLobby
  <2>2. [state |-> "open", owner |-> u, expires |-> now + Lifetime, revision |-> 1] \in LobbyRow
    BY StoreAssumption DEF TypeOK, LobbyRow
  <2>3. lobbies' \in [Lobbies -> LobbyRow]
    BY <1>1, <2>1, <2>2 DEF TypeOK, CreateLobby
  <2>4. memberships' \subseteq MembershipRow
    BY <1>1, <2>1 DEF TypeOK, CreateLobby, Current, WithoutStale, MembershipRow
  <2>5. policy' \in [Lobbies -> {NoPolicy, Majority} \cup FixedCounts]
    BY <1>1, <2>1 DEF TypeOK, CreateLobby
  <2>6. issued' \in [lobby: 0..MaxLobbies, membership: 0..MaxMemberships, entry: 0..MaxEntries]
    BY <1>1, <2>1 DEF TypeOK, CreateLobby
  <2> QED
    BY <1>1, <2>3, <2>4, <2>5, <2>6 DEF TypeOK, CreateLobby
<1>2. ASSUME NEW u \in Users, NEW l \in Lobbies, JoinLobby(u, l) PROVE TypeOK'
  <2> DEFINE m == issued.membership + 1
             old == Current(u)
             joined == (WithoutStale(u) \ old) \cup {[id |-> m, user |-> u, lobby |-> l]}
             touched == {l} \cup {x.lobby : x \in old}
  <2>1. m \in 1..MaxMemberships /\ m \in 0..MaxMemberships
    BY <1>2, StoreAssumption DEF TypeOK, JoinLobby
  <2>2. memberships' \subseteq MembershipRow
    BY <1>2, <2>1 DEF TypeOK, JoinLobby, Current, WithoutStale, MembershipRow
  <2>3. touched \in SUBSET Lobbies
    BY DEF TypeOK, Current, WithoutStale, MembershipRow
  <2>4. lobbies' \in [Lobbies -> LobbyRow]
    BY <1>2, <2>3, BumpType DEF JoinLobby
  <2>5. order' = [k \in Lobbies |-> IF k \in touched THEN Reevaluate(joined, votes, policy[k], k)
                                    ELSE order[k]]
    BY <1>2 DEF JoinLobby
  <2>6. \A k \in Lobbies : IsOrder(Reevaluate(joined, votes, policy[k], k))
    BY ReevaluateType
  <2>7. order' = [k \in Lobbies |-> order'[k]] /\ \A k \in Lobbies : IsOrder(order'[k])
    BY <2>5, <2>6, Zenon DEF TypeOK
  <2>8. issued' \in [lobby: 0..MaxLobbies, membership: 0..MaxMemberships, entry: 0..MaxEntries]
    BY <1>2, <2>1 DEF TypeOK, JoinLobby
  <2> QED
    BY <1>2, <2>2, <2>4, <2>7, <2>8 DEF TypeOK, JoinLobby
<1>3. ASSUME NEW m \in memberships, LeaveStale(m) PROVE TypeOK'
  BY <1>3 DEF TypeOK, LeaveStale
<1>4. ASSUME NEW m \in memberships, LeaveAsGuest(m) PROVE TypeOK'
  <2>1. m.lobby \in Lobbies
    BY DEF TypeOK, MembershipRow
  <2>2. lobbies' \in [Lobbies -> LobbyRow]
    BY <1>4, <2>1, BumpType DEF LeaveAsGuest
  <2>3. order' = [k \in Lobbies |-> order'[k]] /\ \A k \in Lobbies : IsOrder(order'[k])
    BY <1>4, <2>1, ReevaluateType, OrderType DEF LeaveAsGuest
  <2> QED
    BY <1>4, <2>2, <2>3 DEF TypeOK, LeaveAsGuest
<1>5. ASSUME NEW m \in memberships, CloseLobby(m) PROVE TypeOK'
  <2>1. m.lobby \in Lobbies /\ lobbies[m.lobby] \in LobbyRow
    BY DEF TypeOK, MembershipRow
  <2> DEFINE row == [state |-> "closed", owner |-> lobbies[m.lobby].owner,
                     expires |-> lobbies[m.lobby].expires,
                     revision |-> lobbies[m.lobby].revision + 1]
  <2>2. lobbies' = [lobbies EXCEPT ![m.lobby] = row]
    BY <1>5, <2>1 DEF CloseLobby
  <2>3. row \in LobbyRow
    BY <1>5, <2>1, StoreAssumption DEF CloseLobby, CanBump, LobbyRow
  <2>4. lobbies' \in [Lobbies -> LobbyRow]
    BY <2>1, <2>2, <2>3 DEF TypeOK
  <2> QED
    BY <1>5, <2>1, <2>4, DropQueuesType DEF TypeOK, CloseLobby
<1> QED
  BY <1>1, <1>2, <1>3, <1>4, <1>5 DEF LobbyStep

\* Queue transactions keep the types.
LEMMA QueueStepType == TypeOK /\ QueueStep => TypeOK'
<1> SUFFICES ASSUME TypeOK, NEW m \in memberships,
                    \/ \E r \in Requests : SubmitEntry(m, r)
                    \/ \E p \in {Majority} \cup FixedCounts : SetPolicy(m, p)
                    \/ \E e \in DOMAIN order[m.lobby] :
                         \/ Vote(m, e) \/ AdvanceQueue(m, e) \/ VetoEntry(m, e)
                         \/ \E index \in 0..MaxEntries, expected \in 1..MaxRevision :
                              MoveEntry(m, e, index, expected)
             PROVE  TypeOK'
  BY DEF QueueStep
<1> DEFINE l == m.lobby
<1>1. l \in Lobbies /\ m.user \in Users
  BY DEF TypeOK, MembershipRow
<1>2. IsOrder(order[l]) /\ DOMAIN order[l] \subseteq 1..MaxEntries
  BY <1>1 DEF TypeOK, IsOrder
<1>3. CanBump(l) /\ Bump({l}) => lobbies' \in [Lobbies -> LobbyRow]
  BY <1>1, BumpType
<1>4. ASSUME NEW r \in Requests, SubmitEntry(m, r) PROVE TypeOK'
  <2> DEFINE e == issued.entry + 1
             ord == [f \in DOMAIN order[l] \cup {e} |->
                       IF f = e THEN Cardinality(DOMAIN order[l]) ELSE order[l][f]]
  <2>1. e \in 1..MaxEntries /\ e \in 0..MaxEntries
    BY <1>4, StoreAssumption DEF TypeOK, SubmitEntry
  <2>2. \A f \in DOMAIN order[l] \cup {e} : ord[f] \in Nat
    BY <1>2, EntrySetSize DEF IsOrder
  <2>3. IsOrder(ord)
    BY <1>2, <2>1, <2>2 DEF IsOrder
  <2>4. order' = [order EXCEPT ![l] = ord]
    BY <1>4 DEF SubmitEntry
  <2>5. order' = [k \in Lobbies |-> order'[k]] /\ \A k \in Lobbies : IsOrder(order'[k])
    BY <1>1, <2>3, <2>4, OrderType
  <2>6. entries' \subseteq EntryRow
    BY <1>1, <1>4, <2>1 DEF TypeOK, SubmitEntry, EntryRow
  <2>7. lobbies' \in [Lobbies -> LobbyRow]
    BY <1>3, <1>4 DEF SubmitEntry, Member
  <2>8. issued' \in [lobby: 0..MaxLobbies, membership: 0..MaxMemberships, entry: 0..MaxEntries]
    BY <1>4, <2>1 DEF TypeOK, SubmitEntry
  <2> QED
    BY <1>4, <2>5, <2>6, <2>7, <2>8 DEF TypeOK, SubmitEntry
<1>5. ASSUME NEW p \in {Majority} \cup FixedCounts, SetPolicy(m, p) PROVE TypeOK'
  <2>1. order' = [k \in Lobbies |-> order'[k]] /\ \A k \in Lobbies : IsOrder(order'[k])
    BY <1>1, <1>5, ReevaluateType, OrderType DEF SetPolicy
  <2>2. lobbies' \in [Lobbies -> LobbyRow]
    BY <1>3, <1>5 DEF SetPolicy, HostOnly, Member
  <2>3. policy' \in [Lobbies -> {NoPolicy, Majority} \cup FixedCounts]
    BY <1>1, <1>5 DEF TypeOK, SetPolicy
  <2> QED
    BY <1>5, <2>1, <2>2, <2>3 DEF TypeOK, SetPolicy
<1>6. ASSUME NEW e \in DOMAIN order[l], Vote(m, e) PROVE TypeOK'
  <2>1. order' = [k \in Lobbies |-> order'[k]] /\ \A k \in Lobbies : IsOrder(order'[k])
    BY <1>1, <1>6, ReevaluateType, OrderType DEF Vote
  <2>2. lobbies' \in [Lobbies -> LobbyRow]
    BY <1>3, <1>6 DEF Vote, GuestOnly, Member
  <2>3. votes' \subseteq (1..MaxEntries) \X Users
    BY <1>1, <1>2, <1>6 DEF TypeOK, Vote
  <2> QED
    BY <1>6, <2>1, <2>2, <2>3 DEF TypeOK, Vote
<1>7. ASSUME NEW e \in DOMAIN order[l], CanBump(l), Remove(l, e) PROVE TypeOK'
  <2>1. order' = [k \in Lobbies |-> order'[k]] /\ \A k \in Lobbies : IsOrder(order'[k])
    BY <1>1, <1>2, <1>7, RetainType, OrderType DEF Remove
  <2> QED
    BY <1>3, <1>7, <2>1 DEF TypeOK, Remove
<1>8. ASSUME NEW e \in DOMAIN order[l], NEW index \in 0..MaxEntries, NEW expected \in 1..MaxRevision,
             MoveEntry(m, e, index, expected)
      PROVE  TypeOK'
  <2>1. index + 1 \in Nat
    OBVIOUS
  <2>2. IsOrder(Shift(order[l], e, index + 1))
    BY <1>2, <2>1, ShiftType
  <2>3. order' = [k \in Lobbies |-> order'[k]] /\ \A k \in Lobbies : IsOrder(order'[k])
    BY <1>1, <1>8, <2>2, OrderType DEF MoveEntry, Destination
  <2>4. lobbies' \in [Lobbies -> LobbyRow]
    BY <1>3, <1>8 DEF MoveEntry, Destination, HostOnly, Member
  <2> QED
    BY <1>8, <2>3, <2>4 DEF TypeOK, MoveEntry, Destination
<1>9. ASSUME NEW e \in DOMAIN order[l], AdvanceQueue(m, e) \/ VetoEntry(m, e) PROVE TypeOK'
  BY <1>7, <1>9 DEF AdvanceQueue, VetoEntry, HostOnly, Member
<1> QED
  BY <1>4, <1>5, <1>6, <1>8, <1>9

LEMMA NextType == TypeOK /\ [Next]_vars => TypeOK'
<1> SUFFICES ASSUME TypeOK, [Next]_vars PROVE TypeOK'
  OBVIOUS
<1>1. CASE LobbyStep
  BY <1>1, LobbyStepType
<1>2. CASE QueueStep
  BY <1>2, QueueStepType
<1>3. CASE DeleteExpired
  <2> DEFINE expired == {l \in Lobbies : lobbies[l].state \in {"open", "closed"} /\ lobbies[l].expires <= now}
  <2>1. \A l \in Lobbies : lobbies[l] \in LobbyRow /\ [lobbies[l] EXCEPT !.state = "gone"] \in LobbyRow
    BY DEF TypeOK, LobbyRow
  <2>2. lobbies' \in [Lobbies -> LobbyRow]
    BY <1>3, <2>1 DEF DeleteExpired
  <2>3. expired \in SUBSET Lobbies /\ DropQueues(expired)
    BY <1>3 DEF DeleteExpired
  <2> QED
    BY <1>3, <2>2, <2>3, DropQueuesType DEF TypeOK, DeleteExpired
<1>4. CASE Tick
  BY <1>4, StoreAssumption DEF TypeOK, Tick
<1>5. CASE UNCHANGED vars
  BY <1>5 DEF TypeOK, vars
<1> QED
  BY <1>1, <1>2, <1>3, <1>4, <1>5 DEF Next

\* Every row keeps the columns its table declares, and no revision ever passes
\* the largest integer the column holds.
THEOREM TypeCorrect == Spec => []TypeOK
<1> QED
  BY InitType, NextType, PTL DEF Spec

-----------------------------------------------------------------------------
(* The inductive invariant.  The safety invariants are not inductive by    *)
(* themselves: an id must be new where it is issued, and a key must        *)
(* determine its row.                                                      *)

FreshIds ==
  /\ \A l \in Lobbies : (lobbies[l].state = "free") <=> (issued.lobby < l)
  /\ \A x \in entries : x.id <= issued.entry
  /\ \A x, y \in entries : x.id = y.id => x = y

IInv == TypeOK /\ FreshIds /\ NoOrphanRows /\ OneMembershipPerUser /\ HostIsPresent /\ NoQualifyingEntry

\* A step that touches at most the revisions of the lobbies.
SameLobbies ==
  /\ now' = now
  /\ \A l \in Lobbies : /\ lobbies'[l].state = lobbies[l].state
                        /\ lobbies'[l].owner = lobbies[l].owner
                        /\ lobbies'[l].expires = lobbies[l].expires

LEMMA BumpFrame ==
  ASSUME TypeOK, NEW ls \in SUBSET Lobbies, \A l \in ls : CanBump(l), Bump(ls), now' = now
  PROVE  SameLobbies
BY BumpType DEF SameLobbies

LEMMA UnchangedFrame ==
  ASSUME UNCHANGED <<lobbies, now>>
  PROVE  SameLobbies
BY DEF SameLobbies

\* Queue transactions leave the memberships and the lives of the lobbies alone.
LEMMA QueueFrame ==
  ASSUME TypeOK, QueueStep
  PROVE  SameLobbies /\ memberships' = memberships
<1> PICK m \in memberships :
      \/ \E r \in Requests : SubmitEntry(m, r)
      \/ \E p \in {Majority} \cup FixedCounts : SetPolicy(m, p)
      \/ \E e \in DOMAIN order[m.lobby] :
           \/ Vote(m, e) \/ AdvanceQueue(m, e) \/ VetoEntry(m, e)
           \/ \E index \in 0..MaxEntries, expected \in 1..MaxRevision :
                MoveEntry(m, e, index, expected)
  BY DEF QueueStep
<1>1. CanBump(m.lobby) /\ Bump({m.lobby}) /\ memberships' = memberships /\ now' = now
  BY DEF SubmitEntry, SetPolicy, Vote, AdvanceQueue, VetoEntry, MoveEntry, Destination, Remove,
         HostOnly, GuestOnly, Member
<1>2. m.lobby \in Lobbies
  BY DEF TypeOK, MembershipRow
<1> QED
  BY <1>1, <1>2, BumpFrame

-----------------------------------------------------------------------------
(* One membership per user.                                                *)

LEMMA StepUnique ==
  ASSUME TypeOK, OneMembershipPerUser, [Next]_vars
  PROVE  OneMembershipPerUser'
<1>1. memberships' \subseteq memberships => OneMembershipPerUser'
  BY DEF OneMembershipPerUser
<1>2. ASSUME NEW u \in Users, CreateLobby(u) PROVE OneMembershipPerUser'
  BY <1>2 DEF OneMembershipPerUser, CreateLobby, Current, WithoutStale
<1>3. ASSUME NEW u \in Users, NEW l \in Lobbies, JoinLobby(u, l) PROVE OneMembershipPerUser'
  BY <1>3 DEF OneMembershipPerUser, JoinLobby, Current, WithoutStale
<1>4. ASSUME NEW m \in memberships, LeaveStale(m) \/ LeaveAsGuest(m) \/ CloseLobby(m)
      PROVE  OneMembershipPerUser'
  BY <1>1, <1>4 DEF LeaveStale, LeaveAsGuest, CloseLobby, DropQueues
<1>5. CASE QueueStep
  BY <1>1, <1>5, QueueFrame
<1>6. CASE DeleteExpired \/ Tick \/ UNCHANGED vars
  BY <1>1, <1>6 DEF DeleteExpired, DropQueues, Tick, vars
<1> QED
  BY <1>2, <1>3, <1>4, <1>5, <1>6 DEF Next, LobbyStep

-----------------------------------------------------------------------------
(* The host is present.                                                    *)

LEMMA StepHost ==
  ASSUME TypeOK, HostIsPresent, [Next]_vars
  PROVE  HostIsPresent'
<1> SUFFICES ASSUME NEW l \in Lobbies, Active(l)'
             PROVE  \E m \in memberships' : m.lobby = l /\ Host(m)'
  BY DEF HostIsPresent
<1> USE DEF Host
<1>1. ASSUME SameLobbies \/ Tick \/ UNCHANGED vars
      PROVE  Active(l) /\ lobbies'[l].owner = lobbies[l].owner
  BY <1>1, StoreAssumption DEF SameLobbies, Tick, vars, Active, TypeOK, LobbyRow
<1>2. ASSUME Active(l), lobbies'[l].owner = lobbies[l].owner,
             \A m \in memberships : m.lobby = l /\ Host(m) => m \in memberships'
      PROVE  \E m \in memberships' : m.lobby = l /\ Host(m)'
  BY <1>2 DEF HostIsPresent
<1>3. ASSUME NEW u \in Users, CreateLobby(u) PROVE \E m \in memberships' : m.lobby = l /\ Host(m)'
  <2> DEFINE n == issued.lobby + 1
             row == [id |-> issued.membership + 1, user |-> u, lobby |-> n]
  <2>0. n \in Lobbies
    BY <1>3 DEF CreateLobby, TypeOK, Lobbies
  <2>1. CASE l = n
    <3>1. row \in memberships' /\ lobbies'[n].owner = u
      BY <1>3, <2>0 DEF CreateLobby, TypeOK
    <3> QED
      BY <2>1, <3>1
  <2>2. CASE l # n
    <3>1. lobbies'[l] = lobbies[l] /\ now' = now
      BY <1>3, <2>2 DEF CreateLobby, TypeOK
    <3>2. Active(l)
      BY <3>1 DEF Active
    <3>3. \A m \in memberships : m.lobby = l => m \in memberships'
      BY <1>3, <3>2 DEF CreateLobby, Current, WithoutStale
    <3> QED
      BY <1>2, <3>1, <3>2, <3>3
  <2> QED
    BY <2>1, <2>2
<1>4. ASSUME NEW u \in Users, NEW k \in Lobbies, JoinLobby(u, k)
      PROVE  \E m \in memberships' : m.lobby = l /\ Host(m)'
  <2> DEFINE old == Current(u)
  <2>1. SameLobbies
    <3>1. {k} \cup {x.lobby : x \in old} \in SUBSET Lobbies
      BY DEF TypeOK, Current, WithoutStale, MembershipRow
    <3> QED
      BY <1>4, <3>1, BumpFrame DEF JoinLobby
  <2>2. \A m \in memberships : m.lobby = l /\ Host(m) => m \in memberships'
    BY <1>1, <1>4, <2>1 DEF JoinLobby, Current, WithoutStale
  <2> QED
    BY <1>1, <1>2, <2>1, <2>2
<1>5. ASSUME NEW m \in memberships, LeaveStale(m) PROVE \E x \in memberships' : x.lobby = l /\ Host(x)'
  <2>1. SameLobbies
    BY <1>5, UnchangedFrame DEF LeaveStale
  <2>2. \A x \in memberships : x.lobby = l => x \in memberships'
    BY <1>1, <1>5, <2>1 DEF LeaveStale
  <2> QED
    BY <1>1, <1>2, <2>1, <2>2
<1>6. ASSUME NEW m \in memberships, LeaveAsGuest(m) PROVE \E x \in memberships' : x.lobby = l /\ Host(x)'
  <2>1. SameLobbies
    BY <1>6, BumpFrame DEF LeaveAsGuest, TypeOK, MembershipRow
  <2>2. \A x \in memberships : x.lobby = l /\ Host(x) => x \in memberships'
    BY <1>6 DEF LeaveAsGuest
  <2> QED
    BY <1>1, <1>2, <2>1, <2>2
<1>7. ASSUME NEW m \in memberships, CloseLobby(m) PROVE \E x \in memberships' : x.lobby = l /\ Host(x)'
  <2>1. m.lobby \in Lobbies
    BY DEF TypeOK, MembershipRow
  <2>2. l # m.lobby
    BY <1>7, <2>1 DEF CloseLobby, Active, TypeOK
  <2>3. lobbies'[l] = lobbies[l] /\ now' = now
    BY <1>7, <2>2 DEF CloseLobby, TypeOK
  <2>4. \A x \in memberships : x.lobby = l => x \in memberships'
    BY <1>7, <2>2 DEF CloseLobby, DropQueues
  <2> QED
    BY <1>2, <2>3, <2>4 DEF Active
<1>8. CASE DeleteExpired
  <2>1. now' = now /\ lobbies'[l] \in {lobbies[l], [lobbies[l] EXCEPT !.state = "gone"]}
    BY <1>8 DEF DeleteExpired
  <2>2. lobbies'[l] = lobbies[l]
    BY <2>1 DEF Active, TypeOK, LobbyRow
  <2>3. \A x \in memberships : x.lobby = l => x \in memberships'
    BY <1>8, <2>1, <2>2 DEF DeleteExpired, DropQueues, Active, TypeOK, LobbyRow
  <2> QED
    BY <1>2, <2>1, <2>2, <2>3 DEF Active
<1>9. CASE QueueStep
  BY <1>1, <1>2, <1>9, QueueFrame
<1>10. CASE Tick \/ UNCHANGED vars
  BY <1>1, <1>2, <1>10 DEF Tick, vars
<1> QED
  BY <1>3, <1>4, <1>5, <1>6, <1>7, <1>8, <1>9, <1>10 DEF Next, LobbyStep

-----------------------------------------------------------------------------
(* Ids are fresh and keys are unique.                                      *)

LEMMA StepFresh ==
  ASSUME TypeOK, FreshIds, [Next]_vars
  PROVE  FreshIds'
<1>1. ASSUME SameLobbies, entries' \subseteq entries,
             issued'.lobby = issued.lobby, issued'.entry = issued.entry
      PROVE  FreshIds'
  BY <1>1 DEF FreshIds, SameLobbies
<1>2. ASSUME NEW u \in Users, CreateLobby(u) PROVE FreshIds'
  <2> DEFINE n == issued.lobby + 1
  <2>1. n \in Lobbies /\ issued.lobby \in Nat
    BY <1>2 DEF CreateLobby, TypeOK, Lobbies
  <2>2. issued'.lobby = n /\ issued'.entry = issued.entry /\ entries' = entries
    BY <1>2 DEF CreateLobby, TypeOK
  <2>3. \A l \in Lobbies : lobbies'[l].state = IF l = n THEN "open" ELSE lobbies[l].state
    BY <1>2 DEF CreateLobby, TypeOK
  <2>4. \A l \in Lobbies : (lobbies'[l].state = "free") <=> (n < l)
    BY <2>1, <2>3 DEF FreshIds, Lobbies
  <2> QED
    BY <2>2, <2>4 DEF FreshIds
<1>3. ASSUME NEW u \in Users, NEW k \in Lobbies, JoinLobby(u, k) PROVE FreshIds'
  <2>1. {k} \cup {x.lobby : x \in Current(u)} \in SUBSET Lobbies
    BY DEF TypeOK, Current, WithoutStale, MembershipRow
  <2>2. SameLobbies
    BY <1>3, <2>1, BumpFrame DEF JoinLobby
  <2>3. issued'.lobby = issued.lobby /\ issued'.entry = issued.entry
    BY <1>3 DEF JoinLobby, TypeOK
  <2> QED
    BY <1>1, <1>3, <2>2, <2>3 DEF JoinLobby
<1>4. ASSUME NEW m \in memberships, LeaveStale(m) \/ LeaveAsGuest(m) PROVE FreshIds'
  <2>1. SameLobbies
    BY <1>4, BumpFrame, UnchangedFrame DEF LeaveStale, LeaveAsGuest, TypeOK, MembershipRow
  <2> QED
    BY <1>1, <1>4, <2>1 DEF LeaveStale, LeaveAsGuest
<1>5. ASSUME NEW m \in memberships, CloseLobby(m) PROVE FreshIds'
  <2>1. m.lobby \in Lobbies /\ lobbies[m.lobby].state = "open"
    BY <1>5 DEF TypeOK, MembershipRow, CloseLobby, Active
  <2>2. \A l \in Lobbies : (lobbies'[l].state = "free") <=> (lobbies[l].state = "free")
    BY <1>5, <2>1 DEF CloseLobby, TypeOK
  <2> QED
    BY <1>5, <2>2 DEF FreshIds, CloseLobby, DropQueues
<1>6. CASE DeleteExpired
  <2>1. \A l \in Lobbies : (lobbies'[l].state = "free") <=> (lobbies[l].state = "free")
    BY <1>6 DEF DeleteExpired, TypeOK, LobbyRow
  <2> QED
    BY <1>6, <2>1 DEF FreshIds, DeleteExpired, DropQueues
<1>7. CASE QueueStep
  <2>1. SameLobbies
    BY <1>7, QueueFrame
  <2>2. ASSUME NEW m \in memberships, NEW r \in Requests, SubmitEntry(m, r) PROVE FreshIds'
    <3>1. issued'.lobby = issued.lobby /\ issued'.entry = issued.entry + 1
      BY <2>2 DEF SubmitEntry, TypeOK
    <3>2. \A x \in entries' : x \in entries \/ x = [id |-> issued.entry + 1, lobby |-> m.lobby,
                                                     user |-> m.user, request |-> r]
      BY <2>2 DEF SubmitEntry
    <3>3. \A x \in entries : x.id \in Nat /\ x.id <= issued.entry
      BY DEF FreshIds, TypeOK, EntryRow
    <3>4. issued.entry \in Nat
      BY DEF TypeOK
    <3>5. \A x, y \in entries' : x.id = y.id => x = y
      BY <3>2, <3>3, <3>4 DEF FreshIds
    <3>6. \A x \in entries' : x.id <= issued.entry + 1
      BY <3>2, <3>3, <3>4
    <3> QED
      BY <2>1, <3>1, <3>5, <3>6 DEF FreshIds, SameLobbies
  <2>3. ASSUME entries' = entries, issued' = issued PROVE FreshIds'
    BY <1>1, <2>1, <2>3
  <2> QED
    BY <1>7, <2>2, <2>3, Zenon DEF QueueStep, SetPolicy, Vote, AdvanceQueue, VetoEntry, MoveEntry, Destination, Remove
<1>8. CASE Tick \/ UNCHANGED vars
  BY <1>8 DEF FreshIds, Tick, vars
<1> QED
  BY <1>2, <1>3, <1>4, <1>5, <1>6, <1>7, <1>8 DEF Next, LobbyStep

-----------------------------------------------------------------------------
(* No row outlives its lobby.                                              *)

LEMMA StepOrphans ==
  ASSUME TypeOK, FreshIds, NoOrphanRows, [Next]_vars
  PROVE  NoOrphanRows'
<1> DEFINE Kept == \A l \in Lobbies : \A e \in DOMAIN order'[l] : e \in DOMAIN order[l]
<1>0. \A p \in {Majority} \cup FixedCounts : p # NoPolicy
  BY StoreAssumption DEF Majority, NoPolicy
\* Only positions, memberships in open lobbies and revisions change.
<1>1. ASSUME SameLobbies, Kept, entries' = entries, votes' = votes, policy' = policy,
             \A m \in memberships' : m \in memberships \/ lobbies[m.lobby].state = "open",
             memberships' \subseteq MembershipRow
      PROVE  NoOrphanRows'
  BY <1>1 DEF NoOrphanRows, SameLobbies, TypeOK, MembershipRow, EntryRow
\* The lobbies ls are closed or deleted.
<1>2. ASSUME NEW ls \in SUBSET Lobbies, DropQueues(ls),
             \A l \in Lobbies : lobbies'[l].state = "open" <=> l \notin ls /\ lobbies[l].state = "open"
      PROVE  NoOrphanRows'
  <2>1. \A l \in Lobbies : (policy'[l] # NoPolicy) <=> (lobbies'[l].state = "open")
    BY <1>2 DEF NoOrphanRows, DropQueues
  <2>2. \A m \in memberships' : lobbies'[m.lobby].state = "open"
    BY <1>2 DEF NoOrphanRows, DropQueues, TypeOK, MembershipRow
  <2>3. \A x \in entries' : lobbies'[x.lobby].state = "open"
    BY <1>2 DEF NoOrphanRows, DropQueues, TypeOK, EntryRow
  <2>4. \A l \in Lobbies : \A e \in DOMAIN order'[l] : \E x \in entries' : x.id = e /\ x.lobby = l
    <3> TAKE l \in Lobbies
    <3>1. CASE l \in ls
      BY <1>2, <3>1 DEF DropQueues
    <3>2. CASE l \notin ls
      BY <1>2, <3>2 DEF DropQueues, NoOrphanRows
    <3> QED
      BY <3>1, <3>2
  <2>5. \A v \in votes' : \E x \in entries' : x.id = v[1]
    BY <1>2 DEF NoOrphanRows, DropQueues
  <2> QED
    BY <2>1, <2>2, <2>3, <2>4, <2>5 DEF NoOrphanRows
<1>3. ASSUME NEW u \in Users, CreateLobby(u) PROVE NoOrphanRows'
  <2> DEFINE n == issued.lobby + 1
  <2>1. n \in Lobbies
    BY <1>3 DEF CreateLobby, TypeOK, Lobbies
  <2>2. \A l \in Lobbies : lobbies'[l].state = IF l = n THEN "open" ELSE lobbies[l].state
    BY <1>3 DEF CreateLobby, TypeOK
  <2>3. \A l \in Lobbies : policy'[l] = IF l = n THEN Majority ELSE policy[l]
    BY <1>3 DEF CreateLobby, TypeOK
  <2>4. \A l \in Lobbies : (policy'[l] # NoPolicy) <=> (lobbies'[l].state = "open")
    BY <1>0, <2>2, <2>3 DEF NoOrphanRows
  <2>5. \A m \in memberships' : lobbies'[m.lobby].state = "open"
    BY <1>3, <2>1, <2>2 DEF CreateLobby, Current, WithoutStale, NoOrphanRows, TypeOK, MembershipRow
  <2>6. \A x \in entries' : lobbies'[x.lobby].state = "open"
    BY <1>3, <2>2 DEF CreateLobby, NoOrphanRows, TypeOK, EntryRow
  <2> QED
    BY <1>3, <2>4, <2>5, <2>6 DEF CreateLobby, NoOrphanRows
<1>4. ASSUME NEW u \in Users, NEW k \in Lobbies, JoinLobby(u, k) PROVE NoOrphanRows'
  <2> DEFINE row == [id |-> issued.membership + 1, user |-> u, lobby |-> k]
             old == Current(u)
             joined == (WithoutStale(u) \ old) \cup {row}
             touched == {k} \cup {x.lobby : x \in old}
  <2>1. touched \in SUBSET Lobbies
    BY DEF TypeOK, Current, WithoutStale, MembershipRow
  <2>2. SameLobbies
    BY <1>4, <2>1, BumpFrame DEF JoinLobby
  <2>3. order' = [l \in Lobbies |-> IF l \in touched THEN Reevaluate(joined, votes, policy[l], l)
                                    ELSE order[l]]
    BY <1>4 DEF JoinLobby
  <2>4. \A l \in Lobbies : DOMAIN Reevaluate(joined, votes, policy[l], l) \subseteq DOMAIN order[l]
    <3> HIDE DEF joined
    <3>1. ASSUME NEW l \in Lobbies
          PROVE  DOMAIN Reevaluate(joined, votes, policy[l], l)
                   = DOMAIN order[l] \ Qualifying(joined, votes, policy[l], l)
      BY ONLY TypeOK, l \in Lobbies, ReevaluateType, Zenon
    <3> QED
      BY <3>1
  <2>5. Kept
    <3> TAKE l \in Lobbies
    <3> QED
      BY <2>3, <2>4
  <2>6. memberships' = joined
    BY <1>4 DEF JoinLobby
  <2>7. \A m \in memberships' : m \in memberships \/ lobbies[m.lobby].state = "open"
    BY <1>4, <2>6 DEF JoinLobby, Current, WithoutStale, Active
  <2>8. memberships' \subseteq MembershipRow
    BY <1>4, NextType DEF TypeOK, Next, LobbyStep
  <2> QED
    BY <1>1, <1>4, <2>2, <2>5, <2>7, <2>8 DEF JoinLobby
<1>5. ASSUME NEW m \in memberships, LeaveStale(m) PROVE NoOrphanRows'
  BY <1>1, <1>5, UnchangedFrame DEF LeaveStale, TypeOK
<1>6. ASSUME NEW m \in memberships, LeaveAsGuest(m) PROVE NoOrphanRows'
  <2>1. m.lobby \in Lobbies
    BY DEF TypeOK, MembershipRow
  <2>2. SameLobbies
    BY <1>6, <2>1, BumpFrame DEF LeaveAsGuest
  <2> DEFINE ord == Reevaluate(memberships \ {m}, votes, policy[m.lobby], m.lobby)
  <2>3. DOMAIN ord \subseteq DOMAIN order[m.lobby]
    BY <2>1, ReevaluateType
  <2>4. order' = [order EXCEPT ![m.lobby] = ord]
    BY <1>6 DEF LeaveAsGuest
  <2> HIDE DEF ord
  <2>5. Kept
    BY <2>1, <2>3, <2>4, OrderKept
  <2> QED
    BY <1>1, <1>6, <2>2, <2>5 DEF LeaveAsGuest, TypeOK
<1>7. ASSUME NEW m \in memberships, CloseLobby(m) PROVE NoOrphanRows'
  <2>1. m.lobby \in Lobbies
    BY DEF TypeOK, MembershipRow
  <2>2. \A l \in Lobbies : lobbies'[l].state = "open" <=> l \notin {m.lobby} /\ lobbies[l].state = "open"
    BY <1>7, <2>1 DEF CloseLobby, TypeOK
  <2> QED
    BY <1>2, <1>7, <2>1, <2>2 DEF CloseLobby
<1>8. CASE DeleteExpired
  <2> DEFINE ls == {l \in Lobbies : lobbies[l].state \in {"open", "closed"} /\ lobbies[l].expires <= now}
  <2>1. ls \in SUBSET Lobbies /\ DropQueues(ls)
    BY <1>8 DEF DeleteExpired
  <2>2. \A l \in Lobbies : lobbies'[l].state = "open" <=> l \notin ls /\ lobbies[l].state = "open"
    BY <1>8 DEF DeleteExpired, TypeOK, LobbyRow
  <2> QED
    BY <1>2, <2>1, <2>2
<1>9. CASE QueueStep
  <2>0. SameLobbies /\ memberships' = memberships
    BY <1>9, QueueFrame
  <2>1. \A m \in memberships : m.lobby \in Lobbies
    BY DEF TypeOK, MembershipRow
  <2>2. ASSUME NEW m \in memberships, NEW r \in Requests, SubmitEntry(m, r) PROVE NoOrphanRows'
    <3> DEFINE row == [id |-> issued.entry + 1, lobby |-> m.lobby, user |-> m.user, request |-> r]
    <3>1. entries' = entries \cup {row} /\ lobbies[m.lobby].state = "open"
      BY <2>2 DEF SubmitEntry, Member, Active
    <3>2. \A l \in Lobbies : \A e \in DOMAIN order'[l] :
            e \in DOMAIN order[l] \/ (l = m.lobby /\ e = row.id)
      BY <2>1, <2>2 DEF SubmitEntry, TypeOK
    <3>3. ASSUME NEW l \in Lobbies, NEW e \in DOMAIN order'[l]
          PROVE  \E x \in entries' : x.id = e /\ x.lobby = l
      <4>1. CASE e \in DOMAIN order[l]
        BY <3>1, <4>1 DEF NoOrphanRows
      <4>2. CASE e \notin DOMAIN order[l]
        <5>1. l = m.lobby /\ e = row.id
          BY <3>2, <4>2
        <5>2. row \in entries' /\ row.id = e /\ row.lobby = l
          BY <3>1, <5>1
        <5> QED
          BY <5>2
      <4> QED
        BY <4>1, <4>2
    <3>4. \A x \in entries' : lobbies'[x.lobby].state = "open"
      BY <2>0, <2>1, <3>1 DEF NoOrphanRows, SameLobbies, TypeOK, EntryRow
    <3>5. policy' = policy /\ votes' = votes
      BY <2>2 DEF SubmitEntry
    <3>6. \A v \in votes' : \E x \in entries' : x.id = v[1]
      BY <3>1, <3>5 DEF NoOrphanRows
    <3> QED
      BY <2>0, <2>1, <3>3, <3>4, <3>5, <3>6 DEF NoOrphanRows, SameLobbies
  <2>3. ASSUME NEW m \in memberships, NEW p \in {Majority} \cup FixedCounts, SetPolicy(m, p)
        PROVE  NoOrphanRows'
    <3> DEFINE ord == Reevaluate(memberships, votes, p, m.lobby)
    <3>1. DOMAIN ord \subseteq DOMAIN order[m.lobby]
      BY <2>1, ReevaluateType
    <3>2. order' = [order EXCEPT ![m.lobby] = ord]
      BY <2>3 DEF SetPolicy
    <3> HIDE DEF ord
    <3>3. Kept
      BY <2>1, <3>1, <3>2, OrderKept
    <3>4. \A l \in Lobbies : (policy'[l] # NoPolicy) <=> (lobbies[l].state = "open")
      BY <1>0, <2>1, <2>3 DEF SetPolicy, HostOnly, Member, Active, NoOrphanRows, TypeOK
    <3>5. entries' = entries /\ votes' = votes
      BY <2>3 DEF SetPolicy
    <3> QED
      BY <2>0, <2>1, <3>3, <3>4, <3>5 DEF NoOrphanRows, SameLobbies, TypeOK, EntryRow
  <2>4. ASSUME NEW m \in memberships, NEW e \in DOMAIN order[m.lobby], Vote(m, e)
        PROVE  NoOrphanRows'
    <3> DEFINE ord == Reevaluate(memberships, votes \cup {<<e, m.user>>}, policy[m.lobby], m.lobby)
    <3>1. DOMAIN ord \subseteq DOMAIN order[m.lobby]
      BY <2>1, ReevaluateType
    <3>2. order' = [order EXCEPT ![m.lobby] = ord]
      BY <2>4 DEF Vote
    <3> HIDE DEF ord
    <3>3. Kept
      BY <2>1, <3>1, <3>2, OrderKept
    <3>4. entries' = entries /\ policy' = policy /\ votes' = votes \cup {<<e, m.user>>}
      BY <2>4 DEF Vote
    <3>5. \A v \in votes' : \E x \in entries' : x.id = v[1]
      BY <2>1, <3>4 DEF NoOrphanRows
    <3> QED
      BY <2>0, <2>1, <3>3, <3>4, <3>5 DEF NoOrphanRows, SameLobbies, TypeOK, EntryRow
  <2>5. ASSUME NEW m \in memberships, NEW e \in DOMAIN order[m.lobby], Remove(m.lobby, e)
        PROVE  NoOrphanRows'
    <3> DEFINE ord == Retain(order[m.lobby], DOMAIN order[m.lobby] \ {e})
    <3>1. DOMAIN ord \subseteq DOMAIN order[m.lobby] /\ order' = [order EXCEPT ![m.lobby] = ord]
      BY <2>5 DEF Retain, Remove
    <3> HIDE DEF ord
    <3>2. Kept
      BY <2>1, <3>1, OrderKept
    <3> QED
      BY <1>1, <2>0, <2>5, <3>2 DEF Remove, TypeOK
  <2>6. ASSUME NEW m \in memberships, NEW e \in DOMAIN order[m.lobby],
               NEW index \in 0..MaxEntries, NEW expected \in 1..MaxRevision,
               MoveEntry(m, e, index, expected)
        PROVE  NoOrphanRows'
    <3>1. DOMAIN Shift(order[m.lobby], e, index + 1) = DOMAIN order[m.lobby]
      BY DEF Shift
    <3>2. Kept
      BY <2>1, <2>6, <3>1, OrderKept DEF MoveEntry, Destination
    <3> QED
      BY <1>1, <2>0, <2>6, <3>2 DEF MoveEntry, Destination, TypeOK
  <2> QED
    BY <1>9, <2>2, <2>3, <2>4, <2>5, <2>6 DEF QueueStep, AdvanceQueue, VetoEntry
<1>10. CASE Tick \/ UNCHANGED vars
  BY <1>10 DEF NoOrphanRows, Tick, vars
<1> QED
  BY <1>3, <1>4, <1>5, <1>6, <1>7, <1>8, <1>9, <1>10 DEF Next, LobbyStep

-----------------------------------------------------------------------------
(* No entry with enough votes is left active.                              *)

\* Who counts as a guest depends on the membership rows and the owner only.
LEMMA GuestsFrame ==
  ASSUME NEW l \in Lobbies, lobbies'[l].owner = lobbies[l].owner
  PROVE  Guests(memberships, l)' = Guests(memberships', l)
<1>1. Guests(memberships, l)' = {m.user : m \in {x \in memberships' : x.lobby = l /\ ~(lobbies'[x.lobby].owner = x.user)}}
  BY DEF Guests, Host
<1>2. Guests(memberships', l) = {m.user : m \in {x \in memberships' : x.lobby = l /\ ~(lobbies[x.lobby].owner = x.user)}}
  BY DEF Guests, Host
<1>3. {x \in memberships' : x.lobby = l /\ ~(lobbies'[x.lobby].owner = x.user)}
        = {x \in memberships' : x.lobby = l /\ ~(lobbies[x.lobby].owner = x.user)}
  OBVIOUS
<1> QED
  BY <1>1, <1>2, <1>3

\* Right after reevaluate no active entry qualifies.
LEMMA ReevaluatedIsSettled ==
  ASSUME TypeOK, NEW l \in Lobbies, lobbies'[l].owner = lobbies[l].owner,
         order'[l] = Reevaluate(memberships', votes', policy'[l], l)
  PROVE  Qualifying(memberships, votes, policy[l], l)' = {}
<1> DEFINE G == Guests(memberships', l)
           Enough(e) == /\ G # {}
                        /\ Cardinality({u \in G : <<e, u>> \in votes'})
                             >= Threshold(policy'[l], Cardinality(G))
<1>1. Qualifying(memberships, votes, policy[l], l)' = {e \in DOMAIN order'[l] : Enough(e)}
  BY GuestsFrame DEF Qualifying, ActiveVotes, Threshold
<1>2. Qualifying(memberships', votes', policy'[l], l) = {e \in DOMAIN order[l] : Enough(e)}
  BY DEF Qualifying, ActiveVotes
<1>3. DOMAIN order'[l] = DOMAIN order[l] \ Qualifying(memberships', votes', policy'[l], l)
  BY ReevaluateType
<1> HIDE DEF Enough
<1> QED
  BY <1>1, <1>2, <1>3

\* An entry of a lobby whose guests and policy are the same, and whose votes
\* are the same, is as settled as it was.
LEMMA SettledEntry ==
  ASSUME TypeOK, NEW l \in Lobbies, lobbies'[l].owner = lobbies[l].owner,
         Qualifying(memberships, votes, policy[l], l) = {},
         {m \in memberships' : m.lobby = l} = {m \in memberships : m.lobby = l},
         policy'[l] = policy[l],
         NEW e \in DOMAIN order[l],
         \A u \in Users : <<e, u>> \in votes' <=> <<e, u>> \in votes
  PROVE  e \notin Qualifying(memberships, votes, policy[l], l)'
<1> DEFINE G == Guests(memberships, l)
           Enough(V) == G # {} /\ Cardinality(V) >= Threshold(policy[l], Cardinality(G))
<1>1. Guests(memberships', l) = G
  BY DEF Guests
<1>2. G \subseteq Users
  BY DEF Guests, TypeOK, MembershipRow
<1>3. Qualifying(memberships, votes, policy[l], l)'
        = {f \in DOMAIN order'[l] : Enough({u \in G : <<f, u>> \in votes'})}
  BY <1>1, GuestsFrame DEF Qualifying, ActiveVotes, Threshold
<1>4. Qualifying(memberships, votes, policy[l], l)
        = {f \in DOMAIN order[l] : Enough({u \in G : <<f, u>> \in votes})}
  BY DEF Qualifying, ActiveVotes
<1>5. {u \in G : <<e, u>> \in votes'} = {u \in G : <<e, u>> \in votes}
  BY <1>2
<1> HIDE DEF Enough
<1> QED
  BY <1>3, <1>4, <1>5

\* A lobby whose guests, policy and votes are the same stays settled.
LEMMA UntouchedIsSettled ==
  ASSUME TypeOK, NEW l \in Lobbies, lobbies'[l].owner = lobbies[l].owner,
         Qualifying(memberships, votes, policy[l], l) = {},
         {m \in memberships' : m.lobby = l} = {m \in memberships : m.lobby = l},
         policy'[l] = policy[l],
         \A e \in DOMAIN order'[l] : /\ e \in DOMAIN order[l]
                                     /\ \A u \in Users : <<e, u>> \in votes' <=> <<e, u>> \in votes
  PROVE  Qualifying(memberships, votes, policy[l], l)' = {}
<1>1. \A e \in DOMAIN order'[l] : e \notin Qualifying(memberships, votes, policy[l], l)'
  BY SettledEntry
<1>2. Qualifying(memberships, votes, policy[l], l)' \subseteq DOMAIN order'[l]
  BY DEF Qualifying
<1> QED
  BY <1>1, <1>2

\* Closing or deleting other lobbies takes no vote from this one.
LEMMA DropQueuesElsewhere ==
  ASSUME TypeOK, FreshIds, NoOrphanRows, NEW ls \in SUBSET Lobbies, DropQueues(ls),
         NEW l \in Lobbies, l \notin ls
  PROVE  /\ {m \in memberships' : m.lobby = l} = {m \in memberships : m.lobby = l}
         /\ policy'[l] = policy[l]
         /\ order'[l] = order[l]
         /\ \A e \in DOMAIN order'[l] : \A u \in Users : <<e, u>> \in votes' <=> <<e, u>> \in votes
<1>1. policy'[l] = policy[l] /\ order'[l] = order[l]
  BY DEF DropQueues
<1>2. {m \in memberships' : m.lobby = l} = {m \in memberships : m.lobby = l}
  BY DEF DropQueues
<1>3. \A e \in DOMAIN order[l] : \A x \in entries : x.id = e => x.lobby \notin ls
  BY DEF NoOrphanRows, FreshIds
<1>4. \A e \in DOMAIN order[l] : \A u \in Users : <<e, u>> \in votes' <=> <<e, u>> \in votes
  BY <1>3 DEF DropQueues
<1> QED
  BY <1>1, <1>2, <1>4

\* It takes at least one vote to remove an entry.
LEMMA ThresholdPositive ==
  ASSUME TypeOK, NoOrphanRows, NEW l \in Lobbies, lobbies[l].state = "open",
         NEW G, G \subseteq Users
  PROVE  Threshold(policy[l], Cardinality(G)) \in Nat \ {0}
<1>1. Cardinality(G) \in Nat
  BY StoreAssumption, FS_Subset, FS_CardinalityType
<1>2. policy[l] = Majority \/ policy[l] \in Nat \ {0}
  BY StoreAssumption DEF TypeOK, NoOrphanRows
<1> QED
  BY <1>1, <1>2 DEF Threshold

\* Every transaction leaves the lobbies it touched settled, and takes nothing
\* that counts from the others.
LEMMA StepQualifying ==
  ASSUME TypeOK, FreshIds, NoOrphanRows, NoQualifyingEntry, [Next]_vars
  PROVE  NoQualifyingEntry'
<1> SUFFICES ASSUME NEW l \in Lobbies, Active(l)'
             PROVE  Qualifying(memberships, votes, policy[l], l)' = {}
  BY DEF NoQualifyingEntry
<1> DEFINE Settled == Qualifying(memberships, votes, policy[l], l)' = {}
           SameRows == {m \in memberships' : m.lobby = l} = {m \in memberships : m.lobby = l}
           SameLife == Active(l) /\ lobbies'[l].owner = lobbies[l].owner
           SameVotes == \A u \in Users : \A e \in DOMAIN order'[l] : <<e, u>> \in votes' <=> <<e, u>> \in votes
           NoneAdded == \A e \in DOMAIN order'[l] : e \in DOMAIN order[l]
<1>1. ASSUME SameLobbies \/ Tick \/ UNCHANGED vars
      PROVE  SameLife
  BY <1>1, StoreAssumption DEF SameLobbies, Tick, vars, Active, TypeOK, LobbyRow
<1>2. ASSUME SameLife, SameRows, policy'[l] = policy[l], NoneAdded, SameVotes
      PROVE  Settled
  <2>1. Qualifying(memberships, votes, policy[l], l) = {}
    BY <1>2 DEF NoQualifyingEntry
  <2> QED
    BY <1>2, <2>1, UntouchedIsSettled
<1>3. ASSUME SameLife, order'[l] = Reevaluate(memberships', votes', policy'[l], l)
      PROVE  Settled
  BY <1>3, ReevaluatedIsSettled
<1>4. \A m \in memberships : m.lobby \in Lobbies /\ m.user \in Users
  BY DEF TypeOK, MembershipRow
<1>5. DOMAIN order = Lobbies /\ DOMAIN policy = Lobbies
  BY DEF TypeOK
<1> HIDE DEF Settled
<1>6. ASSUME NEW u \in Users, CreateLobby(u) PROVE Settled
  <2> DEFINE n == issued.lobby + 1
  <2>1. n \in Lobbies /\ issued.lobby < n
    BY <1>6 DEF CreateLobby, TypeOK, Lobbies
  <2>2. order' = order /\ votes' = votes
    BY <1>6 DEF CreateLobby
  <2>3. CASE l = n
    <3>1. lobbies[n].state # "open"
      BY <2>1 DEF FreshIds
    <3>2. DOMAIN order'[l] = {}
      BY <2>1, <2>2, <2>3, <3>1 DEF NoOrphanRows
    <3> QED
      BY <3>2 DEF Settled, Qualifying
  <2>4. CASE l # n
    <3>1. lobbies'[l] = lobbies[l] /\ now' = now /\ policy'[l] = policy[l]
      BY <1>6, <2>4 DEF CreateLobby, TypeOK
    <3>2. SameLife
      BY <3>1 DEF Active
    <3>3. SameRows
      BY <1>6, <2>4, <3>2 DEF CreateLobby, Current, WithoutStale
    <3> QED
      BY <1>2, <2>2, <3>1, <3>2, <3>3
  <2> QED
    BY <2>3, <2>4
<1>7. ASSUME NEW u \in Users, NEW k \in Lobbies, JoinLobby(u, k) PROVE Settled
  <2> DEFINE old == Current(u)
             row == [id |-> issued.membership + 1, user |-> u, lobby |-> k]
             joined == (WithoutStale(u) \ old) \cup {row}
             touched == {k} \cup {x.lobby : x \in old}
  <2>1. touched \in SUBSET Lobbies
    BY DEF TypeOK, Current, WithoutStale, MembershipRow
  <2>2. SameLife
    BY <1>1, <1>7, <2>1, BumpFrame DEF JoinLobby
  <2>3. memberships' = joined /\ votes' = votes /\ policy' = policy
    BY <1>7 DEF JoinLobby
  <2>4. order'[l] = IF l \in touched THEN Reevaluate(joined, votes, policy[l], l) ELSE order[l]
    BY <1>7 DEF JoinLobby
  <2>5. CASE l \in touched
    BY <1>3, <2>2, <2>3, <2>4, <2>5
  <2>6. CASE l \notin touched
    <3>1. SameRows
      BY <2>2, <2>3, <2>6 DEF Current, WithoutStale
    <3> QED
      BY <1>2, <2>2, <2>3, <2>4, <2>6, <3>1
  <2> QED
    BY <2>5, <2>6
<1>8. ASSUME NEW m \in memberships, LeaveStale(m) PROVE Settled
  <2>1. SameLife
    BY <1>1, <1>8, UnchangedFrame DEF LeaveStale
  <2>2. SameRows
    BY <1>8, <2>1 DEF LeaveStale
  <2> QED
    BY <1>2, <1>8, <2>1, <2>2 DEF LeaveStale
<1>9. ASSUME NEW m \in memberships, LeaveAsGuest(m) PROVE Settled
  <2>1. SameLife
    BY <1>1, <1>4, <1>9, BumpFrame DEF LeaveAsGuest
  <2>2. CASE l = m.lobby
    BY <1>3, <1>5, <1>9, <2>1, <2>2 DEF LeaveAsGuest
  <2>3. CASE l # m.lobby
    <3>1. SameRows
      BY <1>9, <2>3 DEF LeaveAsGuest
    <3> QED
      BY <1>2, <1>5, <1>9, <2>1, <2>3, <3>1 DEF LeaveAsGuest
  <2> QED
    BY <2>2, <2>3
<1>10. ASSUME NEW ls \in SUBSET Lobbies, DropQueues(ls), l \notin ls, lobbies'[l] = lobbies[l], now' = now
       PROVE  Settled
  <2>1. SameLife
    BY <1>10 DEF Active
  <2> QED
    BY <1>2, <1>10, <2>1, DropQueuesElsewhere
<1>11. ASSUME NEW m \in memberships, CloseLobby(m) PROVE Settled
  <2>1. l # m.lobby
    BY <1>4, <1>11 DEF CloseLobby, Active, TypeOK
  <2>2. lobbies'[l] = lobbies[l]
    BY <1>11, <2>1 DEF CloseLobby, TypeOK
  <2> QED
    BY <1>4, <1>10, <1>11, <2>1, <2>2 DEF CloseLobby
<1>12. ASSUME DeleteExpired PROVE Settled
  <2> DEFINE ls == {k \in Lobbies : lobbies[k].state \in {"open", "closed"} /\ lobbies[k].expires <= now}
  <2>1. l \notin ls
    BY <1>12 DEF DeleteExpired, Active, TypeOK, LobbyRow
  <2> QED
    BY <1>10, <1>12, <2>1 DEF DeleteExpired
<1>13. ASSUME QueueStep PROVE Settled
  <2>1. SameLife /\ memberships' = memberships
    BY <1>1, <1>13, QueueFrame
  <2>2. ASSUME NEW m \in memberships, NEW r \in Requests, SubmitEntry(m, r) PROVE Settled
    <3> DEFINE e == issued.entry + 1
    <3>1. votes' = votes /\ policy' = policy
      BY <2>2 DEF SubmitEntry
    <3>2. CASE l # m.lobby
      <4>1. order'[l] = order[l]
        BY <1>5, <2>2, <3>2 DEF SubmitEntry
      <4> QED
        BY <1>2, <2>1, <3>1, <4>1
    <3>3. CASE l = m.lobby
      <4>1. DOMAIN order'[l] = DOMAIN order[l] \cup {e}
        BY <1>5, <2>2, <3>3 DEF SubmitEntry
      <4>2. \A f \in DOMAIN order[l] : f \notin Qualifying(memberships, votes, policy[l], l)'
        <5>1. Qualifying(memberships, votes, policy[l], l) = {}
          BY <2>1 DEF NoQualifyingEntry
        <5> QED
          BY <2>1, <3>1, <5>1, SettledEntry
      <4>3. \A u \in Users : <<e, u>> \notin votes'
        BY <3>1 DEF NoOrphanRows, FreshIds, TypeOK, EntryRow
      <4>4. e \notin Qualifying(memberships, votes, policy[l], l)'
        <5> DEFINE G == Guests(memberships', l)
        <5>1. G \subseteq Users
          BY <1>4, <2>1 DEF Guests
        <5>2. {u \in G : <<e, u>> \in votes'} = {}
          BY <4>3, <5>1
        <5>3. Threshold(policy[l], Cardinality(G)) \in Nat \ {0}
          BY <2>1, <5>1, ThresholdPositive DEF Active
        <5>4. Qualifying(memberships, votes, policy[l], l)' \subseteq
                {f \in DOMAIN order'[l] : Cardinality({u \in G : <<f, u>> \in votes'})
                                            >= Threshold(policy'[l], Cardinality(G))}
          BY <2>1, GuestsFrame DEF Qualifying, ActiveVotes, Threshold
        <5>5. ~(Cardinality({u \in G : <<e, u>> \in votes'}) >= Threshold(policy'[l], Cardinality(G)))
          <6>1. Cardinality({u \in G : <<e, u>> \in votes'}) = 0
            BY <5>2, FS_EmptySet
          <6> QED
            BY <3>1, <5>3, <6>1
        <5> HIDE DEF G
        <5> QED
          BY <5>4, <5>5
      <4> QED
        BY <4>1, <4>2, <4>4 DEF Settled, Qualifying
    <3> QED
      BY <3>2, <3>3
  <2>3. ASSUME NEW m \in memberships, NEW p \in {Majority} \cup FixedCounts, SetPolicy(m, p) PROVE Settled
    <3>1. CASE l = m.lobby
      BY <1>3, <1>5, <2>1, <2>3, <3>1 DEF SetPolicy
    <3>2. CASE l # m.lobby
      BY <1>2, <1>5, <2>1, <2>3, <3>2 DEF SetPolicy
    <3> QED
      BY <3>1, <3>2
  <2>4. ASSUME NEW m \in memberships, NEW e \in DOMAIN order[m.lobby], Vote(m, e) PROVE Settled
    <3>1. CASE l = m.lobby
      BY <1>3, <1>5, <2>1, <2>4, <3>1 DEF Vote
    <3>2. CASE l # m.lobby
      <4>1. order'[l] = order[l] /\ policy'[l] = policy[l]
        BY <1>5, <2>4, <3>2 DEF Vote
      <4>2. \A f \in DOMAIN order[l] : f # e
        BY <1>4, <3>2 DEF NoOrphanRows, FreshIds
      <4>3. SameVotes
        BY <2>4, <4>1, <4>2 DEF Vote
      <4> QED
        BY <1>2, <2>1, <4>1, <4>3
    <3> QED
      BY <3>1, <3>2
  <2>5. ASSUME NEW m \in memberships, NEW ord, DOMAIN ord \subseteq DOMAIN order[m.lobby],
               order' = [order EXCEPT ![m.lobby] = ord], policy' = policy, votes' = votes
        PROVE  Settled
    BY <1>2, <1>4, <2>1, <2>5, OrderKept
  <2>6. ASSUME NEW m \in memberships, NEW e \in DOMAIN order[m.lobby], Remove(m.lobby, e) PROVE Settled
    BY <2>5, <2>6 DEF Remove, Retain
  <2>7. ASSUME NEW m \in memberships, NEW e \in DOMAIN order[m.lobby],
               NEW index \in 0..MaxEntries, NEW expected \in 1..MaxRevision,
               MoveEntry(m, e, index, expected)
        PROVE  Settled
    BY <2>5, <2>7 DEF MoveEntry, Destination, Shift
  <2> QED
    BY <1>13, <2>2, <2>3, <2>4, <2>6, <2>7 DEF QueueStep, AdvanceQueue, VetoEntry
<1>14. ASSUME Tick \/ UNCHANGED vars PROVE Settled
  BY <1>1, <1>2, <1>14 DEF Tick, vars
<1> QED
  BY <1>6, <1>7, <1>8, <1>9, <1>11, <1>12, <1>13, <1>14 DEF Next, LobbyStep, Settled

-----------------------------------------------------------------------------
(* The invariance theorems.                                                *)

LEMMA InitIInv == Init => IInv
<1> SUFFICES ASSUME Init PROVE IInv
  OBVIOUS
<1>1. TypeOK
  BY InitType
<1>2. \A l \in Lobbies : ~Active(l) /\ lobbies[l].state = "free" /\ DOMAIN order[l] = {}
  BY DEF Init, Active
<1> QED
  BY <1>1, <1>2 DEF Init, IInv, FreshIds, NoOrphanRows, OneMembershipPerUser, HostIsPresent,
                    NoQualifyingEntry, Lobbies

LEMMA StepIInv == IInv /\ [Next]_vars => IInv'
BY NextType, StepFresh, StepOrphans, StepUnique, StepHost, StepQualifying DEF IInv

LEMMA InductiveInvariant == Spec => []IInv
BY InitIInv, StepIInv, PTL DEF Spec

\* However creations, joins, transfers, departures and expiry interleave, no
\* user is ever in two lobbies (lobby_memberships, database/lobbies.rs).
THEOREM MembershipUnique == Spec => []OneMembershipPerUser
<1>1. IInv => OneMembershipPerUser
  BY DEF IInv
<1> QED
  BY <1>1, InductiveInvariant, PTL

\* Closing and deleting a lobby leaves no row of it behind, and no position
\* refers to an entry that is not there (leave_lobby, delete_expired_lobbies).
THEOREM NoOrphans == Spec => []NoOrphanRows
<1>1. IInv => NoOrphanRows
  BY DEF IInv
<1> QED
  BY <1>1, InductiveInvariant, PTL

\* A lobby that can be used never loses its host: only closing or expiry ends
\* the host's membership (leave_lobby, join_lobby_outcome_with).
THEOREM HostStays == Spec => []HostIsPresent
<1>1. IInv => HostIsPresent
  BY DEF IInv
<1> QED
  BY <1>1, InductiveInvariant, PTL

\* For every number of guests and every policy, no committed queue holds an
\* entry that its guests have voted out (reevaluate, database/queue.rs).
THEOREM VotesTakeEffect == Spec => []NoQualifyingEntry
<1>1. IInv => NoQualifyingEntry
  BY DEF IInv
<1> QED
  BY <1>1, InductiveInvariant, PTL
=============================================================================
