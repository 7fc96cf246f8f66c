-------------------------- MODULE LobbyEventsProofs --------------------------
(***************************************************************************)
(* Theorems about LobbyEvents, for every number of users, lobbies,         *)
(* generations, connections and hints, and every lifetime.                 *)
(***************************************************************************)
EXTENDS LobbyEvents, FiniteSetTheorems, TLAPS

-----------------------------------------------------------------------------
(* The store, as far as streams depend on it.                              *)

Row == [state: {"free", "open", "closed", "gone"}, owner: Users \cup {NoUser},
        expires: Nat, revision: 0..MaxRevision]

\* Ids are made in order and never again, and only a lobby that was not closed
\* has members.
LifeInv ==
  /\ life \in [Lobbies -> Row]
  /\ members \subseteq Generation
  /\ made \in [lobby: 0..MaxLobbies, membership: 0..MaxMemberships]
  /\ now \in 0..MaxTime
  /\ \A l \in Lobbies : l > made.lobby => life[l].state = "free"
  /\ \A m \in members : m.id <= made.membership /\ life[m.lobby].state = "open"
  /\ \A m, n \in members : m.id = n.id => m = n

\* What any transaction does, as seen by somebody who watches: nothing goes
\* back, only a lobby in time is closed, which moves its revision, new
\* generations are new, and one that ends without moving its lobby's revision
\* had expired with it.
LifeMove ==
  /\ now <= now' /\ made.lobby <= made'.lobby /\ made.membership <= made'.membership
  /\ \A l \in Lobbies : l <= made.lobby =>
       /\ life'[l].expires = life[l].expires
       /\ life[l].revision <= life'[l].revision
       /\ life[l].state = "closed" => life'[l].state \in {"closed", "gone"}
       /\ life[l].state = "gone" => life'[l].state = "gone"
       /\ life'[l].state = "closed" /\ life[l].state # "closed"
            => life'[l].revision > life[l].revision /\ now < life[l].expires
  /\ \A l \in Lobbies :
       life'[l].revision = life[l].revision \/ life'[l].revision \in 1..MaxRevision
  /\ \A m \in members' \ members : m.id > made.membership
  /\ \A m \in members \ members' :
       life'[m.lobby].revision = life[m.lobby].revision => life[m.lobby].expires <= now

LEMMA MadeType ==
  ASSUME LifeInv
  PROVE  /\ made.lobby \in 0..MaxLobbies /\ made.membership \in 0..MaxMemberships
         /\ made.lobby \in Int /\ made.membership \in Int /\ now \in Int
BY LifeAssumption DEF LifeInv

LEMMA RowType ==
  ASSUME LifeInv, NEW l \in Lobbies
  PROVE  /\ life[l] \in Row /\ life[l].revision \in 0..MaxRevision /\ life[l].revision \in Int
         /\ life[l].expires \in Nat /\ life[l].state \in {"free", "open", "closed", "gone"}
BY LifeAssumption DEF LifeInv, Row

\* Advancing revisions leaves the rest of the rows alone.
LEMMA AdvanceEffect ==
  ASSUME LifeInv, NEW ls, Advance(ls)
  PROVE  /\ life' \in [Lobbies -> Row]
         /\ \A l \in Lobbies :
              /\ life'[l].state = life[l].state /\ life'[l].expires = life[l].expires
              /\ life'[l].revision = IF l \in ls THEN life[l].revision + 1 ELSE life[l].revision
         /\ \A l \in ls : Usable(l)
<1>1. ASSUME NEW l \in Lobbies
      PROVE  /\ life'[l] \in Row
             /\ life'[l].state = life[l].state /\ life'[l].expires = life[l].expires
             /\ life'[l].revision = IF l \in ls THEN life[l].revision + 1 ELSE life[l].revision
  <2>1. life[l] \in Row
    BY RowType
  <2>2. CASE l \in ls
    <3>1. life'[l] = [life[l] EXCEPT !.revision = @ + 1]
      BY <2>2 DEF Advance
    <3>2. life[l].revision + 1 \in 0..MaxRevision
      BY <2>2, RowType, LifeAssumption DEF Advance
    <3>. QED
      BY <2>1, <2>2, <3>1, <3>2 DEF Row
  <2>3. CASE l \notin ls
    BY <2>1, <2>3 DEF Advance
  <2>. QED
    BY <2>2, <2>3
<1>2. life' \in [Lobbies -> Row]
  BY <1>1 DEF Advance
<1>. QED
  BY <1>1, <1>2 DEF Advance

\* A new generation is new, and replaces the others of its user.
LEMMA EnterEffect ==
  ASSUME LifeInv, NEW u \in Users, NEW l \in Lobbies, Enter(u, l)
  PROVE  /\ members' \subseteq Generation
         /\ made' \in [lobby: 0..MaxLobbies, membership: 0..MaxMemberships]
         /\ made'.membership = made.membership + 1
         /\ made'.lobby = IF l > made.lobby THEN l ELSE made.lobby
         /\ \A m \in members' : m \in members \/ (m.id = made.membership + 1 /\ m.lobby = l)
         /\ \A m, n \in members' : m.id = n.id => m = n
         /\ \A m \in members \ members' : m.user = u
<1>. DEFINE new == [id |-> made.membership + 1, user |-> u, lobby |-> l]
<1>1. /\ made.membership + 1 \in 1..MaxMemberships
      /\ members' = {x \in members : x.user # u} \cup {new}
      /\ made' = [lobby |-> IF l > made.lobby THEN l ELSE made.lobby,
                  membership |-> made.membership + 1]
  BY MadeType, LifeAssumption DEF Enter
<1>2. new \in Generation /\ new.id = made.membership + 1 /\ new.lobby = l
  BY <1>1 DEF Generation
<1>3. \A m \in members : m.id # made.membership + 1
  <2>1. \A m \in members : m.id \in Int /\ m.id <= made.membership
    BY LifeAssumption DEF LifeInv, Generation
  <2>. QED
    BY <2>1, MadeType
<1>. HIDE DEF new
<1>4. made' \in [lobby: 0..MaxLobbies, membership: 0..MaxMemberships]
  BY <1>1, MadeType, LifeAssumption DEF Lobbies
<1>5. \A m, n \in members' : m.id = n.id => m = n
  BY <1>1, <1>2, <1>3 DEF LifeInv
<1>6. members' \subseteq Generation
  BY <1>1, <1>2 DEF LifeInv
<1>. QED
  BY <1>1, <1>2, <1>4, <1>5, <1>6

LEMMA OpenStep == ASSUME LifeInv, NEW u \in Users, Open(u) PROVE LifeInv' /\ LifeMove
<1>. DEFINE l == made.lobby + 1
            row == [state |-> "open", owner |-> u, expires |-> now + Lifetime, revision |-> 1]
<1>1. /\ l \in Lobbies /\ l > made.lobby
      /\ Enter(u, l) /\ life' = [life EXCEPT ![l] = row] /\ UNCHANGED now
      /\ \A m \in members : m.user = u => ~Usable(m.lobby)
  BY MadeType, LifeAssumption DEF Open, Lobbies
<1>2. row \in Row
  BY MadeType, LifeAssumption DEF Row, LifeInv
<1>3. row.state = "open" /\ row.revision = 1
  OBVIOUS
<1>4. /\ made'.lobby = l /\ made'.membership = made.membership + 1
      /\ members' \subseteq Generation
      /\ made' \in [lobby: 0..MaxLobbies, membership: 0..MaxMemberships]
      /\ \A m \in members' : m \in members \/ (m.id = made.membership + 1 /\ m.lobby = l)
      /\ \A m, n \in members' : m.id = n.id => m = n
      /\ \A m \in members \ members' : m.user = u
  BY <1>1, EnterEffect
<1>. HIDE DEF row
<1>5. /\ life' \in [Lobbies -> Row] /\ life'[l] = row
      /\ \A x \in Lobbies \ {l} : life'[x] = life[x]
  BY <1>1, <1>2 DEF LifeInv
<1>6. LifeInv'
  <2>1. \A x \in Lobbies : x > made'.lobby => life'[x].state = "free"
    BY <1>4, <1>5, MadeType DEF LifeInv, Lobbies
  <2>2. ASSUME NEW m \in members'
        PROVE  m.id <= made'.membership /\ life'[m.lobby].state = "open"
    <3>1. CASE m \in members
      <4>1. m.id \in Int /\ m.id <= made.membership /\ life[m.lobby].state = "open" /\ m.lobby \in Lobbies
        BY <3>1, LifeAssumption DEF LifeInv, Generation
      <4>. QED
        BY <1>3, <1>4, <1>5, <4>1, MadeType
    <3>2. CASE m.id = made.membership + 1 /\ m.lobby = l
      BY <1>3, <1>4, <1>5, <3>2, MadeType
    <3>. QED
      BY <1>4, <3>1, <3>2
  <2>. QED
    BY <1>1, <1>4, <1>5, <2>1, <2>2 DEF LifeInv
<1>7. LifeMove
  <2>1. ASSUME NEW x \in Lobbies, x <= made.lobby PROVE life'[x] = life[x]
    BY <1>5, <2>1, MadeType DEF Lobbies
  <2>2. ASSUME NEW m \in members' \ members PROVE m.id > made.membership
    BY <1>4, MadeType
  <2>3. ASSUME NEW m \in members \ members' PROVE life[m.lobby].expires <= now
    <3>1. m.lobby \in Lobbies /\ ~Usable(m.lobby) /\ life[m.lobby].state = "open"
      BY <1>1, <1>4 DEF LifeInv, Generation
    <3>. QED
      BY <3>1, RowType, MadeType DEF Usable
  <2>4. now <= now' /\ made.lobby <= made'.lobby /\ made.membership <= made'.membership
    BY <1>1, <1>4, MadeType
  <2>5. \A x \in Lobbies : life[x].revision <= life[x].revision
    BY RowType
  <2>6. \A x \in Lobbies :
          life'[x].revision = life[x].revision \/ life'[x].revision \in 1..MaxRevision
    BY <1>3, <1>5, LifeAssumption
  <2>. HIDE DEF l
  <2>. QED
    BY <2>1, <2>2, <2>3, <2>4, <2>5, <2>6 DEF LifeMove
<1>. QED
  BY <1>6, <1>7

\* A usable lobby was made, and its deadline has not come.
LEMMA UsableLobby ==
  ASSUME LifeInv, NEW l \in Lobbies, Usable(l)
  PROVE  l <= made.lobby /\ life[l].state = "open" /\ now < life[l].expires
<1>1. l \in Int
  BY LifeAssumption DEF Lobbies
<1>. QED
  BY <1>1, MadeType DEF LifeInv, Usable

LEMMA JoinStep ==
  ASSUME LifeInv, NEW u \in Users, NEW l \in Lobbies, Join(u, l)
  PROVE  LifeInv' /\ LifeMove
<1>. DEFINE left == {m \in members : m.user = u /\ Usable(m.lobby)}
            ls == {l} \cup {m.lobby : m \in left}
<1>1. Advance(ls) /\ Enter(u, l) /\ UNCHANGED now
  BY DEF Join
<1>2. /\ life' \in [Lobbies -> Row]
      /\ \A x \in Lobbies :
           /\ life'[x].state = life[x].state /\ life'[x].expires = life[x].expires
           /\ life'[x].revision = IF x \in ls THEN life[x].revision + 1 ELSE life[x].revision
      /\ \A x \in ls : Usable(x)
  BY <1>1, AdvanceEffect
<1>3. l <= made.lobby /\ life[l].state = "open"
  BY <1>2, UsableLobby
<1>4. /\ made'.lobby = made.lobby /\ made'.membership = made.membership + 1
      /\ members' \subseteq Generation
      /\ made' \in [lobby: 0..MaxLobbies, membership: 0..MaxMemberships]
      /\ \A m \in members' : m \in members \/ (m.id = made.membership + 1 /\ m.lobby = l)
      /\ \A m, n \in members' : m.id = n.id => m = n
      /\ \A m \in members \ members' : m.user = u
  <2>1. l \in Int
    BY LifeAssumption DEF Lobbies
  <2>. QED
    BY <1>1, <1>3, <2>1, MadeType, EnterEffect
<1>5. \A m \in members : m.lobby \in Lobbies /\ m.id \in Int
  BY LifeAssumption DEF LifeInv, Generation
<1>6. LifeInv'
  <2>1. ASSUME NEW m \in members'
        PROVE  m.id <= made'.membership /\ life'[m.lobby].state = "open"
    BY <1>2, <1>3, <1>4, <1>5, MadeType DEF LifeInv
  <2>. QED
    BY <1>1, <1>2, <1>4, <2>1 DEF LifeInv
<1>7. LifeMove
  <2>1. ASSUME NEW x \in Lobbies
        PROVE  /\ life'[x].state = life[x].state /\ life'[x].expires = life[x].expires
               /\ life[x].revision <= life'[x].revision
    BY <1>2, RowType
  <2>2. ASSUME NEW m \in members' \ members PROVE m.id > made.membership
    BY <1>4, MadeType
  <2>3. ASSUME NEW m \in members \ members', life'[m.lobby].revision = life[m.lobby].revision
        PROVE  life[m.lobby].expires <= now
    <3>1. m.lobby \in Lobbies /\ m.lobby \notin ls
      BY <1>2, <1>5, <2>3, RowType
    <3>2. ~Usable(m.lobby) /\ life[m.lobby].state = "open"
      BY <1>4, <3>1 DEF LifeInv
    <3>. QED
      BY <3>1, <3>2, RowType, MadeType DEF Usable
  <2>4. now <= now' /\ made.lobby <= made'.lobby /\ made.membership <= made'.membership
    BY <1>1, <1>4, MadeType
  <2>5. \A x \in Lobbies :
          life'[x].revision = life[x].revision \/ life'[x].revision \in 1..MaxRevision
    <3>1. \A x \in Lobbies : life'[x].revision \in 0..MaxRevision
      BY <1>2 DEF Row
    <3>. QED
      BY <1>2, <3>1, RowType, LifeAssumption
  <2>. QED
    BY <2>1, <2>2, <2>3, <2>4, <2>5 DEF LifeMove
<1>. QED
  BY <1>6, <1>7

\* Steps that make nothing.
LEMMA NothingMade ==
  ASSUME LifeInv, UNCHANGED made, members' \subseteq members, now' \in 0..MaxTime, now <= now',
         life' \in [Lobbies -> Row],
         \A l \in Lobbies :
           /\ life'[l].expires = life[l].expires
           /\ life[l].revision <= life'[l].revision
           /\ life[l].state = "free" => life'[l].state = "free"
           /\ life[l].state = "closed" => life'[l].state \in {"closed", "gone"}
           /\ life[l].state = "gone" => life'[l].state = "gone"
           /\ life'[l].state = "closed" /\ life[l].state # "closed"
                => life'[l].revision > life[l].revision /\ now < life[l].expires,
         \A m \in members' : life'[m.lobby].state = "open",
         \A m \in members \ members' :
           life'[m.lobby].revision = life[m.lobby].revision => life[m.lobby].expires <= now
  PROVE  LifeInv' /\ LifeMove
<1>1. LifeInv'
  BY DEF LifeInv
<1>2. made.lobby <= made'.lobby /\ made.membership <= made'.membership
  BY MadeType
<1>3. \A l \in Lobbies :
        life'[l].revision = life[l].revision \/ life'[l].revision \in 1..MaxRevision
  <2>1. \A l \in Lobbies : life'[l].revision \in 0..MaxRevision
    BY DEF Row
  <2>. QED
    BY <2>1, RowType, LifeAssumption
<1>. QED
  BY <1>1, <1>2, <1>3 DEF LifeMove

LEMMA LeaveStep == ASSUME LifeInv, NEW m \in members, Leave(m) PROVE LifeInv' /\ LifeMove
<1>1. /\ life' \in [Lobbies -> Row]
      /\ \A l \in Lobbies :
           /\ life'[l].state = life[l].state /\ life'[l].expires = life[l].expires
           /\ life'[l].revision =
                IF l \in {m.lobby} THEN life[l].revision + 1 ELSE life[l].revision
  BY AdvanceEffect DEF Leave
<1>2. members' = members \ {m} /\ UNCHANGED <<made, now>>
  BY DEF Leave
<1>3. \A x \in members : x.lobby \in Lobbies /\ life[x.lobby].state = "open"
  BY DEF LifeInv, Generation
<1>4. \A l \in Lobbies : life[l].revision <= life'[l].revision
  BY <1>1, RowType
<1>5. life'[m.lobby].revision # life[m.lobby].revision
  BY <1>1, <1>3, RowType
<1>6. now \in 0..MaxTime /\ now <= now
  BY MadeType DEF LifeInv
<1>. QED
  BY <1>1, <1>2, <1>3, <1>4, <1>5, <1>6, NothingMade

LEMMA ChangeStep == ASSUME LifeInv, NEW l \in Lobbies, Change(l) PROVE LifeInv' /\ LifeMove
<1>1. /\ life' \in [Lobbies -> Row]
      /\ \A x \in Lobbies :
           /\ life'[x].state = life[x].state /\ life'[x].expires = life[x].expires
           /\ life'[x].revision = IF x \in {l} THEN life[x].revision + 1 ELSE life[x].revision
  BY AdvanceEffect DEF Change
<1>2. \A x \in Lobbies : life[x].revision <= life'[x].revision
  BY <1>1, RowType
<1>3. UNCHANGED <<members, made, now>> /\ now \in 0..MaxTime /\ now <= now
  BY MadeType DEF Change, LifeInv
<1>4. \A x \in members : x.lobby \in Lobbies /\ life[x.lobby].state = "open"
  BY DEF LifeInv, Generation
<1>. QED
  BY <1>1, <1>2, <1>3, <1>4, NothingMade

LEMMA ForgetStep == ASSUME LifeInv, NEW m \in members, Forget(m) PROVE LifeInv' /\ LifeMove
<1>1. members' = members \ {m} /\ UNCHANGED <<life, made, now>> /\ ~Usable(m.lobby)
  BY DEF Forget
<1>2. \A x \in members : x.lobby \in Lobbies /\ life[x.lobby].state = "open"
  BY DEF LifeInv, Generation
<1>3. life[m.lobby].expires <= now
  BY <1>1, <1>2, RowType, MadeType DEF Usable
<1>4. \A l \in Lobbies : life[l].revision <= life[l].revision
  BY RowType
<1>5. now \in 0..MaxTime /\ now <= now /\ life \in [Lobbies -> Row]
  BY MadeType DEF LifeInv
<1>. QED
  BY <1>1, <1>2, <1>3, <1>4, <1>5, NothingMade

LEMMA CloseStep == ASSUME LifeInv, NEW m \in members, Close(m) PROVE LifeInv' /\ LifeMove
<1>. DEFINE l == m.lobby
            row == [state |-> "closed", owner |-> life[l].owner, expires |-> life[l].expires,
                    revision |-> life[l].revision + 1]
<1>1. /\ l \in Lobbies /\ life[l] \in Row /\ life[l].state = "open"
      /\ members' = members \ In(l) /\ UNCHANGED <<made, now>>
      /\ life' = [life EXCEPT ![l] = row]
      /\ life[l].revision + 1 \in 0..MaxRevision /\ now < life[l].expires
  <2>1. l \in Lobbies /\ life[l].state = "open"
    BY DEF LifeInv, Generation
  <2>. QED
    BY <2>1, RowType, LifeAssumption DEF Close, Usable
<1>2. row \in Row /\ row.state = "closed" /\ row.expires = life[l].expires
      /\ row.revision = life[l].revision + 1
  BY <1>1 DEF Row
<1>. HIDE DEF row
<1>3. /\ life' \in [Lobbies -> Row] /\ life'[l] = row
      /\ \A x \in Lobbies \ {l} : life'[x] = life[x]
  BY <1>1, <1>2 DEF LifeInv
<1>4. ASSUME NEW x \in Lobbies
      PROVE  /\ life'[x].expires = life[x].expires
             /\ life[x].revision <= life'[x].revision
             /\ life[x].state = "free" => life'[x].state = "free"
             /\ life[x].state = "closed" => life'[x].state \in {"closed", "gone"}
             /\ life[x].state = "gone" => life'[x].state = "gone"
             /\ life'[x].state = "closed" /\ life[x].state # "closed"
                  => life'[x].revision > life[x].revision /\ now < life[x].expires
  BY <1>1, <1>2, <1>3, RowType
<1>5. ASSUME NEW x \in members' PROVE life'[x.lobby].state = "open"
  <2>1. x \in members /\ x.lobby # l /\ x.lobby \in Lobbies /\ life[x.lobby].state = "open"
    BY <1>1, <1>5 DEF In, LifeInv, Generation
  <2>. QED
    BY <1>3, <2>1
<1>6. ASSUME NEW x \in members \ members' PROVE life'[x.lobby].revision # life[x.lobby].revision
  <2>1. x.lobby = l
    BY <1>1, <1>6 DEF In
  <2>. QED
    BY <1>1, <1>2, <1>3, <2>1, RowType
<1>7. now \in 0..MaxTime /\ now <= now
  BY MadeType DEF LifeInv
<1>. HIDE DEF l
<1>. QED
  BY <1>1, <1>3, <1>4, <1>5, <1>6, <1>7, NothingMade

LEMMA DeleteStep == ASSUME LifeInv, NEW ls, ls \subseteq Lobbies, Delete(ls) PROVE LifeInv' /\ LifeMove
<1>1. /\ \A l \in ls : life[l].state \in {"open", "closed"} /\ life[l].expires <= now
      /\ members' = {m \in members : m.lobby \notin ls} /\ UNCHANGED <<made, now>>
      /\ life' = [l \in Lobbies |-> IF l \in ls THEN [life[l] EXCEPT !.state = "gone"] ELSE life[l]]
  BY DEF Delete
<1>2. ASSUME NEW l \in Lobbies
      PROVE  /\ life'[l] \in Row
             /\ life'[l].expires = life[l].expires /\ life'[l].revision = life[l].revision
             /\ life'[l].state = IF l \in ls THEN "gone" ELSE life[l].state
  <2>1. life[l] \in Row
    BY RowType
  <2>2. CASE l \in ls
    <3>1. life'[l] = [life[l] EXCEPT !.state = "gone"]
      BY <1>1, <2>2
    <3>. QED
      BY <2>1, <2>2, <3>1 DEF Row
  <2>3. CASE l \notin ls
    BY <1>1, <2>1, <2>3
  <2>. QED
    BY <2>2, <2>3
<1>3. life' \in [Lobbies -> Row]
  BY <1>1, <1>2
<1>4. \A m \in members : m.lobby \in Lobbies /\ life[m.lobby].state = "open"
  BY DEF LifeInv, Generation
<1>5. \A l \in Lobbies : life[l].revision <= life'[l].revision
  BY <1>2, RowType
<1>6. now \in 0..MaxTime /\ now <= now
  BY MadeType DEF LifeInv
<1>7. ASSUME NEW l \in Lobbies
      PROVE  /\ life[l].state = "free" => life'[l].state = "free"
             /\ life[l].state = "closed" => life'[l].state \in {"closed", "gone"}
             /\ life[l].state = "gone" => life'[l].state = "gone"
             /\ life'[l].state = "closed" => life[l].state = "closed"
  BY <1>1, <1>2
<1>8. /\ \A m \in members' : life'[m.lobby].state = "open"
      /\ \A m \in members \ members' : life[m.lobby].expires <= now
  BY <1>1, <1>2, <1>4
<1>. QED
  BY <1>1, <1>2, <1>3, <1>5, <1>6, <1>7, <1>8, NothingMade

LEMMA LifeRest == ASSUME LifeInv, LifeTick \/ UNCHANGED lifeVars PROVE LifeInv' /\ LifeMove
<1>1. UNCHANGED <<life, members, made>> /\ now' \in 0..MaxTime /\ now <= now'
  BY MadeType, LifeAssumption DEF LifeTick, lifeVars, LifeInv
<1>2. \A m \in members : m.lobby \in Lobbies /\ life[m.lobby].state = "open"
  BY DEF LifeInv, Generation
<1>3. life \in [Lobbies -> Row] /\ \A l \in Lobbies : life[l].revision <= life[l].revision
  BY RowType DEF LifeInv
<1>. QED
  BY <1>1, <1>2, <1>3, NothingMade

LEMMA LifeStep == LifeInv /\ [LifeNext]_lifeVars => LifeInv' /\ LifeMove
BY OpenStep, JoinStep, LeaveStep, ForgetStep, CloseStep, ChangeStep, DeleteStep, LifeRest
   DEF LifeNext

LEMMA LifeStart == LifeInit => LifeInv
<1>. SUFFICES ASSUME LifeInit PROVE LifeInv
  OBVIOUS
<1>1. life \in [Lobbies -> Row]
  BY LifeAssumption DEF LifeInit, Row
<1>. QED
  BY <1>1, LifeAssumption DEF LifeInit, LifeInv

-----------------------------------------------------------------------------
(* The inductive invariant of the streams.                                 *)

Member(g) == \E m \in members : m.id = g
Departed(g) == \E d \in departed : d[1] = g

\* The generation left before its lobby was closed, if it was.
LeftBefore(k) ==
  \E d \in departed : /\ d[1] = k.gen
                      /\ life[k.lobby].state = "closed" => d[2] < life[k.lobby].revision

\* A generation that ended while it could be used, or with its lobby's closing,
\* ended with a revision of its lobby; the stream has seen less.
Bound(k) ==
  /\ k.gen \in 1..made.membership /\ k.lobby <= made.lobby
  /\ \A m \in members : m.id = k.gen => m.lobby = k.lobby
  /\ \A d \in departed : d[1] = k.gen => d[2] <= life[k.lobby].revision /\ k.last < d[2]
  /\ k.last <= life[k.lobby].revision
  /\ ~Member(k.gen) /\ (life[k.lobby].state = "closed" \/ now < life[k.lobby].expires)
       => Departed(k.gen)

\* What a snapshot says stays true enough to be answered later.
Snapped(k) ==
  /\ k.snap \in Snapshots
  /\ k.last <= k.snap.revision /\ k.snap.revision <= life[k.lobby].revision
  /\ k.snap.member => \A d \in departed : d[1] = k.gen => k.snap.revision < d[2]
  /\ k.snap.closed => life[k.lobby].state \in {"closed", "gone"} /\ Departed(k.gen)
  /\ k.snap.row /\ ~k.snap.closed /\ ~k.snap.member /\ now < life[k.lobby].expires => LeftBefore(k)

\* The reason that was given.
Reason(k) ==
  /\ k.said = "left" => LeftBefore(k)
  /\ k.said = "closed" => Departed(k.gen) /\ life[k.lobby].state \in {"closed", "gone"}
  /\ k.said = "expired" => now >= life[k.lobby].expires
  /\ k.said = "auth_expired" => now >= k.until

Unbound(k) == k.phase \in {"off", "subscribed"}

Stream(k) ==
  /\ Unbound(k) => k.gen = NoGen /\ k.last = None /\ k.said = "nothing"
  /\ ~Unbound(k) => Bound(k)
  /\ k.phase = "read" => Snapped(k)
  /\ Reason(k)

\* HintsWakeReaders, of one connection.
Hinted(k) == \E i \in 1..Len(k.inbox) : k.inbox[i] = k.lobby
Announced(k) == \E p \in pending \cup lost : p[1] = k.lobby /\ p[2] > Seen(k)
Awake(k) ==
  /\ k.phase \in {"waiting", "read"}
  /\ k.phase = "waiting" => k.last # None
  /\ Seen(k) < life[k.lobby].revision
  => Hinted(k) \/ k.lagged \/ Announced(k)

\* A departed generation is not a member any more.
DepartedGone == \A d \in departed : d[1] <= made.membership /\ ~Member(d[1])

IInv ==
  /\ LifeInv
  /\ EventsTypeOK
  /\ DepartedGone
  /\ \A c \in Conns : Stream(conn[c]) /\ Awake(conn[c])

-----------------------------------------------------------------------------
(* What transactions change for a stream.                                  *)

\* Departures are recorded with the revision they moved their lobby to.
Watched ==
  /\ LifeMove
  /\ departed \subseteq departed'
  /\ \A d \in departed' \ departed :
       \E m \in members \ members' :
         d[1] = m.id /\ d[2] = life'[m.lobby].revision /\ d[2] > life[m.lobby].revision
  /\ \A m \in members \ members' :
       life'[m.lobby].revision # life[m.lobby].revision => \E d \in departed' : d[1] = m.id

LEMMA MemberType ==
  ASSUME LifeInv, NEW m \in members
  PROVE  /\ m.lobby \in Lobbies /\ m.lobby <= made.lobby /\ m.lobby \in Int
         /\ m.id \in 1..made.membership
<1>1. m \in Generation /\ life[m.lobby].state = "open" /\ m.id <= made.membership
  BY DEF LifeInv
<1>2. m.lobby \in Lobbies /\ m.id \in 1..MaxMemberships /\ m.lobby \in Int /\ m.id \in Int
  BY <1>1, LifeAssumption DEF Generation, Lobbies
<1>3. m.lobby <= made.lobby
  BY <1>1, <1>2, MadeType DEF LifeInv
<1>4. m.id \in 1..made.membership
  BY <1>1, <1>2, MadeType, LifeAssumption
<1>. QED
  BY <1>2, <1>3, <1>4

LEMMA CommitWatched == ASSUME LifeInv, Commit PROVE LifeInv' /\ Watched
<1>. DEFINE moved == {l \in Lobbies : life'[l].revision # life[l].revision}
            ended == {x \in members \ members' : x.lobby \in moved}
<1>1. LifeInv' /\ LifeMove
  BY LifeStep DEF Commit
<1>2. departed' = departed \cup {<<m.id, life'[m.lobby].revision>> : m \in ended}
  BY DEF Commit
<1>3. ASSUME NEW m \in ended PROVE life'[m.lobby].revision > life[m.lobby].revision
  <2>1. /\ m \in members /\ m.lobby \in Lobbies /\ m.lobby <= made.lobby
        /\ life'[m.lobby].revision # life[m.lobby].revision
    BY MemberType
  <2>2. /\ life[m.lobby].revision <= life'[m.lobby].revision
        /\ life'[m.lobby].revision \in 1..MaxRevision
    BY <1>1, <2>1 DEF LifeMove
  <2>. QED
    BY <2>1, <2>2, RowType, LifeAssumption
<1>4. ASSUME NEW d \in departed' \ departed
      PROVE  \E m \in members \ members' :
               d[1] = m.id /\ d[2] = life'[m.lobby].revision /\ d[2] > life[m.lobby].revision
  <2>1. PICK m \in ended : d = <<m.id, life'[m.lobby].revision>>
    BY <1>2
  <2>. QED
    BY <1>3, <2>1
<1>5. ASSUME NEW m \in members \ members', life'[m.lobby].revision # life[m.lobby].revision
      PROVE  \E d \in departed' : d[1] = m.id
  <2>1. m \in ended
    BY <1>5, MemberType
  <2>2. <<m.id, life'[m.lobby].revision>> \in departed'
    BY <1>2, <2>1
  <2>. QED
    BY <2>2
<1>6. departed \subseteq departed'
  BY <1>2
<1>. HIDE DEF moved, ended
<1>. QED
  BY <1>1, <1>4, <1>5, <1>6 DEF Watched

LEMMA StillWatched == ASSUME LifeInv, UNCHANGED <<lifeVars, departed>> PROVE LifeInv' /\ Watched
<1>1. LifeInv' /\ LifeMove
  BY LifeStep
<1>. QED
  BY <1>1 DEF Watched, lifeVars
LEMMA ConnectionType ==
  ASSUME NEW k \in Connection
  PROVE  /\ k.lobby \in Lobbies /\ k.lobby \in Int /\ k.last \in 0..MaxRevision /\ k.last \in Int
         /\ k.until \in Int /\ k.gen \in Int /\ k.inbox \in Inboxes
         /\ k.snap \in Snapshots =>
              k.snap.revision \in Int /\ k.snap.revision \in 0..MaxRevision
<1>1. /\ k.lobby \in 1..MaxLobbies /\ k.last \in 0..MaxRevision /\ k.until \in 0..(MaxTime + 1)
      /\ k.gen \in 0..MaxMemberships /\ k.inbox \in Inboxes
  BY DEF Connection, Lobbies
<1>2. k.snap \in Snapshots => k.snap.revision \in 0..MaxRevision
  BY DEF Snapshots
<1>. QED
  BY <1>1, <1>2, LifeAssumption DEF Lobbies

LEMMA DepartedType ==
  ASSUME EventsTypeOK, NEW d \in departed
  PROVE  d[1] \in Int /\ d[2] \in Int /\ d[2] \in 1..MaxRevision
BY LifeAssumption DEF EventsTypeOK

\* What a bound stream relies on is its generation's, whatever the store does.
LEMMA BoundStep ==
  ASSUME LifeInv, LifeInv', EventsTypeOK, Watched, NEW k \in Connection, Bound(k)
  PROVE  Bound(k)'
<1>. DEFINE l == k.lobby
<1>1. /\ l \in Lobbies /\ l <= made.lobby /\ k.gen \in 1..made.membership
      /\ k.last \in Int /\ life[l].revision \in Int /\ life'[l].revision \in Int
      /\ now <= now' /\ now \in Int /\ now' \in Int
      /\ life[l].expires \in Int /\ life'[l].expires = life[l].expires
      /\ life[l].revision <= life'[l].revision
      /\ life[l].state = "closed" => life'[l].state \in {"closed", "gone"}
      /\ life[l].state = "gone" => life'[l].state = "gone"
      /\ life'[l].state = "closed" /\ life[l].state # "closed"
           => life'[l].revision > life[l].revision /\ now < life[l].expires
  <2>1. /\ l \in Lobbies /\ l <= made.lobby /\ k.gen \in 1..made.membership /\ k.last \in Int
        /\ l \in Int
    BY ConnectionType DEF Bound
  <2>2. life'[l].revision \in Int
    BY <2>1, LifeAssumption DEF LifeInv, Row
  <2>3. now' \in Int
    BY LifeAssumption DEF LifeInv
  <2>. QED
    BY <2>1, <2>2, <2>3, RowType, MadeType DEF Watched, LifeMove
<1>2. k.gen \in 1..made'.membership /\ l <= made'.lobby
  <2>1. made.lobby <= made'.lobby /\ made.membership <= made'.membership
    BY DEF Watched, LifeMove
  <2>2. made'.lobby \in Int /\ made'.membership \in Int
    BY LifeAssumption DEF LifeInv
  <2>. QED
    BY <1>1, <2>1, <2>2, MadeType, ConnectionType
<1>3. ASSUME NEW m \in members', m.id = k.gen PROVE m \in members /\ m.lobby = l
  <2>1. m \in members
    BY <1>1, <1>3, MadeType DEF Watched, LifeMove
  <2>. QED
    BY <1>3, <2>1 DEF Bound
<1>4. ASSUME NEW d \in departed', d[1] = k.gen
      PROVE  d[2] <= life'[l].revision /\ k.last < d[2]
  <2>1. CASE d \in departed
    BY <1>1, <1>4, <2>1, DepartedType DEF Bound
  <2>2. CASE d \notin departed
    <3>1. PICK m \in members \ members' :
            d[1] = m.id /\ d[2] = life'[m.lobby].revision /\ d[2] > life[m.lobby].revision
      BY <2>2 DEF Watched
    <3>2. m.lobby = l
      BY <1>4, <3>1 DEF Bound
    <3>. QED
      BY <1>1, <3>1, <3>2 DEF Bound
  <2>. QED
    BY <2>1, <2>2
<1>5. k.last <= life'[l].revision
  BY <1>1 DEF Bound
<1>6. ASSUME \A m \in members' : m.id # k.gen,
             life'[l].state = "closed" \/ now' < life'[l].expires
      PROVE  \E d \in departed' : d[1] = k.gen
  <2>1. CASE Departed(k.gen)
    BY <2>1 DEF Departed, Watched
  <2>2. CASE ~Departed(k.gen) /\ ~Member(k.gen)
    BY <1>1, <1>6, <2>2 DEF Bound
  <2>3. CASE Member(k.gen)
    <3>1. PICK m \in members \ members' : m.id = k.gen /\ m.lobby = l
      BY <1>6, <2>3 DEF Member, Bound
    <3>2. life[l].state = "open"
      BY <3>1 DEF LifeInv
    <3>3. CASE life'[l].revision = life[l].revision
      <4>1. life[l].expires <= now
        BY <3>1, <3>3 DEF Watched, LifeMove
      <4>. QED
        BY <1>1, <1>6, <3>2, <3>3, <4>1
    <3>4. CASE life'[l].revision # life[l].revision
      BY <3>1, <3>4 DEF Watched
    <3>. QED
      BY <3>3, <3>4
  <2>. QED
    BY <2>1, <2>2, <2>3
<1>. QED
  BY <1>2, <1>3, <1>4, <1>5, <1>6 DEF Bound, Member, Departed

\* What the store did to the lobby and the departures a bound stream looks at.
LEMMA BoundView ==
  ASSUME LifeInv, LifeInv', EventsTypeOK, Watched, NEW k \in Connection, Bound(k)
  PROVE  LET l == k.lobby IN
         /\ l \in Lobbies /\ life[l].revision \in Int /\ life'[l].revision \in Int
         /\ life[l].revision <= life'[l].revision
         /\ now \in Int /\ now' \in Int /\ now <= now'
         /\ life[l].expires \in Int /\ life'[l].expires = life[l].expires
         /\ life[l].state \in {"closed", "gone"} => life'[l].state \in {"closed", "gone"}
         /\ life'[l].state = "closed" /\ life[l].state # "closed"
              => life'[l].revision > life[l].revision
         /\ departed \subseteq departed'
         /\ \A d \in departed : d[2] \in Int
         /\ \A d \in departed' \ departed :
              d[1] = k.gen => d[2] > life[l].revision /\ d[2] \in Int
<1>. DEFINE l == k.lobby
<1>1. l \in Lobbies /\ l <= made.lobby /\ l \in Int
  BY ConnectionType DEF Bound
<1>2. life'[l].revision \in Int
  BY <1>1, LifeAssumption DEF LifeInv, Row
<1>3. now' \in Int
  BY LifeAssumption DEF LifeInv
<1>4. ASSUME NEW d \in departed' \ departed, d[1] = k.gen
      PROVE  d[2] > life[l].revision /\ d[2] \in Int
  <2>1. PICK m \in members \ members' :
          d[1] = m.id /\ d[2] = life'[m.lobby].revision /\ d[2] > life[m.lobby].revision
    BY <1>4 DEF Watched
  <2>2. m.lobby = l
    BY <1>4, <2>1 DEF Bound
  <2>. QED
    BY <1>2, <2>1, <2>2
<1>. QED
  BY <1>1, <1>2, <1>3, <1>4, RowType, MadeType, DepartedType DEF Watched, LifeMove

\* A departure seen before the closing stays one.
LEMMA LeftStep ==
  ASSUME LifeInv, LifeInv', EventsTypeOK, Watched, NEW k \in Connection, Bound(k), LeftBefore(k)
  PROVE  LeftBefore(k)'
<1>1. PICK d \in departed :
        d[1] = k.gen /\ (life[k.lobby].state = "closed" => d[2] < life[k.lobby].revision)
  BY DEF LeftBefore
<1>2. d[2] <= life[k.lobby].revision
  BY <1>1 DEF Bound
<1>3. life'[k.lobby].state = "closed" => d[2] < life'[k.lobby].revision
  BY <1>1, <1>2, BoundView
<1>. QED
  BY <1>1, <1>3, BoundView DEF LeftBefore

LEMMA SnappedStep ==
  ASSUME LifeInv, LifeInv', EventsTypeOK, Watched, NEW k \in Connection, Bound(k), Snapped(k)
  PROVE  Snapped(k)'
<1>1. /\ k.snap \in Snapshots /\ k.snap.revision \in Int /\ k.last <= k.snap.revision
      /\ k.snap.revision <= life'[k.lobby].revision
  BY BoundView, ConnectionType DEF Snapped
<1>2. ASSUME k.snap.member, NEW d \in departed', d[1] = k.gen PROVE k.snap.revision < d[2]
  <2>1. CASE d \in departed
    BY <1>2, <2>1 DEF Snapped
  <2>2. CASE d \notin departed
    BY <1>1, <1>2, <2>2, BoundView DEF Snapped
  <2>. QED
    BY <2>1, <2>2
<1>3. k.snap.closed => life'[k.lobby].state \in {"closed", "gone"} /\ Departed(k.gen)'
  BY BoundView DEF Snapped, Departed
<1>4. k.snap.row /\ ~k.snap.closed /\ ~k.snap.member /\ now' < life'[k.lobby].expires
        => LeftBefore(k)'
  BY BoundView, LeftStep DEF Snapped
<1>. QED
  BY <1>1, <1>2, <1>3, <1>4 DEF Snapped

LEMMA ReasonStep ==
  ASSUME LifeInv, LifeInv', EventsTypeOK, Watched, NEW k \in Connection, Bound(k), Reason(k)
  PROVE  Reason(k)'
<1>1. k.until \in Int
  BY ConnectionType
<1>2. k.said = "closed" => Departed(k.gen)' /\ life'[k.lobby].state \in {"closed", "gone"}
  BY BoundView DEF Reason, Departed
<1>3. (k.said = "expired" => now' >= life'[k.lobby].expires)
      /\ (k.said = "auth_expired" => now' >= k.until)
  BY <1>1, BoundView DEF Reason
<1>4. k.said = "left" => LeftBefore(k)'
  BY LeftStep DEF Reason
<1>. QED
  BY <1>2, <1>3, <1>4 DEF Reason

\* A stream stays consistent through whatever the store does.
LEMMA StreamStep ==
  ASSUME LifeInv, LifeInv', EventsTypeOK, Watched, NEW k \in Connection, Stream(k)
  PROVE  Stream(k)'
<1>1. CASE Unbound(k)
  BY <1>1 DEF Stream, Unbound, Reason
<1>2. CASE ~Unbound(k)
  <2>1. Bound(k) /\ Reason(k) /\ (k.phase = "read" => Snapped(k))
    BY <1>2 DEF Stream
  <2>2. Bound(k)' /\ Reason(k)' /\ (k.phase = "read" => Snapped(k)')
    BY <2>1, BoundStep, ReasonStep, SnappedStep
  <2>3. ~Unbound(k)'
    BY <1>2 DEF Unbound
  <2>. QED
    BY <2>2, <2>3 DEF Stream
<1>. QED
  BY <1>1, <1>2
LEMMA DepartedGoneStep ==
  ASSUME LifeInv, LifeInv', EventsTypeOK, Watched, DepartedGone
  PROVE  DepartedGone'
<1>1. /\ made.membership <= made'.membership
      /\ made.membership \in Int /\ made'.membership \in Int
      /\ \A m \in members' : m.id <= made.membership => m \in members
  <2>1. made'.membership \in Int
    BY LifeAssumption DEF LifeInv
  <2>2. \A m \in members' : m.id \in Int
    BY LifeAssumption DEF LifeInv, Generation
  <2>. QED
    BY <2>1, <2>2, MadeType DEF Watched, LifeMove
<1>2. ASSUME NEW d \in departed
      PROVE  d[1] <= made'.membership /\ \A m \in members' : m.id # d[1]
  <2>1. d[1] <= made.membership /\ d[1] \in Int /\ \A m \in members : m.id # d[1]
    BY DepartedType DEF DepartedGone, Member
  <2>. QED
    BY <1>1, <2>1
<1>3. ASSUME NEW d \in departed' \ departed
      PROVE  d[1] <= made'.membership /\ \A m \in members' : m.id # d[1]
  <2>1. PICK m \in members \ members' : d[1] = m.id
    BY DEF Watched
  <2>2. m.id <= made.membership /\ m.id \in Int
    BY MemberType, MadeType
  <2>3. \A n \in members' : n.id = m.id => n = m
    BY <1>1, <2>2 DEF LifeInv
  <2>. QED
    BY <1>1, <2>1, <2>2, <2>3
<1>. QED
  BY <1>2, <1>3 DEF DepartedGone, Member

\* A stream that had no hint to miss still has none when the store announces
\* what it changes.
LEMMA AwakeStep ==
  ASSUME NEW k \in Connection, Awake(k), pending \subseteq pending', lost \subseteq lost',
         \/ life'[k.lobby].revision = life[k.lobby].revision
         \/ <<k.lobby, life'[k.lobby].revision>> \in pending'
  PROVE  Awake(k)'
<1>. SUFFICES ASSUME k.phase \in {"waiting", "read"}, k.phase = "waiting" => k.last # None,
                     Seen(k) < life'[k.lobby].revision, ~Hinted(k), ~k.lagged
              PROVE  Announced(k)'
  BY DEF Awake, Hinted, Seen
<1>1. CASE life'[k.lobby].revision = life[k.lobby].revision
  BY <1>1 DEF Awake, Announced, Seen
<1>2. CASE <<k.lobby, life'[k.lobby].revision>> \in pending'
  <2>. DEFINE p == <<k.lobby, life'[k.lobby].revision>>
  <2>1. p \in (pending \cup lost)' /\ p[1] = k.lobby /\ p[2] > Seen(k)
    BY <1>2 DEF Seen
  <2>. HIDE DEF p
  <2>. QED
    BY <2>1 DEF Announced, Seen
<1>. QED
  BY <1>1, <1>2

LEMMA CommitStep == ASSUME IInv, Commit PROVE IInv'
<1>. DEFINE moved == {l \in Lobbies : life'[l].revision # life[l].revision}
            ended == {x \in members \ members' : x.lobby \in moved}
<1>1. LifeInv /\ LifeInv' /\ Watched /\ EventsTypeOK /\ DepartedGone
  BY CommitWatched DEF IInv
<1>2. /\ pending' = pending \cup {<<l, life'[l].revision>> : l \in moved}
      /\ departed' = departed \cup {<<m.id, life'[m.lobby].revision>> : m \in ended}
      /\ UNCHANGED <<lost, conn>>
  BY DEF Commit
<1>3. \A l \in moved : life'[l].revision \in 1..MaxRevision
  BY <1>1 DEF Watched, LifeMove
<1>4. \A m \in ended : m.id \in 1..MaxMemberships /\ m.lobby \in moved
  BY <1>1 DEF LifeInv, Generation
<1>5. \A l \in Lobbies :
        \/ life'[l].revision = life[l].revision
        \/ <<l, life'[l].revision>> \in pending'
  BY <1>2
<1>6. EventsTypeOK'
  <2>1. \A l \in moved : <<l, life'[l].revision>> \in Hints
    BY <1>3 DEF Hints
  <2>2. \A m \in ended :
          <<m.id, life'[m.lobby].revision>> \in (1..MaxMemberships) \X (1..MaxRevision)
    BY <1>3, <1>4
  <2>. HIDE DEF moved, ended
  <2>3. pending' \subseteq Hints
    BY <1>1, <1>2, <2>1 DEF EventsTypeOK
  <2>4. departed' \subseteq (1..MaxMemberships) \X (1..MaxRevision)
    BY <1>1, <1>2, <2>2 DEF EventsTypeOK
  <2>. QED
    BY <1>1, <1>2, <2>3, <2>4 DEF EventsTypeOK
<1>7. ASSUME NEW c \in Conns, NEW k, k = conn[c] PROVE Stream(k)' /\ Awake(k)'
  <2>1. k \in Connection /\ Stream(k) /\ Awake(k) /\ k.lobby \in Lobbies
    BY <1>1, <1>7, ConnectionType DEF IInv, EventsTypeOK
  <2>2. Stream(k)'
    BY <1>1, <2>1, StreamStep
  <2>3. pending \subseteq pending' /\ lost \subseteq lost'
    BY <1>2
  <2>4. Awake(k)'
    BY <1>5, <2>1, <2>3, AwakeStep
  <2>. QED
    BY <2>2, <2>4
<1>8. \A c \in Conns : Stream(conn[c])' /\ Awake(conn[c])'
  BY <1>2, <1>7 DEF Stream, Awake
<1>9. DepartedGone'
  BY <1>1, DepartedGoneStep
<1>. QED
  BY <1>1, <1>6, <1>8, <1>9 DEF IInv
-----------------------------------------------------------------------------
(* Receivers.                                                              *)

LEMMA InboxSeq == ASSUME NEW q PROVE q \in Inboxes <=> q \in Seq(Lobbies) /\ Len(q) <= Capacity
<1>1. ASSUME q \in Inboxes PROVE q \in Seq(Lobbies) /\ Len(q) <= Capacity
  <2>1. PICK n \in 0..Capacity : q \in [1..n -> Lobbies]
    BY <1>1 DEF Inboxes
  <2>2. n \in Nat /\ n <= Capacity
    BY EventsAssumption
  <2>3. q \in Seq(Lobbies) /\ Len(q) = n
    BY <2>1, <2>2
  <2>. QED
    BY <2>2, <2>3
<1>2. ASSUME q \in Seq(Lobbies), Len(q) <= Capacity PROVE q \in Inboxes
  <2>1. Len(q) \in 0..Capacity /\ q \in [1..Len(q) -> Lobbies]
    BY <1>2, EventsAssumption
  <2>. QED
    BY <2>1 DEF Inboxes
<1>. QED
  BY <1>1, <1>2

\* Two records of a connection that differ in their receivers only.
SameStream(k, n) ==
  /\ n.phase = k.phase /\ n.gen = k.gen /\ n.lobby = k.lobby /\ n.until = k.until
  /\ n.last = k.last /\ n.snap = k.snap /\ n.said = k.said

\* A hint arrives, and no other gets lost unnoticed.
LEMMA ReceiveEffect ==
  ASSUME NEW k \in Connection, NEW l \in Lobbies
  PROVE  /\ Receive(k, l) \in Connection
         /\ SameStream(k, Receive(k, l))
         /\ k.phase # "off" =>
              /\ Hinted(k) \/ k.lagged => Hinted(Receive(k, l)) \/ Receive(k, l).lagged
              /\ l = k.lobby => Hinted(Receive(k, l))
<1>. DEFINE n == Receive(k, l)
            q == k.inbox
<1>1. q \in Seq(Lobbies) /\ Len(q) <= Capacity /\ Len(q) \in Nat
  BY ConnectionType, InboxSeq
<1>2. CASE k.phase = "off"
  BY <1>2 DEF Receive, SameStream
<1>3. CASE k.phase # "off" /\ Len(q) < Capacity
  <2>1. n = [k EXCEPT !.inbox = Append(q, l)]
    BY <1>3 DEF Receive
  <2>2. Append(q, l) \in Seq(Lobbies) /\ Len(Append(q, l)) = Len(q) + 1
        /\ Append(q, l)[Len(q) + 1] = l
        /\ \A i \in 1..Len(q) : Append(q, l)[i] = q[i]
    BY <1>1
  <2>3. Append(q, l) \in Inboxes
    <3>1. ASSUME NEW a, a \in Seq(Lobbies), Len(a) = Len(q) + 1 PROVE a \in Inboxes
      <4>1. Len(a) <= Capacity
        BY <1>1, <1>3, <3>1, EventsAssumption
      <4>. QED
        BY <3>1, <4>1, InboxSeq
    <3>. QED
      BY <2>2, <3>1
  <2>4. /\ n \in Connection /\ SameStream(k, n) /\ n.inbox = Append(q, l)
        /\ n.lagged = k.lagged
    BY <2>1, <2>3 DEF Connection, SameStream
  <2>5. Hinted(k) => Hinted(n)
    BY <1>1, <2>2, <2>4 DEF Hinted, SameStream
  <2>6. l = k.lobby => Hinted(n)
    BY <1>1, <2>2, <2>4 DEF Hinted, SameStream
  <2>. QED
    BY <2>4, <2>5, <2>6
<1>4. CASE k.phase # "off" /\ ~(Len(q) < Capacity)
  <2>1. n = [k EXCEPT !.inbox = Append(Tail(q), l), !.lagged = TRUE]
    BY <1>4 DEF Receive
  <2>2. Len(q) = Capacity /\ q # <<>>
    BY <1>1, <1>4, EventsAssumption
  <2>3. Tail(q) \in Seq(Lobbies) /\ Len(Tail(q)) = Capacity - 1
    BY <1>1, <2>2
  <2>. DEFINE t == Tail(q)
  <2>. HIDE DEF t
  <2>4. Append(t, l) \in Seq(Lobbies) /\ Len(Append(t, l)) = Capacity
        /\ Append(t, l)[Capacity] = l
    BY <2>3, EventsAssumption DEF t
  <2>5. Append(t, l) \in Inboxes
    <3>1. ASSUME NEW a, a \in Seq(Lobbies), Len(a) = Capacity PROVE a \in Inboxes
      <4>1. Len(a) <= Capacity
        BY <3>1, EventsAssumption
      <4>. QED
        BY <3>1, <4>1, InboxSeq
    <3>. QED
      BY <2>4, <3>1
  <2>6. /\ n \in Connection /\ SameStream(k, n) /\ n.inbox = Append(t, l) /\ n.lagged
    BY <2>1, <2>5 DEF Connection, SameStream, t
  <2>7. l = k.lobby => Hinted(n)
    BY <2>4, <2>6, EventsAssumption DEF Hinted, SameStream
  <2>. QED
    BY <2>6, <2>7
<1>. QED
  BY <1>1, <1>2, <1>3, <1>4

LEMMA SameStreamStep ==
  ASSUME NEW k, NEW n, SameStream(k, n), Stream(k) PROVE Stream(n)
BY DEF SameStream, Stream, Unbound, Bound, Snapped, Reason, LeftBefore

LEMMA PublishStep == ASSUME IInv, NEW p \in pending, Publish(p) PROVE IInv'
<1>1. /\ LifeInv /\ EventsTypeOK /\ DepartedGone /\ p \in Hints
      /\ pending' = pending \ {p} /\ UNCHANGED <<lifeVars, lost, departed>>
      /\ conn' = [c \in Conns |-> Receive(conn[c], p[1])]
  BY DEF IInv, Publish, EventsTypeOK
<1>2. p[1] \in Lobbies
  BY <1>1 DEF Hints
<1>3. ASSUME NEW c \in Conns, NEW k, k = conn[c], NEW n, n = Receive(k, p[1])
      PROVE  n \in Connection /\ Stream(n)' /\ Awake(n)'
  <2>1. k \in Connection /\ Stream(k) /\ Awake(k)
    BY <1>1, <1>3 DEF IInv, EventsTypeOK
  <2>2. /\ n \in Connection /\ SameStream(k, n)
        /\ k.phase # "off" => /\ Hinted(k) \/ k.lagged => Hinted(n) \/ n.lagged
                              /\ p[1] = k.lobby => Hinted(n)
    BY <1>2, <1>3, <2>1, ReceiveEffect
  <2>3. LifeInv' /\ Watched
    BY <1>1, StillWatched
  <2>4. Stream(n)'
    BY <1>1, <2>1, <2>2, <2>3, SameStreamStep, StreamStep
  <2>5. Awake(n)'
    <3>. SUFFICES ASSUME n.phase \in {"waiting", "read"}, n.phase = "waiting" => n.last # None,
                         Seen(n) < life[n.lobby].revision, ~Hinted(n), ~n.lagged
                  PROVE  Announced(n)'
      BY <1>1 DEF Awake, Hinted, Seen, lifeVars
    <3>1. Announced(k) /\ Seen(n) = Seen(k) /\ n.lobby = k.lobby /\ p[1] # k.lobby
      BY <2>1, <2>2 DEF Awake, SameStream, Seen
    <3>2. PICK h \in pending \cup lost : h[1] = k.lobby /\ h[2] > Seen(k)
      BY <3>1 DEF Announced
    <3>3. h \in (pending \cup lost)'
      BY <1>1, <3>1, <3>2
    <3>. QED
      BY <3>1, <3>2, <3>3 DEF Announced, Seen
  <2>. QED
    BY <2>2, <2>4, <2>5
<1>4. \A c \in Conns : conn'[c] \in Connection /\ Stream(conn[c])' /\ Awake(conn[c])'
  <2>1. ASSUME NEW c \in Conns, NEW n, n = conn'[c] PROVE n \in Connection /\ Stream(n)' /\ Awake(n)'
    BY <1>1, <1>3, <2>1
  <2>. QED
    BY <2>1 DEF Stream, Awake
<1>5. LifeInv' /\ DepartedGone'
  BY <1>1, StillWatched DEF DepartedGone, Member, lifeVars
<1>6. EventsTypeOK'
  BY <1>1, <1>4 DEF EventsTypeOK
<1>. QED
  BY <1>4, <1>5, <1>6 DEF IInv

LEMMA LoseStep == ASSUME IInv, NEW p \in pending, LosePublication(p) PROVE IInv'
<1>1. /\ LifeInv /\ EventsTypeOK /\ DepartedGone /\ p \in Hints
      /\ pending' = pending \ {p} /\ lost' = lost \cup {p}
      /\ UNCHANGED <<lifeVars, conn, departed>>
  BY DEF IInv, LosePublication, EventsTypeOK
<1>2. (pending \cup lost)' = pending \cup lost
  BY <1>1
<1>3. EventsTypeOK'
  BY <1>1 DEF EventsTypeOK
<1>4. LifeInv' /\ DepartedGone'
  BY <1>1, StillWatched DEF DepartedGone, Member, lifeVars
<1>5. ASSUME NEW c \in Conns, NEW k, k = conn[c] PROVE Stream(k)' /\ Awake(k)'
  <2>1. k \in Connection /\ Stream(k) /\ Awake(k)
    BY <1>1, <1>5 DEF IInv, EventsTypeOK
  <2>2. Awake(k)'
    BY <1>1, <1>2, <2>1 DEF Awake, Announced, Hinted, Seen, lifeVars
  <2>. QED
    BY <1>1, <2>1, <2>2, StillWatched, StreamStep
<1>6. \A c \in Conns : Stream(conn[c])' /\ Awake(conn[c])'
  BY <1>1, <1>5 DEF Stream, Awake
<1>. QED
  BY <1>3, <1>4, <1>6 DEF IInv
-----------------------------------------------------------------------------
(* Connections.                                                            *)

\* A connection may become any record that is consistent with the store.
LEMMA BecomesStep ==
  ASSUME IInv, NEW c \in Conns, NEW n \in Connection, Becomes(c, n), Stream(n), Awake(n)
  PROVE  IInv'
<1>1. /\ LifeInv /\ EventsTypeOK /\ DepartedGone
      /\ conn' = [conn EXCEPT ![c] = n] /\ UNCHANGED <<lifeVars, pending, lost, departed>>
  BY DEF IInv, Becomes
<1>2. LifeInv' /\ Watched /\ DepartedGone'
  BY <1>1, StillWatched DEF DepartedGone, Member, lifeVars
<1>3. EventsTypeOK'
  BY <1>1 DEF EventsTypeOK
<1>4. ASSUME NEW x \in Conns, NEW k, k = conn'[x] PROVE Stream(k)' /\ Awake(k)'
  <2>1. k \in Connection /\ Stream(k) /\ Awake(k)
    BY <1>1, <1>4 DEF IInv, EventsTypeOK
  <2>2. Stream(k)'
    BY <1>1, <1>2, <2>1, StreamStep
  <2>3. Awake(k)'
    BY <1>1, <2>1, AwakeStep DEF lifeVars
  <2>. QED
    BY <2>2, <2>3
<1>5. \A x \in Conns : Stream(conn[x])' /\ Awake(conn[x])'
  BY <1>4 DEF Stream, Awake
<1>. QED
  BY <1>2, <1>3, <1>5 DEF IInv

LEMMA OffType ==
  /\ Off \in Connection /\ Off.phase = "off" /\ Off.gen = NoGen /\ Off.last = None
  /\ Off.said = "nothing" /\ Off.snap = <<>>
<1>1. <<>> \in Inboxes
  <2>1. <<>> \in Seq(Lobbies) /\ Len(<<>>) = 0 /\ 0 <= Capacity
    BY EventsAssumption
  <2>2. ASSUME NEW q, q \in Seq(Lobbies), Len(q) = 0 PROVE q \in Inboxes
    BY <2>1, <2>2, InboxSeq
  <2>. QED
    BY <2>1, <2>2
<1>2. 1 \in Lobbies
  BY LifeAssumption DEF Lobbies
<1>3. 0 \in 0..MaxMemberships /\ 0 \in 0..(MaxTime + 1) /\ 0 \in 0..MaxRevision
  BY LifeAssumption
<1>. QED
  BY <1>1, <1>2, <1>3 DEF Off, Connection, NoGen, None

LEMMA UnboundStream ==
  ASSUME NEW n \in Connection, Unbound(n), n.gen = NoGen, n.last = None, n.said = "nothing"
  PROVE  Stream(n) /\ Awake(n)
BY DEF Stream, Awake, Unbound, Reason

LEMMA OpeningStep ==
  ASSUME IInv, NEW c \in Conns, Subscribe(c) \/ Disconnect(c) PROVE IInv'
<1>1. CASE Disconnect(c)
  BY <1>1, OffType, UnboundStream, BecomesStep DEF Disconnect, Unbound
<1>2. CASE Subscribe(c)
  <2>1. PICK until \in (now + 1)..(MaxTime + 1) :
          Becomes(c, [Off EXCEPT !.phase = "subscribed", !.until = until])
    BY <1>2 DEF Subscribe
  <2>. DEFINE n == [Off EXCEPT !.phase = "subscribed", !.until = until]
  <2>2. until \in 0..(MaxTime + 1)
    BY LifeAssumption DEF IInv, LifeInv
  <2>3. n \in Connection /\ n.phase = "subscribed" /\ n.gen = NoGen /\ n.last = None
        /\ n.said = "nothing"
    BY <2>2, OffType DEF Connection
  <2>. HIDE DEF n
  <2>4. Stream(n) /\ Awake(n)
    BY <2>3, UnboundStream DEF Unbound
  <2>. QED
    BY <2>1, <2>3, <2>4, BecomesStep DEF n
<1>. QED
  BY <1>1, <1>2

LEMMA BindStep == ASSUME IInv, NEW c \in Conns, Bind(c) PROVE IInv'
<1>. DEFINE k == conn[c]
<1>1. k \in Connection /\ Stream(k) /\ k.phase = "subscribed"
  BY DEF Bind, IInv, EventsTypeOK
<1>2. PICK m \in members :
        Becomes(c, [k EXCEPT !.phase = "waiting", !.gen = m.id, !.lobby = m.lobby])
  BY DEF Bind
<1>. DEFINE n == [k EXCEPT !.phase = "waiting", !.gen = m.id, !.lobby = m.lobby]
<1>3. LifeInv /\ EventsTypeOK /\ DepartedGone
  BY DEF IInv
<1>4. /\ m.lobby \in Lobbies /\ m.lobby <= made.lobby /\ m.id \in 1..made.membership
      /\ m.id \in 0..MaxMemberships
  <2>1. m.id \in 1..MaxMemberships
    BY <1>3 DEF LifeInv, Generation
  <2>. QED
    BY <1>3, <2>1, MemberType, LifeAssumption
<1>5. k.last = None /\ k.said = "nothing"
  BY <1>1 DEF Stream, Unbound
<1>6. /\ n \in Connection /\ n.phase = "waiting" /\ n.gen = m.id /\ n.lobby = m.lobby
      /\ n.last = None /\ n.said = "nothing"
  BY <1>1, <1>4, <1>5 DEF Connection
<1>. HIDE DEF n, k
<1>7. Bound(n)
  <2>1. Member(n.gen) /\ \A d \in departed : d[1] # n.gen
    BY <1>3, <1>6 DEF Member, DepartedGone
  <2>2. \A x \in members : x.id = n.gen => x.lobby = n.lobby
    BY <1>3, <1>6 DEF LifeInv
  <2>3. n.last <= life[n.lobby].revision
    BY <1>3, <1>4, <1>6, RowType, LifeAssumption DEF None
  <2>. QED
    BY <1>4, <1>6, <2>1, <2>2, <2>3 DEF Bound
<1>8. Stream(n) /\ Awake(n)
  BY <1>6, <1>7 DEF Stream, Unbound, Reason, Awake
<1>. QED
  BY <1>2, <1>6, <1>8, BecomesStep DEF n, k

\* A stream that keeps its generation and what it has seen.
Keeps(k, n) == n.gen = k.gen /\ n.lobby = k.lobby /\ n.until = k.until /\ n.last = k.last

LEMMA StreamingType ==
  ASSUME IInv, NEW c \in Conns, NEW k, k = conn[c], ~Unbound(k)
  PROVE  /\ k \in Connection /\ Bound(k) /\ Reason(k) /\ Awake(k) /\ (k.phase = "read" => Snapped(k))
         /\ k.lobby \in Lobbies /\ now \in Int /\ life[k.lobby] \in Row
         /\ life[k.lobby].revision \in Int /\ life[k.lobby].expires \in Int
         /\ k.until \in Int /\ k.last \in Int
<1>1. k \in Connection /\ Stream(k) /\ Awake(k) /\ LifeInv
  BY DEF IInv, EventsTypeOK
<1>. QED
  BY <1>1, ConnectionType, RowType, MadeType DEF Stream

LEMMA KeepsBound ==
  ASSUME NEW k, NEW n, Keeps(k, n), Bound(k) PROVE Bound(n)
BY DEF Keeps, Bound

LEMMA KeepsReason ==
  ASSUME NEW k, NEW n, Keeps(k, n), n.said = k.said, Reason(k) PROVE Reason(n)
BY DEF Keeps, Reason, LeftBefore

LEMMA TerminateStep == ASSUME IInv, NEW c \in Conns, Terminate(c) PROVE IInv'
<1>. SUFFICES ASSUME NEW k, k = conn[c],
                     NEW n, n = [k EXCEPT !.phase = "over", !.snap = <<>>,
                                   !.said = IF now >= k.until THEN "auth_expired" ELSE "expired"]
              PROVE  IInv'
  OBVIOUS
<1>1. /\ ~Unbound(k) /\ (now >= k.until \/ now >= life[k.lobby].expires) /\ Becomes(c, n)
  BY DEF Terminate, Streaming, Unbound, Deadline
<1>2. k \in Connection /\ Bound(k)
  BY <1>1, StreamingType
<1>3. /\ n \in Connection /\ Keeps(k, n) /\ n.phase = "over"
      /\ n.said = IF now >= k.until THEN "auth_expired" ELSE "expired"
  BY <1>2, Zenon DEF Connection, Keeps
<1>4. Reason(n)
  BY <1>1, <1>3 DEF Reason, Keeps
<1>5. Stream(n) /\ Awake(n)
  BY <1>2, <1>3, <1>4, KeepsBound DEF Stream, Unbound, Awake
<1>. QED
  BY <1>1, <1>3, <1>5, BecomesStep

\* Starting a read, and one that fails.
LEMMA PhaseStep ==
  ASSUME IInv, NEW c \in Conns, ReadFirst(c) \/ Timer(c) \/ FailRead(c) PROVE IInv'
<1>. SUFFICES ASSUME NEW k, k = conn[c], NEW phase \in {"reading", "over"},
                     k.phase \in {"waiting", "reading"},
                     NEW n, n = [k EXCEPT !.phase = phase], Becomes(c, n)
              PROVE  IInv'
  BY DEF ReadFirst, Timer, FailRead
<1>1. k \in Connection /\ Bound(k) /\ Reason(k)
  BY StreamingType DEF Unbound
<1>2. n \in Connection /\ Keeps(k, n) /\ n.phase = phase /\ n.said = k.said
  BY <1>1 DEF Connection, Keeps
<1>3. Reason(n)
  BY <1>1, <1>2, KeepsReason
<1>4. Stream(n) /\ Awake(n)
  BY <1>1, <1>2, <1>3, KeepsBound DEF Stream, Unbound, Awake
<1>. QED
  BY <1>2, <1>4, BecomesStep
\* A hint that is consumed is of another lobby, or starts a read.
LEMMA HintStep == ASSUME IInv, NEW c \in Conns, Hint(c) PROVE IInv'
<1>. SUFFICES ASSUME NEW k, k = conn[c], NEW n,
                     n = IF k.lagged THEN [k EXCEPT !.lagged = FALSE, !.phase = "reading"]
                         ELSE [k EXCEPT !.inbox = Tail(@),
                                 !.phase = IF Head(k.inbox) = k.lobby THEN "reading" ELSE "waiting"]
              PROVE  IInv'
  OBVIOUS
<1>1. k.phase = "waiting" /\ k.last # None /\ k.inbox # <<>> /\ Becomes(c, n)
  BY DEF Hint
<1>2. k \in Connection /\ Bound(k) /\ Reason(k) /\ Awake(k)
  BY <1>1, StreamingType DEF Unbound
<1>. DEFINE q == k.inbox
            t == Tail(q)
<1>3. q \in Seq(Lobbies) /\ Len(q) <= Capacity
  BY <1>2, ConnectionType, InboxSeq
<1>4. /\ t \in Seq(Lobbies) /\ Len(q) \in Nat /\ Len(t) = Len(q) - 1 /\ Head(q) = q[1]
      /\ \A i \in 1..Len(t) : t[i] = q[i + 1]
  BY <1>1, <1>3
<1>5. t \in Inboxes
  <2>1. ASSUME NEW a, a \in Seq(Lobbies), Len(a) = Len(q) - 1 PROVE a \in Inboxes
    <3>1. Len(a) <= Capacity
      BY <1>3, <1>4, <2>1, EventsAssumption
    <3>. QED
      BY <2>1, <3>1, InboxSeq
  <2>. QED
    BY <1>4, <2>1
<1>6. /\ n \in Connection /\ Keeps(k, n) /\ n.said = k.said
      /\ n.phase \in {"reading", "waiting"}
      /\ n.phase = "waiting" => ~k.lagged /\ n.inbox = t /\ Head(q) # k.lobby
  <2>1. CASE k.lagged
    BY <1>2, <2>1 DEF Connection, Keeps
  <2>2. CASE ~k.lagged
    BY <1>2, <1>5, <2>2 DEF Connection, Keeps
  <2>. QED
    BY <2>1, <2>2
<1>7. Reason(n)
  BY <1>2, <1>6, KeepsReason
<1>8. Stream(n)
  BY <1>2, <1>6, <1>7, KeepsBound DEF Stream, Unbound
<1>9. Awake(n)
  <2>. SUFFICES ASSUME n.phase = "waiting", Seen(n) < life[n.lobby].revision,
                       ~Hinted(n), ~Announced(n)
                PROVE  FALSE
    BY <1>6 DEF Awake
  <2>1. Seen(n) = Seen(k) /\ n.lobby = k.lobby
    BY <1>1, <1>6 DEF Seen, Keeps
  <2>2. Hinted(k)
    BY <1>1, <1>2, <1>6, <2>1 DEF Awake, Announced
  <2>3. PICK i \in 1..Len(q) : q[i] = k.lobby
    BY <2>2 DEF Hinted
  <2>4. i # 1
    BY <1>4, <1>6, <2>3
  <2>5. i - 1 \in 1..Len(t) /\ t[i - 1] = k.lobby
    <3>1. i - 1 \in 1..Len(t)
      BY <1>4, <2>3, <2>4
    <3>. QED
      BY <1>4, <2>3, <3>1
  <2>. QED
    BY <1>6, <2>1, <2>5 DEF Hinted
<1>. QED
  BY <1>1, <1>6, <1>8, <1>9, BecomesStep

\* What a snapshot says of the generation, when it is taken.
LEMMA ReadStateStep == ASSUME IInv, NEW c \in Conns, ReadState(c) PROVE IInv'
<1>. SUFFICES ASSUME NEW k, k = conn[c],
                     NEW s, s = [row |-> life[k.lobby].state # "gone",
                                 revision |-> life[k.lobby].revision,
                                 closed |-> life[k.lobby].state = "closed",
                                 member |-> \E m \in In(k.lobby) : m.id = k.gen],
                     NEW n, n = [k EXCEPT !.phase = "read", !.snap = s]
              PROVE  IInv'
  OBVIOUS
<1>1. k.phase = "reading" /\ Becomes(c, n)
  BY DEF ReadState
<1>2. /\ k \in Connection /\ Bound(k) /\ Reason(k) /\ life[k.lobby] \in Row
      /\ k.lobby \in Lobbies /\ life[k.lobby].revision \in Int /\ k.last \in Int
  BY <1>1, StreamingType DEF Unbound
<1>3. s \in Snapshots
  BY <1>2 DEF Snapshots, Row
<1>4. n \in Connection /\ Keeps(k, n) /\ n.phase = "read" /\ n.said = k.said /\ n.snap = s
  BY <1>2, <1>3 DEF Connection, Keeps
<1>5. Bound(n) /\ Reason(n)
  BY <1>2, <1>4, KeepsBound, KeepsReason
<1>6. s.member <=> Member(k.gen)
  BY <1>2 DEF Bound, Member, In
<1>7. DepartedGone /\ LifeInv
  BY DEF IInv
<1>8. Snapped(n)
  <2>1. k.last <= s.revision /\ s.revision <= life[k.lobby].revision
    BY <1>2 DEF Bound
  <2>2. s.member => \A d \in departed : d[1] # k.gen
    BY <1>6, <1>7 DEF DepartedGone
  <2>3. s.closed => life[k.lobby].state = "closed" /\ Departed(k.gen)
    <3>. SUFFICES ASSUME life[k.lobby].state = "closed" PROVE Departed(k.gen)
      OBVIOUS
    <3>1. ~Member(k.gen)
      BY <1>2, <1>7 DEF Bound, Member, LifeInv
    <3>. QED
      BY <1>2, <3>1 DEF Bound
  <2>4. ~s.closed /\ ~s.member /\ now < life[k.lobby].expires => LeftBefore(k)
    <3>. SUFFICES ASSUME life[k.lobby].state # "closed", ~Member(k.gen),
                         now < life[k.lobby].expires
                  PROVE  LeftBefore(k)
      BY <1>6
    <3>. QED
      BY <1>2 DEF Bound, Departed, LeftBefore
  <2>. QED
    BY <1>3, <1>4, <2>1, <2>2, <2>3, <2>4 DEF Snapped, Keeps, LeftBefore
<1>9. Awake(n)
  BY <1>2, <1>4 DEF Awake, Seen, Keeps
<1>. QED
  BY <1>1, <1>4, <1>5, <1>8, <1>9, BecomesStep DEF Stream, Unbound

\* The answer is still true when it is sent.
LEMMA FinishStep == ASSUME IInv, NEW c \in Conns, Finish(c) PROVE IInv'
<1>. SUFFICES ASSUME NEW k, k = conn[c], NEW n, n = Answer(k) PROVE IInv'
  OBVIOUS
<1>1. k.phase = "read" /\ ~Deadline(c) /\ Becomes(c, n)
  BY DEF Finish
<1>2. /\ k \in Connection /\ Bound(k) /\ Reason(k) /\ Awake(k) /\ Snapped(k)
      /\ life[k.lobby].revision \in Int /\ k.last \in Int /\ life[k.lobby].expires \in Int
      /\ k.snap \in Snapshots /\ k.snap.revision \in Int /\ k.snap.revision \in 0..MaxRevision
      /\ now \in Int /\ now < life[k.lobby].expires
  <2>1. k \in Connection /\ Bound(k) /\ Reason(k) /\ Awake(k) /\ Snapped(k) /\ now \in Int
        /\ life[k.lobby].revision \in Int /\ k.last \in Int /\ life[k.lobby].expires \in Int
    BY <1>1, StreamingType DEF Unbound
  <2>. QED
    BY <1>1, <2>1, ConnectionType DEF Deadline, Snapped
<1>. DEFINE s == k.snap
<1>3. ASSUME NEW said \in {k.said, "closed", "left"},
             n = [k EXCEPT !.phase = "over", !.snap = <<>>, !.said = said],
             said = "left" => LeftBefore(k),
             said = "closed" => Departed(k.gen) /\ life[k.lobby].state \in {"closed", "gone"}
      PROVE  IInv'
  <2>1. n \in Connection /\ Keeps(k, n) /\ n.phase = "over" /\ n.said = said
    BY <1>2, <1>3 DEF Connection, Keeps
  <2>2. Reason(n)
    BY <1>2, <1>3, <2>1 DEF Reason, Keeps, LeftBefore
  <2>3. Stream(n) /\ Awake(n)
    BY <1>2, <2>1, <2>2, KeepsBound DEF Stream, Unbound, Awake
  <2>. QED
    BY <1>1, <2>1, <2>3, BecomesStep
<1>4. CASE ~s.row
  <2>1. n = [k EXCEPT !.phase = "over", !.snap = <<>>, !.said = k.said]
    BY <1>4 DEF Answer
  <2>. QED
    BY <1>2, <1>3, <2>1 DEF Reason
<1>5. CASE s.row /\ s.closed
  <2>1. n = [k EXCEPT !.phase = "over", !.snap = <<>>, !.said = "closed"]
    BY <1>5 DEF Answer
  <2>. QED
    BY <1>2, <1>3, <1>5, <2>1 DEF Snapped
<1>6. CASE s.row /\ ~s.closed /\ ~s.member
  <2>1. n = [k EXCEPT !.phase = "over", !.snap = <<>>, !.said = "left"]
    BY <1>6 DEF Answer
  <2>. QED
    BY <1>2, <1>3, <1>6, <2>1 DEF Snapped
<1>7. CASE s.row /\ ~s.closed /\ s.member
  <2>1. /\ n \in Connection /\ n.phase = "waiting" /\ n.last = s.revision
        /\ n.gen = k.gen /\ n.lobby = k.lobby /\ n.until = k.until
        /\ n.inbox = k.inbox /\ n.lagged = k.lagged
        /\ n.said \in {k.said, "sync_required", "lobby_changed"}
    <3>1. CASE k.last = None \/ s.revision > k.last
      <4>1. n = [k EXCEPT !.phase = "waiting", !.snap = <<>>, !.last = s.revision,
                   !.said = IF k.last = None THEN "sync_required" ELSE "lobby_changed"]
        BY <1>7, <3>1 DEF Answer
      <4>. QED
        BY <1>2, <4>1 DEF Connection
    <3>2. CASE ~(k.last = None \/ s.revision > k.last)
      <4>1. n = [k EXCEPT !.phase = "waiting", !.snap = <<>>]
        BY <1>7, <3>2 DEF Answer
      <4>2. k.last = s.revision
        BY <1>2, <3>2 DEF Snapped
      <4>. QED
        BY <1>2, <4>1, <4>2 DEF Connection
    <3>. QED
      BY <3>1, <3>2
  <2>2. Bound(n)
    <3>1. s.revision <= life[k.lobby].revision
          /\ \A d \in departed : d[1] = k.gen => s.revision < d[2]
      BY <1>2, <1>7 DEF Snapped
    <3>. QED
      BY <1>2, <2>1, <3>1 DEF Bound
  <2>3. Reason(n)
    BY <1>2, <2>1 DEF Reason, LeftBefore
  <2>4. Awake(n)
    BY <1>1, <1>2, <2>1 DEF Awake, Seen, Hinted, Announced
  <2>. QED
    BY <1>1, <2>1, <2>2, <2>3, <2>4, BecomesStep DEF Stream, Unbound
<1>. QED
  BY <1>4, <1>5, <1>6, <1>7

-----------------------------------------------------------------------------
(* The theorems.                                                           *)

LEMMA InvariantInit == EventsInit => IInv
<1>. SUFFICES ASSUME EventsInit PROVE IInv
  OBVIOUS
<1>1. LifeInv
  BY LifeStart DEF EventsInit
<1>2. \A c \in Conns : conn[c] \in Connection /\ Stream(conn[c]) /\ Awake(conn[c])
  BY OffType, UnboundStream DEF EventsInit, Unbound
<1>3. EventsTypeOK
  BY <1>2 DEF EventsInit, EventsTypeOK
<1>. QED
  BY <1>1, <1>2, <1>3 DEF EventsInit, IInv, DepartedGone

LEMMA InvariantStep == IInv /\ [EventsNext]_allVars => IInv'
<1>. SUFFICES ASSUME IInv, [EventsNext]_allVars PROVE IInv'
  OBVIOUS
<1>1. CASE Commit
  BY <1>1, CommitStep
<1>2. CASE \E p \in pending : Publish(p) \/ LosePublication(p)
  BY <1>2, PublishStep, LoseStep
<1>3. ASSUME NEW c \in Conns, Serve(c) PROVE IInv'
  BY <1>3, OpeningStep, BindStep, TerminateStep, PhaseStep, HintStep, ReadStateStep, FinishStep
     DEF Serve
<1>4. CASE UNCHANGED allVars
  BY <1>4 DEF allVars, lifeVars, eventVars, IInv, LifeInv, EventsTypeOK, DepartedGone, Member,
              Stream, Unbound, Bound, Snapped, Reason, LeftBefore, Departed, Awake, Hinted,
              Announced, Seen
<1>. QED
  BY <1>1, <1>2, <1>3, <1>4 DEF EventsNext

\* In every state that a server and its store can reach, ids are never made
\* twice, a departed generation is no member, and each stream is consistent
\* with the store.
THEOREM Invariant == EventsSpec => []IInv
BY InvariantInit, InvariantStep, PTL DEF EventsSpec

\* Receivers hold no more hints than they have room for, and revisions,
\* generations, deadlines and reasons are what updates.rs declares them to be.
THEOREM TypeCorrect == EventsSpec => []EventsTypeOK
<1>1. IInv => EventsTypeOK
  BY DEF IInv
<1>. QED
  BY <1>1, Invariant, PTL

\* No wakeup is lost: a stream whose lobby moved on has a hint waiting, knows
\* that it missed one, or the publication is to come or was never made.
THEOREM HintsWake == EventsSpec => []HintsWakeReaders
<1>1. IInv => HintsWakeReaders
  BY DEF IInv, Awake, Hinted, Announced, HintsWakeReaders
<1>. QED
  BY <1>1, Invariant, PTL

\* A stream never reports a revision its generation did not live to see, however
\* late its snapshot is answered.
THEOREM NothingSeen == EventsSpec => []NothingSeenAfterLeaving
<1>1. ASSUME IInv, NEW c \in Conns, NEW d \in departed, d[1] = conn[c].gen
      PROVE  conn[c].last < d[2]
  <2>1. Stream(conn[c]) /\ d[1] \in 1..MaxMemberships /\ d[2] \in 1..MaxRevision
    BY <1>1 DEF IInv, EventsTypeOK
  <2>2. d[1] # NoGen
    BY <2>1, LifeAssumption DEF NoGen
  <2>. QED
    BY <1>1, <2>1, <2>2 DEF Stream, Bound
<1>2. IInv => NothingSeenAfterLeaving
  BY <1>1 DEF NothingSeenAfterLeaving
<1>. QED
  BY <1>2, Invariant, PTL

\* The reason a stream gives for its end is true of its generation: "left" is
\* never said of one that the closing of its lobby ended.
THEOREM ReasonsTrue == EventsSpec => []ReasonsAreTrue
<1>1. ASSUME IInv, NEW c \in Conns, NEW k, k = conn[c],
             NEW leftAt, leftAt = {d[2] : d \in {x \in departed : x[1] = k.gen}}
      PROVE  /\ k.said = "left" =>
                  \E r \in leftAt : life[k.lobby].state = "closed" => r < life[k.lobby].revision
             /\ k.said = "closed" => leftAt # {} /\ life[k.lobby].state \in {"closed", "gone"}
             /\ k.said = "expired" => now >= life[k.lobby].expires
             /\ k.said = "auth_expired" => now >= k.until
  <2>1. Reason(k)
    BY <1>1 DEF IInv, Stream
  <2>2. ASSUME NEW d \in departed, d[1] = k.gen PROVE d[2] \in leftAt
    BY <1>1, <2>2
  <2>. QED
    BY <2>1, <2>2 DEF Reason, LeftBefore, Departed
<1>2. IInv => ReasonsAreTrue
  BY <1>1 DEF ReasonsAreTrue
<1>. QED
  BY <1>2, Invariant, PTL

\* What watchers may build on (lobbies.rs): revisions and the clock never go back,
\* a deadline never moves, a closed lobby is never opened again and a deleted one
\* stays deleted, whoever enters is a new generation, and a generation that ends
\* before its lobby's deadline moves the lobby's revision.
THEOREM NothingReturns == LifeSpec => [][LifeMove]_lifeVars
<1>1. LifeSpec => []LifeInv
  BY LifeStart, LifeStep, PTL DEF LifeSpec
<1>2. LifeInv /\ [LifeNext]_lifeVars => [LifeMove]_lifeVars
  BY LifeStep
<1>3. QED
  BY <1>1, <1>2, PTL DEF LifeSpec
===============================================================================
