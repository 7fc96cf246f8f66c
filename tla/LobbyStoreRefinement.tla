------------------------ MODULE LobbyStoreRefinement ------------------------
(***************************************************************************)
(* The store implements the list of SharedQueue and the lives of lobbies   *)
(* and membership generations of LobbyLife.                                *)
(***************************************************************************)
EXTENDS LobbyStore, TLC

\* ORDER BY position: the entry of row i + 1 is the one at position i.
Listed(ord) == [i \in 1..Cardinality(DOMAIN ord) |-> CHOOSE e \in DOMAIN ord : ord[e] = i - 1]

Promise == INSTANCE SharedQueue WITH
  Entries <- 1..MaxEntries,
  queue <- [l \in Lobbies |-> Listed(order[l])],
  past <- 1..issued.entry

\* Whatever members, votes, policies, closures and expiry do, each lobby's
\* queue behaves as a list: the renumbering of replace_order is Vec::retain,
\* the shifts of move_queue are Vec::remove and Vec::insert, count(*) is push.
ImplementsSharedQueue == Promise!QSpec

Life == INSTANCE LobbyLife WITH
  life <- lobbies,
  members <- memberships,
  made <- [lobby |-> issued.lobby, membership |-> issued.membership]

\* Every transaction is one of the few steps a watcher has to reckon with:
\* a revision never goes back, no departure from a usable lobby leaves it
\* where it was, and no lobby or generation returns once it has ended.
ImplementsLobbyLife == Life!LifeSpec

Symmetry == Permutations(Users) \cup Permutations(Requests)
=============================================================================
