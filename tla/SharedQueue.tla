---------------------------- MODULE SharedQueue ----------------------------
(***************************************************************************)
(* What the queue of a lobby promises the people in it, without tables,    *)
(* votes or memberships: a list of entries.  An entry is appended at the   *)
(* end, once; the first entry is playing and is never displaced; the host  *)
(* may move one of the others; entries are taken out, never put back.      *)
(*                                                                         *)
(* The list operations are those the code applies to its Vec of ids in     *)
(* backend/src/database/queue.rs (push by count, remove/insert, retain).   *)
(***************************************************************************)
EXTENDS Naturals, Sequences, SequencesExt

CONSTANTS Lobbies, Entries

VARIABLES
  queue,  \* per lobby, the active entries in playing order
  past    \* every entry ever submitted, in any lobby

qvars == <<queue, past>>

QInit ==
  /\ queue = [l \in Lobbies |-> <<>>]
  /\ past = {}

Submit(l, e) ==
  /\ e \notin past
  /\ past' = past \cup {e}
  /\ queue' = [queue EXCEPT ![l] = Append(@, e)]

\* The playing entry, at index 1, is neither moved nor a destination.
Move(l, i, j) ==
  /\ i # j
  /\ queue' = [queue EXCEPT ![l] = InsertAt(RemoveAt(@, i), j, @[i])]
  /\ UNCHANGED past

\* e comes before f in q, which holds an entry at most once.
Before(q, e, f) == \E i, j \in DOMAIN q : i < j /\ q[i] = e /\ q[j] = f

\* r is what is left of q when the entries in taken are gone, in the same order.
Left(q, taken, r) ==
  /\ Range(r) = Range(q) \ taken
  /\ \A e, f \in Range(q) \ taken : Before(r, e, f) <=> Before(q, e, f)

\* Played, vetoed, voted out; a guest moving between lobbies may remove
\* entries from both, the end of a lobby removes them all.
Take(taken) ==
  /\ queue' \in [Lobbies -> Seq(Entries)]
  /\ \A l \in Lobbies : Left(queue[l], taken, queue'[l])
  /\ UNCHANGED past

QNext ==
  \/ \E l \in Lobbies : \/ \E e \in Entries : Submit(l, e)
                        \/ \E i, j \in 2..Len(queue[l]) : Move(l, i, j)
  \/ \E taken \in SUBSET past : Take(taken)

QSpec == QInit /\ [][QNext]_qvars
=============================================================================
