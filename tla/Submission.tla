----------------------------- MODULE Submission -----------------------------
(***************************************************************************)
(* The submission of a link to a queue (queue/mod.rs): authorise, look for *)
(* the receipt of an earlier delivery, ask the provider, commit the entry, *)
(* and count it in the song catalogue.  Deliveries of one request (the     *)
(* client retries with the same id) overlap, the membership may end while  *)
(* the provider is asked, and every step may fail or be cut short.         *)
(*                                                                         *)
(* The queue itself is LobbyStore; here it is the entries one membership   *)
(* has had accepted.  The wait for the provider takes up to five seconds,  *)
(* the record at most 250 ms: it is committed or given up.                 *)
(***************************************************************************)
EXTENDS SongCatalog

CONSTANTS
  Deliveries,   \* HTTP requests that may ever submit
  RequestIds    \* idempotency keys

ASSUME SubmissionAssumption == RequestIds # {}

VARIABLES
  delivery,     \* the HTTP requests
  accepted,     \* queue_entries of the membership: the request and video of an entry
  member        \* the membership generation is usable

submissionVars == <<delivery, accepted, member>>

NoEntry == 0

\* stamp: a moment no later than the reading for the catalogue record.
Delivery == [phase: {"idle", "receipt", "provider", "submit", "record", "answered"},
             request: RequestIds, video: Videos, entry: Entries \cup {NoEntry},
             changed: BOOLEAN, stamp: Times,
             outcome: {"none", "ok", "forbidden", "conflict", "failed"}]
Contribution == [request: RequestIds, video: Videos]

SubmissionTypeOK ==
  /\ CatalogTypeOK
  /\ delivery \in [Deliveries -> Delivery]
  /\ DOMAIN accepted \subseteq Entries
  /\ accepted \in [DOMAIN accepted -> Contribution]
  /\ member \in BOOLEAN

SubmissionInit ==
  /\ delivery = [d \in Deliveries |->
                   [phase |-> "idle", request |-> CHOOSE r \in RequestIds : TRUE,
                    video |-> CHOOSE v \in Videos : TRUE, entry |-> NoEntry,
                    changed |-> FALSE, stamp |-> 0, outcome |-> "none"]]
  /\ accepted = <<>>
  /\ member = TRUE

-----------------------------------------------------------------------------

In(d, phase) == delivery[d].phase = phase

\* receipt: the entry an earlier delivery of the request was given.
Prior(r) == {e \in DOMAIN accepted : accepted[e].request = r}

Advance(d, phase) == delivery' = [delivery EXCEPT ![d].phase = phase]

Conclude(d, outcome, entry) ==
  delivery' = [delivery EXCEPT ![d] = [@ EXCEPT !.phase = "answered", !.outcome = outcome,
                                                !.entry = entry, !.stamp = 0]]

\* queue_view authorises; only then the link is looked at.
Submit(d, r, v) ==
  /\ In(d, "idle")
  /\ delivery' = [delivery EXCEPT
       ![d] = [@ EXCEPT !.phase = IF member THEN "receipt" ELSE "answered",
                        !.request = r, !.video = v,
                        !.outcome = IF member THEN "none" ELSE "forbidden"]]
  /\ UNCHANGED <<catalogVars, accepted, member>>

\* The same request with another video is refused.
Replay(d) ==
  \E e \in Prior(delivery[d].request) :
    IF accepted[e].video = delivery[d].video THEN Conclude(d, "ok", e)
    ELSE Conclude(d, "conflict", NoEntry)

\* queue_receipt.
CheckReceipt(d) ==
  /\ In(d, "receipt")
  /\ IF ~member THEN Conclude(d, "forbidden", NoEntry)
     ELSE IF Prior(delivery[d].request) # {} THEN Replay(d)
     ELSE Advance(d, "provider")
  /\ UNCHANGED <<catalogVars, accepted, member>>

\* The provider knows the video.
LookUp(d) ==
  /\ In(d, "provider")
  /\ Advance(d, "submit")
  /\ UNCHANGED <<catalogVars, accepted, member>>

\* The entry the next commit makes.
NewEntry == Cardinality(DOMAIN accepted) + 1

Accept(d, e) ==
  /\ e \in Entries
  /\ accepted' = [x \in DOMAIN accepted \cup {e} |->
                    IF x = e THEN [request |-> delivery[d].request, video |-> delivery[d].video]
                    ELSE accepted[x]]
  /\ delivery' = [delivery EXCEPT ![d].phase = "record", ![d].entry = e,
                                  ![d].changed = TRUE, ![d].stamp = now]

\* Mutant: the receipt of the first lookup is trusted.
CommitUnchecked(d) ==
  /\ In(d, "submit")
  /\ IF ~member
     THEN Conclude(d, "forbidden", NoEntry) /\ UNCHANGED accepted
     ELSE Accept(d, NewEntry)
  /\ UNCHANGED <<catalogVars, member>>

\* Mutant: the authorisation of before the lookup is trusted.
CommitUnauthorised(d) ==
  /\ In(d, "submit")
  /\ IF Prior(delivery[d].request) # {}
     THEN Replay(d) /\ UNCHANGED accepted
     ELSE Accept(d, NewEntry)
  /\ UNCHANGED <<catalogVars, member>>

\* submit_queue: authorised again, the receipt looked up again, one write.
Commit(d) ==
  /\ In(d, "submit")
  /\ IF ~member
     THEN Conclude(d, "forbidden", NoEntry) /\ UNCHANGED accepted
     ELSE IF Prior(delivery[d].request) # {}
     THEN Replay(d) /\ UNCHANGED accepted
     ELSE Accept(d, NewEntry)
  /\ UNCHANGED <<catalogVars, member>>

\* Storage or provider failed before the entry was accepted.
SubmitFails(d) ==
  /\ delivery[d].phase \in {"receipt", "provider", "submit"}
  /\ Conclude(d, "failed", NoEntry)
  /\ UNCHANGED <<catalogVars, accepted, member>>

\* record_submission, with a clock reading made after the entry was accepted.
Record(d) ==
  LET q == delivery[d] IN
  /\ In(d, "record")
  /\ \E stamp \in q.stamp..now : RecordSubmission(q.entry, q.video, stamp)
  /\ Conclude(d, "ok", q.entry)
  /\ UNCHANGED <<now, accepted, member>>

\* It failed or took 250 ms; the submission succeeded all the same.
RecordFails(d) ==
  /\ In(d, "record")
  /\ Conclude(d, "ok", delivery[d].entry)
  /\ UNCHANGED <<catalogVars, accepted, member>>

\* The client hung up or the process died; its commits stay.
Abandon(d) ==
  /\ delivery[d].phase \notin {"idle", "answered"}
  /\ Conclude(d, "failed", NoEntry)
  /\ UNCHANGED <<catalogVars, accepted, member>>

\* The generation leaves, is transferred, closed or expires.  Only deliveries
\* under way could tell.
Leave ==
  /\ member
  /\ \E d \in Deliveries : delivery[d].phase \notin {"idle", "answered"}
  /\ member' = FALSE
  /\ UNCHANGED <<catalogVars, delivery, accepted>>

SubmissionNext ==
  \/ \E d \in Deliveries :
       \/ \E r \in RequestIds, v \in Videos : Submit(d, r, v)
       \/ CheckReceipt(d) \/ LookUp(d) \/ Commit(d) \/ SubmitFails(d)
       \/ Record(d) \/ RecordFails(d) \/ Abandon(d)
  \/ Leave

-----------------------------------------------------------------------------
(* Properties.                                                             *)

\* However the deliveries of a request overlap, all that succeed name the same
\* entry with the video they asked for, and only the one whose commit made it
\* is told that something changed.
DeliveriesAgree ==
  \A d, k \in Deliveries :
    LET p == delivery[d]
        q == delivery[k]
    IN
    /\ p.entry # NoEntry => p.entry \in DOMAIN accepted /\ accepted[p.entry].video = p.video
    /\ p.entry # NoEntry /\ q.entry # NoEntry /\ p.request = q.request => p.entry = q.entry
    /\ p.changed /\ q.changed /\ p.request = q.request => d = k

\* Nothing enters the queue of a membership that ended while its submission
\* waited for the provider (submit_queue authorises again in its transaction).
DepartedAddNothing == [][accepted' # accepted => member]_<<accepted, member>>

\* A song is as popular as it has receipts, and every receipt is of an entry
\* that was accepted with that video: retries, timeouts and crashes may leave
\* an entry uncounted but never count one twice or count a refused one.
PopularityIsEarned ==
  /\ CountsAreReceipts
  /\ \A e \in Entries :
       receipt[e] # NoVideo => e \in DOMAIN accepted /\ accepted[e].video = receipt[e]
=============================================================================
