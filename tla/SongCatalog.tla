---------------------------- MODULE SongCatalog ----------------------------
(***************************************************************************)
(* The tables of database/catalog.rs: songs with their popularity, the     *)
(* text shown for them, saved searches, the daily budget of provider       *)
(* searches and the receipts of counted submissions.                       *)
(*                                                                         *)
(* Every transaction is one operator.  It takes the clock reading its      *)
(* caller made before it waited for the write lock, so two transactions    *)
(* may commit in the opposite order of their readings.                     *)
(*                                                                         *)
(* Titles, artists and matching are left out: a text is the moment it was  *)
(* fetched at.  Rows that are absent are Never, NoVideo or zero.           *)
(***************************************************************************)
EXTENDS Integers, FiniteSets

CONSTANTS
  Videos,
  Queries,      \* normalised search queries
  MaxEntries,   \* bound on the queue entries that are accepted
  NoVideo,
  Curated,      \* the videos of starter-songs.json
  Week,         \* lifetime of a saved search
  Month,        \* lifetime of provider text: 29 days in the code
  DayLength,    \* seconds in a UTC day
  DailyLimit,   \* provider searches a day
  MaxTime       \* bound on the clock

ASSUME CatalogAssumption ==
  /\ NoVideo \notin Videos
  /\ Videos # {} /\ Queries # {}
  /\ Curated \subseteq Videos
  /\ Week \in Nat \ {0} /\ Month \in Nat \ {0} /\ DayLength \in Nat \ {0}
  /\ DailyLimit \in Nat
  /\ MaxEntries \in Nat
  /\ MaxTime \in Nat

VARIABLES
  popularity,   \* catalog_songs.submission_count
  text,         \* catalog_metadata, source 'youtube': when it was fetched
  saved,        \* song_search_cache: when the results were retrieved
  usage,        \* song_search_daily_usage.attempts of every day
  receipt,      \* catalog_submission_receipts: the song an entry was counted for
  now           \* the server's clock in seconds

catalogVars == <<popularity, text, saved, usage, receipt, now>>

Never == -1
Entries == 1..MaxEntries   \* random ids in the code, in the order of acceptance here
Times == 0..MaxTime
Day(t) == t \div DayLength
Days == {Day(t) : t \in Times}

CatalogTypeOK ==
  /\ popularity \in [Videos -> Nat]
  /\ text \in [Videos -> Times \cup {Never}]
  /\ saved \in [Queries -> Times \cup {Never}]
  /\ usage \in [Days -> 0..DailyLimit]
  /\ receipt \in [Entries -> Videos \cup {NoVideo}]
  /\ now \in Times

CatalogInit ==
  /\ popularity = [v \in Videos |-> 0]
  /\ text = [v \in Videos |-> Never]
  /\ saved = [q \in Queries |-> Never]
  /\ usage = [d \in Days |-> 0]
  /\ receipt = [e \in Entries |-> NoVideo]
  /\ now = 0

-----------------------------------------------------------------------------
(* Reads.                                                                  *)

\* search_catalog_candidates: songs with provider text that has not expired,
\* or else with the curated text that never does.
Candidates(at) == {v \in Videos : v \in Curated \/ (text[v] # Never /\ text[v] + Month > at)}

\* cached_search.
Cached(q, at) == saved[q] # Never /\ saved[q] + Week > at

-----------------------------------------------------------------------------
(* Transactions.                                                           *)

\* Mutant: text that was fetched earlier replaces text that was fetched later.
UpsertAlways(videos, stamp) ==
  text' = [v \in Videos |-> IF v \in videos THEN stamp ELSE text[v]]

\* upsert_song for every one of the videos: text that is newer stays.
Upsert(videos, stamp) ==
  text' = [v \in Videos |-> IF v \in videos /\ stamp >= text[v] THEN stamp ELSE text[v]]

\* save_search: the text of every result and the results, together.
SaveSearch(q, videos, stamp) ==
  /\ Upsert(videos, stamp)
  /\ saved' = [saved EXCEPT ![q] = IF stamp > @ THEN stamp ELSE @]
  /\ UNCHANGED <<popularity, usage, receipt>>

\* reserve_search: an attempt, if one is left for the day of the reading.
Affordable(stamp) == usage[Day(stamp)] < DailyLimit

ReserveSearch(stamp) ==
  /\ Affordable(stamp)
  /\ usage' = [usage EXCEPT ![Day(stamp)] = @ + 1]
  /\ UNCHANGED <<popularity, text, saved, receipt>>

\* Mutant: the receipt is committed before the count.
RecordReceiptOnly(e, v, stamp) ==
  /\ receipt[e] = NoVideo
  /\ Upsert({v}, stamp)
  /\ receipt' = [receipt EXCEPT ![e] = v]
  /\ UNCHANGED <<popularity, saved, usage>>

\* record_submission of an entry that has no receipt yet: text, receipt and
\* count, together.  An entry that has one changes nothing.
RecordSubmission(e, v, stamp) ==
  /\ receipt[e] = NoVideo
  /\ Upsert({v}, stamp)
  /\ receipt' = [receipt EXCEPT ![e] = v]
  /\ popularity' = [popularity EXCEPT ![v] = @ + 1]
  /\ UNCHANGED <<saved, usage>>

\* cleanup_catalog, at start-up and every minute; songs, counts and receipts stay.
CleanupCatalog ==
  /\ text' = [v \in Videos |-> IF text[v] # Never /\ text[v] + Month <= now THEN Never ELSE text[v]]
  /\ saved' = [q \in Queries |-> IF saved[q] # Never /\ saved[q] + Week <= now
                                 THEN Never ELSE saved[q]]
  /\ UNCHANGED <<popularity, usage, receipt, now>>

CatalogTick ==
  /\ now < MaxTime
  /\ now' = now + 1
  /\ UNCHANGED <<popularity, text, saved, usage, receipt>>

-----------------------------------------------------------------------------
(* Properties.                                                             *)

\* Text that is shown is only ever replaced by text with a later reading:
\* saves that commit in the opposite order of their readings, of searches for
\* different queries or of submissions, leave the newest (upsert_song's WHERE),
\* and text only disappears once it has expired.
TextNeverGoesBack ==
  [][\A v \in Videos :
       text'[v] < text[v] => text'[v] = Never /\ text[v] + Month <= now]_catalogVars

\* A song is as popular as it has receipts, whichever records failed, timed
\* out or were repeated (record_submission's one transaction).
CountsAreReceipts ==
  \A v \in Videos : popularity[v] = Cardinality({e \in Entries : receipt[e] = v})
=============================================================================
