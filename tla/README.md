# Crescend: TLA+ models, checks and proofs

Crescend is a shared jukebox. Signed-in users create or join a *lobby*, submit
YouTube songs to its queue, guests vote songs out, and the host's page plays the
first one. The backend (Rust, axum, SQLite through sqlx) keeps all state in one
database; the frontend (Next.js, TypeScript) keeps a view of it that is refreshed
by hints on an event stream.

This directory holds TLA+ modules of that system, TLC configurations for small
instances, and theorems that TLAPS proves for every instance. `PROJECT.json` is
the index: components, runs, the source lines every definition stands for, the
hazards the properties are aimed at, and the theorems.

## The system

| Component | Source | State it keeps | Operations |
| --- | --- | --- | --- |
| Lobby store | `database/lobbies.rs` | tables `lobbies`, `lobby_memberships` | create, join (and transfer), leave, close, current, bound stream state |
| Queue store | `database/queue.rs` | `queue_entries`, `queue_order`, `queue_votes`, `lobby_queue_policies` | submit, move, vote, set policy, advance, veto, view |
| Cleanup | `database.rs` | – | every minute: deletion of expired lobbies, refresh sessions, catalogue rows |
| Update hub | `lobbies/updates.rs` | a broadcast channel of 256 hints | publish after commit, subscribe |
| Event streams | `lobbies/updates.rs`, `routes/lobbies.rs` | per connection: receiver, last revision, timers, deadlines | bind, wait, read, report, end |
| Client session | `frontendUI/app/lib/queue-state.ts` | membership, queue, epoch, flight/dirty, busy, pending end | sync, mutate, leave, stream callbacks |
| Submission | `queue/mod.rs` | – | authorise, look for a receipt, ask YouTube, commit, record in catalogue |
| Refresh sessions | `auth/refresh.rs`, `database.rs` | `refresh_sessions`, `refresh_tokens` | issue, rotate, revoke |
| Browser auth | `lib/auth-coordinator.ts`, `lib/auth.ts` | per tab: token, epoch, stopped; origin: lock, stop flag | refresh, stop, logout, apiFetch |
| Login attempts | `auth/transactions.rs` | bounded table of attempts | start, consume |
| Provider keys | `auth/google.rs` | key cache | keys |
| Song search | `search/mod.rs` | shared flights per query | search, discover, the flight's task |
| Song catalogue | `database/catalog.rs` | songs and their counts, text, saved searches, daily budget, receipts | reserve, save, record a submission, clean up |

How they interact:

* Routes call one store transaction and then *publish* `(lobby, revision)` on the
  hub if it changed something. A transfer publishes for both lobbies. The hint is
  sent after the commit, in the handler's task: it can come late, in another order
  than the commits, or never.
* A stream subscribes to the hub first and only then looks up its membership. It
  reads the store when a hint of its lobby comes, when it lagged, or after one
  second, and reports a revision or the end of the membership.
* The client treats every event as "read again": it reads the current membership,
  then the queue, and applies the answers only if its *epoch* (version and
  membership) has not changed.
* Lobby transactions re-evaluate votes, because the guests determine the majority.
* A submission asks YouTube between two transactions of the queue and is counted in
  the catalogue afterwards. A search reads the catalogue, pays for a provider search
  and writes the same songs' text. Each takes its clock reading before it waits for
  the write lock.
* The tabs of a browser share the refresh cookie, a Web Lock around refresh and
  logout, and a stop key; a broadcast tells the others that one of them stopped.
* A login is an attempt in a table, a redirect to Google, a callback in the same
  browser, a code exchange and a look at Google's cached keys, and ends with a
  refresh session.

What is hard: transactions that touch two lobbies; votes whose effect depends on
who is present; three different times at which a lobby ends (its owner closes it,
its deadline passes, cleanup deletes it); hints that are delayed, reordered,
dropped by a full receiver or lost; reads that were started before the state they
report changed; client continuations that run after the membership they belong to
ended; cookies that are replayed after
their answer was lost; tabs that share one cookie and hear of each other late;
answers of a third party that arrive after the caller has left, ran out of time or
lost its right to ask; tasks that are cancelled at any await. What makes each component correct is listed with its module below.

## Modules

```
LobbyStore ------------------ LobbyStoreProofs (invariants)
  |                              \-- LobbyStoreStepProofs (steps and both refinements)
  \-- LobbyStoreRefinement --> SharedQueue   (abstract: one list per lobby)
                       \-----> LobbyLife     (abstract: lives of lobbies and generations)
                                  |
                               LobbyEvents (hub and streams over LobbyLife)
                                  |-- MCLobbyEvents
                                  \-- LobbyEventsProofs
QueueSession (client; its server is what LobbyEvents and LobbyStore promise)
  \-- QueueSessionProofs

SongCatalog (tables) <-- SongSearch  \
            ^----------- Submission ---> SongService (both over one catalogue)
                                           \-- SongServiceProofs

RefreshSessions ------------- RefreshSessionsProofs
  |-- MCRefreshSessions          \-- AuthTabsProofs
  \-- AuthTabs (the tabs of a browser over the server) -- MCAuthTabs
SignIn (login attempts, callback, key cache) -- MCSignIn, SignInProofs
```

`TypeOK` and its namesakes state what the variables hold, and all of them are
proved. The runs check those of LobbyStore and RefreshSessions only.

### LobbyStore

One action per writing transaction of `lobbies.rs` and `queue.rs`, one for the
cleanup of lobbies and one for the clock. All writers use `BEGIN IMMEDIATE`, so
SQLite runs them one at a time and a transaction is one step. The variables are
the tables: `lobbies` (with state `free`, `open`, `closed`, `gone`),
`memberships`, `policy`, `entries`, `order` (active entry to position), `votes`,
`issued` (ids handed out) and `now`.

Requests that are refused, busy or fail are rolled back and are stuttering steps;
what matters of them is that the guards are the code's conditions. Positions are
the rows' numbers, rewritten by `Retain` and `Shift` the way `replace_order` and
the `Vec` operations do. A receipt for an already used request id changes nothing,
and so does joining the lobby one is in or voting twice.

Correct means: a user is in at most one lobby; no row outlives its lobby; a usable
lobby has its host; no active entry has the votes that remove it; the rows are the
list of `SharedQueue` (so positions stay in order, survivors keep theirs and nothing
is moved over the playing entry); a revision counts exactly the visible changes;
nothing removed returns. Two things these do not see: `Take` may remove any entries, so
that one song is not skipped twice rests on `Advance`'s guard (the request names the
entry it means); and a retry whose receipt was overlooked would be a new entry, which
is what `DeliveriesAgree` of Submission is for.

### SharedQueue, LobbyStoreRefinement

`SharedQueue` is what the queue is for: per lobby, a list to which submissions are
appended, in which the host moves an upcoming entry, and from which entries are
taken for good. `Take` says of what is left that it is held once and stands in the
old order (`Left`, `Before`); taking nothing is a stutter. `LobbyStoreRefinement`
maps the order table to that list: the entry at each position. That the positions
are those of a list, 0 to n-1 with one entry each, is itself proved
(`OrdersAreLists`), and so is that every step of the store is one of these or
leaves the list alone.

### LobbyLife

`LobbyLife` is what watchers may assume: a lobby opens once, its revision counts,
it is closed by its host or expires, it is deleted and never returns; a membership
generation ends once. `LobbyStoreRefinement` shows that the store implements it, and
`LobbyEvents` is built on it, so the streams are checked against a small state
space that still contains everything the store can do to them.

### LobbyEvents

The hub and the server side of the streams. A committed change goes to `pending`;
`Publish` takes any of them, so publications overtake each other, and
`LosePublication` drops one. A stream is a record with the phase it is suspended
in: `subscribed` (before `stream_membership`), `waiting` (the `select!`),
`reading` (the query is under way), `read` (it has returned, the task has not run
on), `over`. Between any two phases anything else may happen. `Receive` is the
tokio broadcast channel: a full receiver loses its oldest hint and knows it. Each
stream has the token's deadline (`until`) and the lobby's.

`departed` is a history variable: the revision at which each generation ended.

### QueueSession

The class of `queue-state.ts`, one action for what runs between two awaits
(an answer and the microtasks that follow it in the same task are one step). The server is
reduced to what the class can tell apart: the user's generation, its lobby's
revision and the playing entry, changed at any time by others. A request is
answered in one step (`AnswerFlight`, `AnswerOp`) and its continuation runs in a
later one (`Resume...`), or it fails in either direction. Epochs are modelled by
what they are compared for: whether they still are the session's. `version` only
grows, so a passed epoch never returns.

The viewer is an identified host, who has every operation of a guest and more;
`isHost()` and the identity request only remove behaviour (the request itself is a
step, since the membership may change while it runs). `loading` and `syncError`
decide which button the page shows (`SyncByHand`): nobody can ask for a read during the
first one. `hinted` is history, for finding 2. The saved submission attempt
only decides which request id a retry carries; what retries may do is checked in
Submission. Operations other than advance
and leave are one action, `Mutate`: they run through the same `mutate`.

### RefreshSessions

The tables `refresh_sessions` and `refresh_tokens`, the requests that use them and
the refresh cookie of every browser. A request goes through `sent` (it left with
the cookie of that moment), `done` (its one transaction has run: `CreateSession`,
`Rotate`, `Reject`, `RejectReused`, `Revoke` or `Fail`), `answered` (the handler
has built the response, with the clock read once more) and `closed` (the browser
has applied its Set-Cookie). Between any two of these, every other request may do
anything. A request or an answer that is lost, or whose process died, is one that
never takes its next step, so loss needs no action. Nothing forbids the same
cookie from being sent several times: that is what a reload, a retry or a second
tab without the lock does, and what the server has to cope with.

`issued` is a history variable: the account, the first credential (`root`) and the
deadline of the login every credential descends from. A credential stands for its
hash and is fresh when made (256 random bits). Row ids are *not* fresh: without
`AUTOINCREMENT`, SQLite gives a new row one more than the largest id in use, so an
id whose session was deleted is given again (`IsNextId`). Google's part of a login
is the choice of a user, or `Fail`.

Correct means: a stored session always has exactly one credential that was not
used; no credential is granted two refreshes; a refusal is final; a credential
refreshes only its own account, reused row ids or not; a session is revoked only
for what its own credentials did; rotation never moves the deadline; and once a
logout is done or a refresh refused, nothing that descends from that login is
granted anything.

### SongCatalog, SongSearch

`SongCatalog` has the tables of `catalog.rs` and one operator per transaction. Titles
and matching are left out: the text of a song is the moment it was fetched at, and a
`stamp` is the clock reading its writer made earlier.

`SongSearch` is the service on top. A request answers from the catalogue, joins the
flight of its query or starts one. A flight is a task of its own that steps from await
to await: `lookup` (saved results), `reserve` (the daily budget), `request` (the
provider), `publish` (to the watch channel), `save`, `done` (the channel says so) and
`removed` (it left the map). The deadline of 4.5 seconds is the flag `late`, set at
any moment: then a pending await may be cut short, and whatever completes first still
counts. A write that was cut short may have committed. The completion that `Drop`
does is split in its two effects, because a caller can come in between. `Restart`
ends all tasks and callers and runs the start-up maintenance.

Correct means: the provider is never asked without a reservation or beyond the
limit, and by one flight per query; results that were published reach every caller
that is answered afterwards; no flight stays in the map and no caller waits forever,
although the provider may never answer; newer text is never replaced by older.

### Submission, SongService

`Submission` is `queue::submit`: `receipt`, `provider`, `submit`, `record`, each a
step of its own, any number of deliveries of the same request at once. The queue is
reduced to the entries one membership had accepted, numbered in the order of
acceptance (ids are random in the code), and the membership to whether it is usable.
`record_submission` stamps the text with its own clock reading although the metadata
was looked up earlier; the model does as the code does.

Correct means: deliveries of a request name one entry with the video they asked for;
nothing enters the queue of a membership that ended during the provider call; a
song's count is the number of its receipts, and every receipt is of an accepted
entry.

`SongService` lets both run over one catalogue, whose text they both write.

### SignIn

The table of `transactions.rs` (an attempt's number stands for state, nonce and
binding, three random values made together), the handlers `start` and `callback`, the
login cookie, and `google.rs`: a request is in `start`, `callback`, `exchange`,
`keys` (it has read the clock and waits for the cache's mutex), `fetch` (it holds the
mutex and waits for Google) or `started`/`ended` (the answer is under way). `HangUp`
drops a handler at any of them, which leaves a begun fetch marked as failed. Anyone
may open the address of a callback, in any browser and again.

Correct means: an unexpired attempt leaves the table only through its browser and is
used once; a start is refused only when the table is full of unexpired attempts of
others; and a login's verdict is true of its token and of the keys.

What the model shows and no property judges: with a lifetime of zero every other
login within five seconds of a fetch gets 503, and a key that Google starts to use
within five seconds of a fetch gets 401. `start` and `callback` read the clock just
before they lock the table; here reading and locking are one step. The clock reading by which the keys are
judged is made before the wait for the mutex; the token's expiry is judged by a later
one.

### AuthTabs

The `AuthCoordinator` of every page over the server of RefreshSessions, with one
cookie jar: `wants` (a refresh or logout that is queued or under way), `flights` (the
holder of the Web Lock, which the browser grants in any order), `stopKey` and
`notices` (the tabs that a broadcast has yet to reach). A page can be closed,
reloaded or left for a sign-in at any moment. A coordinator never starts again once
stopped, so comparing epochs is comparing `stopped`; the two tests of `allowed()`
around the reading of the body are one (a stop between them is a stop before
`TakeToken`). A server error is a fetch that fails. The browser starts with the
cookie of an earlier login. `TimePasses` is the server's clock, its cleanup and the
end of the cookie's Max-Age: a session may expire between a refresh and its answer,
and its rows and its cookie may go at any moment after that.

Correct means: tabs do not make the server see a credential twice, and after a stop
no tab refreshes or takes a token until somebody signs in. `excused` names the
exceptions of the first, which are the code's: a page that went, or was told to stop,
while it waited for an answer; and whatever was under way when a sign-in began. The
first means that a page that is reloaded in the middle of a refresh sends the cookie
again and loses the session. The other notable behaviours that the model contains: a
sign-in is not broadcast, so a tab that never stopped goes on with the old account's
token until it expires; and a logout that waits for the lock is dropped when its own
page leaves to sign in.

## Runs

Every passing run finishes; each property has a mutant, an operator with a
plausible bug (named in a `Mutant:` comment beside the definition it varies) under
which TLC finds it violated.

| Run | Question | Bounds |
| --- | --- | --- |
| `store_transfers` | Are memberships, rows, votes and revisions of two lobbies consistent through transfers, closing, expiry and cleanup, and does the store implement `LobbyLife`? | 2 lobbies, transfers in both directions, a stale membership, a majority that changes by arrivals and departures |
| `store_queue` | Does one queue implement a list, and do consumed entries never return? | 1 lobby, 4 entries (a move passes over two others), all policies, departures |
| `events_hints` | Is a wakeup ever lost, does a departed generation see anything? | 3 users, 2 lobbies, receiver of one hint, one lost publication |
| `events_live` | Is the reason a stream ends with true, is every change reported, does access end? | token and lobby deadlines inside the clock's range, 4 revisions, fairness below |
| `events_left` | (violation) finding 1 | |
| `session_safe` | Do late answers show the wrong queue, restore an ended membership, or go back? | 2 generations, 2 revisions each, one failure anywhere, restarts of the view |
| `session_live` | Does the page catch up, give controls back, pass on the end of a song? | 1 generation, fairness below |
| `session_hint` | (violation) finding 2 | |
| `sessions_safe` | Do replayed, overtaken and lost refresh requests ever give access they should not, or end a session without cause? | 4 requests, 3 credentials (a login and two rotations, or a second login), 2 users, 2 row ids, lifetime and clock of 2 ticks |
| `song_services` | Is the provider asked within the budget, do published results arrive, do searches end, do deliveries agree, are counts earned, does newer text stay? | 2 searches or submissions in any mix, 2 flights, 2 queries, 2 videos (one curated), a budget of one a day, two days, every lifetime expires within the clock |
| `sign_in` | Are attempts used once and by their browser, is a full table really full, are verdicts true? | 2 browsers, 2 requests at a time, 3 attempts for a table of 1, 2 keys, clock of 2 with tokens, attempts, cached keys and the throttle expiring within it |
| `auth_tabs` | Do tabs keep the session they share, and does a stop hold in all of them? | 2 tabs, 2 requests, 3 credentials, a sign-in again, sessions that expire |

The bounds are the constants of the modules: `Max...` limits counters that grow
forever in the code, and is a guard of the action that counts. They are chosen so
that every interesting case occurs: two lobbies suffice because no transaction
touches three; four entries because a move's interval then has an inside and an
outside; a receiver of one hint because overflow then happens at once; one failure
because recovery from it is complete before a second one matters, and a second
generation because a third is no different to the first than the second is. For
refresh sessions, four requests allow a login, two refreshes that carry the same
cookie and whatever they have to be ordered against; what more requests could do
is covered by the proofs. For `song_services`, two clients make every pair: two
searches of one query or of two (a shared flight, two writers of one text), a search
and a submission, two deliveries of one request or of two; a budget of one makes the
second search of a day the one too many. For `sign_in`, a table of one is full after
one attempt and three attempts allow one to be abandoned, replaced and refused; with
two requests, one waits for the keys while the other fetches or hangs up. For
`auth_tabs`, two requests are any two of a refresh whose outcome is in doubt, its
replay, another tab's refresh, a logout and a sign-in; longer histories are covered by
the proofs, and a third tab would only be one more that queues for the lock.
`MaxRevision` is also `i64::MAX` of the code: both refuse to count further.

`CHECK_DEADLOCK FALSE` is set because the systems may stop: a store nobody calls
does nothing, and the models stop when their bounded ids are used up.

Time: `now` only grows (the code reads the wall clock and assumes as much; a clock
that steps back is not modelled). Several reads of the clock in one transaction
are one, the last before `COMMIT`.

## Fairness

* `LobbyEvents`: weak fairness of a stream's timer, read, continuation and
  deadline. Tokio polls a woken task, `sleep` fires, and SQLite answers or fails.
  *No* fairness for hints: `ChangesAreReported` holds because of the one-second
  read alone, which is what makes lost publications harmless. None for the clock.
* `SongSearch`: weak fairness of a flight's deadline, of what a late flight does next
  (give up, or go on if it is past the provider), of its removal, and of a waiting
  caller's answer: timers fire and tokio polls woken tasks. *None* for the provider,
  for a lookup or a save that succeeds, or for clients that hang up: `SearchesEnd`,
  that every flight leaves the map and every waiting caller is answered,
  holds although the provider may never answer.
* `QueueSession`: weak fairness of answers and continuations of requests, stream
  and operations: a `fetch` settles, timers fire. None for the user, the other
  clients, or failures.

A timer is enabled whenever the code has armed it; its duration is not modelled.

## Proofs

Each module of proofs EXTENDS the module it is about and proves its theorems for all
values of the constants that satisfy the named assumptions below. They exclude only
what the code excludes: placeholders are no members, ids, lifetimes and counts are
numbers, and those that the code takes to be positive are.

| Assumption | What else it says, and why |
| --- | --- |
| `StoreAssumption`, `LifeAssumption` | finitely many users; there is room for a lobby and a revision |
| `CatalogAssumption`, `SubmissionAssumption` | there is a video, a query and a request id (a record of a request names one) |
| `SignInAssumption` | the table of attempts has room for one (`auth/mod.rs` makes room for 4096) |
| `TabsAssumption` | one browser (tabs share a jar because they are in the same one); row id 1 exists, SQLite's first |

**LobbyStoreProofs**

| Theorem | Property |
| --- | --- |
| `TypeCorrect` | `TypeOK` |
| `MembershipUnique` | `OneMembershipPerUser` |
| `NoOrphans` | `NoOrphanRows` |
| `HostStays` | `HostIsPresent` |
| `VotesTakeEffect` | `NoQualifyingEntry` |

The inductive invariant is

    IInv == TypeOK /\ FreshIds /\ NoOrphanRows /\ OneMembershipPerUser
                   /\ HostIsPresent /\ NoQualifyingEntry

`FreshIds` (every id in a table was issued, and a lobby is `free` exactly until it
is issued) is what makes a creation not overwrite anything and a new entry not
carry old votes. `NoOrphanRows` is needed by `NoQualifyingEntry` (a new entry has
no votes) and by `HostIsPresent` (no membership in a closed lobby).
`HostIsPresent` needs `OneMembershipPerUser`: a host that joins elsewhere would
have to have no other membership. For `NoQualifyingEntry` there is one lemma that
re-evaluation leaves nothing that qualifies, one that fewer rows or entries of
*another* lobby do not matter, and then one step per action. The proof has a step
per action and, under it, one per conjunct the action can disturb.

**LobbyStoreStepProofs**

| Theorem | Property |
| --- | --- |
| `ImplementsLife` | `ImplementsLobbyLife` |
| `ImplementsQueue` | `ImplementsSharedQueue` |
| `OrdersAreLists` | positions are 0 to n-1, one entry each |
| `ConsumedStaysOut` | `ConsumedNeverReturns` |
| `RevisionCounts` | `RevisionCountsChanges` |

The first refinement is a step simulation: one lemma per transaction names the step
of `LobbyLife` it is. The second needs `OrderIsList` besides `IInv`. `order` is a
table of numbers that `Retain`, `Shift` and an append rewrite, and only as long as
they are a list is "the entry at position i" defined. A submission is shown to be
`Submit`, a move to be a removal and an insertion of the list (`ListedShift`), and
everything else to *thin* the queues: fewer entries, in the same order. Thinned queues
are one `Take` of whatever is gone (`ThinnedIsTake`), even where a transfer takes from
two lobbies. `RevisionCounts` needs no more
than `IInv`: `Bump` moves a revision once per transaction, and the lemma
`StepCounted` says, transaction by transaction, that what members see changed exactly
where it did.

**LobbyEventsProofs**

| Theorem | Property |
| --- | --- |
| `HintsWake` | `HintsWakeReaders` |
| `NothingSeen` | `NothingSeenAfterLeaving` |
| `ReasonsTrue` | `ReasonsAreTrue` |
| `TypeCorrect` | `EventsTypeOK` |
| `NothingReturns` | every step of `LobbyLife` is a `LifeMove`: nothing goes back or returns |

    IInv == LifeInv /\ EventsTypeOK /\ DepartedGone
                    /\ \A c \in Conns : Stream(conn[c]) /\ Awake(conn[c])

`LifeInv` is the part of the store that streams rely on: ids are made in order, and a
member's lobby was not closed. `DepartedGone`: a generation in the history of
departures is no member any more. `Stream` says what a connection knows. `Bound`: its
generation, if it departed, did so at a revision above any the stream has reported, and
one that is gone although its lobby was closed or has not expired did depart.
`Snapped`: what a read brought was true when it read, and what was over then is over
now. `Reason`: a reason that was given is true. `Awake` is `HintsWakeReaders` for one connection. Its
hard case is the full receiver: dropping the oldest hint sets `lagged`, which wakes
the stream as well. That streams see a behaviour of
`LobbyLife` holds by construction (`Commit` is its `LifeNext`); that the store gives
them nothing else is `LobbyStoreStepProofs.ImplementsLife`.

**QueueSessionProofs**

| Theorem | Property |
| --- | --- |
| `QueueBelongs` | `QueueBelongsToMembership` |
| `EndedStaysAway` | `EndedNeverReturns` |
| `NeverBack` | `ViewNeverGoesBack` |
| `TypeCorrect` | `TypeOK` |

    IInv == ServerInv /\ Whole(s) /\ Truthful(s, server.gen, server.last, told)
                      /\ types of player and failures

`Whole`: the queue on screen names the membership on screen, and an operation or a
stream exists only for one. `Truthful` is the strengthening: an answer to a departure
and an `ended` event come after the generation ended, and *an answer that would still
be believed names no generation the session was told had ended*. That is what
comparing epochs is for, and `EndedNeverReturns` is not inductive without it. Every
method of the class has one lemma (`...Keeps`) that it leaves a session whole and
truthful, and the actions only compose them.

**SongServiceProofs**

| Theorem | Property |
| --- | --- |
| `AskedSparingly` | `ProviderAskedSparingly` |
| `DeliveriesName` | `DeliveriesAgree` |
| `PopularityEarned` | `PopularityIsEarned` |
| `TextAdvances` | `TextNeverGoesBack` |
| `DepartedAdd` | `DepartedAddNothing` |
| `FreshReaches` | `FreshReachesCallers` |
| `TypeCorrect` | `ServiceTypeOK` |

    SearchInv     == types /\ Sound(every flight) /\ a flight in the map is its query's
                           /\ requests sent <= reservations of the day
    SubmissionInv == types /\ EntriesFit /\ Names(every delivery) /\ ChangedOnce
                           /\ PopularityIsEarned
    ServiceInv    == SearchInv /\ SubmissionInv

`Sound` ties a flight's outcome to its phase, so that one that has published keeps its
results to the end. That a flight in the map is the one its query names makes two
attempts at one query impossible. `EntriesFit` (entries are numbered without gaps and a
request has at most one) and `Names` (what a delivery holds is its request's entry)
give agreement, `ChangedOnce` that only one delivery is told of a change. Both parts write one catalogue, so each has a frame
lemma: searches leave counts and receipts alone, submissions the budget and the saved
results.

**RefreshSessionsProofs**

| Theorem | Property |
| --- | --- |
| `TypeCorrect` | `TypeOK` |
| `OneCurrent` | `OneCurrentToken` |
| `SpentOnce` | `CredentialSpentOnce` |
| `RefusalFinal` | `RefusedMeansOver` |
| `KeepsUser` | `CredentialKeepsUser` |
| `ForCause` | `RevokedForCause` |
| `DeadlineFixed` | `DeadlineNeverMoves` |
| `EndedGrantsNothing` | `EndedLoginGrantsNothing` |

    IInv == TypeOK /\ Tables /\ Cookies /\ Outcomes
                   /\ GrantedSpent /\ EndedIsOver /\ CredentialSpentOnce /\ RevokedForCause

`Tables` ties the two tables to the history: stored credentials have a session
(`TokensHaveSessions`) whose row says what the login said (`RowsOfLogin`), two
stored credentials have the same session exactly if they have the same login
(`LoginIsSession`), and the credentials of a login are all stored or all deleted
(`LoginsWhole`). The last two are what a reused row id could break, and what lets a
refusal of one credential speak for all others of its login. `GrantedSpent` says a
granted refresh left its credential consumed; from that a second grant is
impossible. `EndedIsOver` adds logouts to `RefusedMeansOver`. Two lemmas carry the
steps: `RowsOnlyAge` (a row that stays only gets revoked or consumed, and no
deleted credential comes back) and `RequestSteps` (the seven things a step can do
to one request). The action property follows because only `Rotate` grants, and it
needs a session that is not over, which by `LoginIsSession` and `LoginsWhole` is
the session of every credential of that login.

**SignInProofs**

| Theorem | Property |
| --- | --- |
| `AttemptsServe` | `AttemptsServeTheirBrowser` |
| `NobodyLockedOut` | `NeverLockedOut` |
| `VerdictsTrue` | `VerdictsAreTrue` |
| `TypeCorrect` | `TypeOK` |

    IInv == TypeOK /\ Owned /\ FailureRecorded

`Owned`: every login cookie, kept, sent or about to be set, names an attempt that was
started in its own browser; so a callback that consumes what its cookie is bound to
consumes nobody else's. `FailureRecorded`: the cache's flag says what the last fetch
came to, a fetch dropped by a hang-up included. `TypeOK` bounds the table by its
capacity, which is what makes "full" mean that nothing could be replaced.

**AuthTabsProofs**

| Theorem | Property |
| --- | --- |
| `TabsKeep` | `TabsKeepTheSession` |
| `TabsStayStopped` | `StoppedStaysStopped` |
| `TabsEndForGood` | `EndedLoginGrantsNothing`, in all tabs |
| `TabsTypeCorrect` | `TabsTypeOK` |

    TabsInv == IInv /\ TabsTypeOK /\ LockInv /\ Wire
                    /\ SpentByGrant /\ InTurn /\ TabsKeepTheSession

`IInv` is that of RefreshSessions: by the shape of the module the server and the
jar only take its steps, so its proof is reused whole. The argument of `TabsKeepTheSession` is: a
session is revoked for reuse only if its credential was consumed, hence by a granted
refresh that carried it too (`SpentByGrant`); of two refreshes with one credential one
is excused, or one is over and was not granted (`InTurn`), and the one that was granted
has replaced the cookie by the time the lock is free (`Wire`); and a refresh that is
under way without holding the lock is excused or has stopped every tab (`LockInv`).

**Only model-checked.** The six liveness properties (`ChangesAreReported`, `AccessEnds`,
`NeverSilentlyStale`, `BusyEnds`, `EndIsDelivered`, `SearchesEnd`): fairness and
`ENABLED` are outside TLAPS's reach here. The two properties of the findings are
refuted by TLC and need no proof. Nothing else that a run checks is without one.

## Findings

1. `DepartedHearLeft` (`events_left`). `docs/lobby-api.md` promises that every
   client of a departed generation is told `left`. The stream looks at the closing
   of the lobby first, so a host that closes the lobby between the departure and
   the stream's read makes it say `closed`. What does hold is `ReasonsAreTrue`:
   whatever reason is given is true at that moment.
2. `HintsAlwaysGetRead` (`session_hint`). The docs say that a hint during a read
   requires another read. The counterexample: the view starts, learns its membership
   and opens the stream; the first hint arrives while the synchronisation is under way,
   whose next request fails. `synchronize` then leaves its loop with
   `dirty` still set and nothing reads again until the next hint or click. What
   does hold is `NeverSilentlyStale`: the page has caught up or says that it could
   not synchronise.

Also noticed, and neither findings nor hazards of the page: `stop()` while an operation runs leaves
`busy` set for a later `start()` of the same object (the page makes a new session
per mount, so `session_live` starts it once); a song that ends while a departure
is under way that then fails is handled only after the next operation; and the
comment in `auth-coordinator.ts:52` ("Never automatically replay it") and
`docs/browser-auth.md` hold for a page that lives to catch the failure, while a page
that is reloaded during a refresh replays the cookie when it loads (`excused` in
AuthTabs). The answer of an old request can remove a cookie that a newer one set: a
401 the refresh cookie, an ended callback the login cookie.

## Not modelled, and the plan

Every component that keeps state between two requests is modelled, and every safety
property, action property and refinement that a passing run checks is proved. What
is left to prove:

1. What `SharedQueue` promises on its own: an entry taken from a list never returns to
   one.
2. That the reads of `LobbyEvents` and `QueueSession` fit together: a session's server
   (generation, revision, playing entry) is what one user sees of `LobbyLife`.
3. The safety part of the liveness properties: which steps lead from a hint to the read
   it causes, or from a late deadline to a flight's removal, and that no other step
   undoes one of them. These are facts about single steps and need no fairness.

Not modelled within the modules: storage, Web Locks or the broadcast channel missing
in a browser (`publish` and `lock` then do less and the page asks for another
browser); a token without a key id; the client's saved submission attempt as a
variable of its own; a clock that steps back.

That expired sessions are eventually deleted is not checked: it is the repetition
of `start_cleanup`, and no property depends on it, because every transaction looks
at the deadline itself.

Left out on purpose: HTTP parsing and status codes, the YouTube clients (an answer
or a failure in the models), cookies' attributes, text
(ranking, normalisation, metadata, join codes), cryptography (token signatures,
hashes and random ids, which are taken never to repeat), rendering, deployment.
