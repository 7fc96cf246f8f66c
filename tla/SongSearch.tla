----------------------------- MODULE SongSearch -----------------------------
(***************************************************************************)
(* The search service (search/mod.rs) over the song catalogue: callers     *)
(* with the same query share one flight, a task of its own that looks for  *)
(* saved results, pays for a provider search out of the daily budget,      *)
(* publishes what the provider found and then saves it.                    *)
(*                                                                         *)
(* Every await is a step boundary.  4.5 seconds pass within one second of  *)
(* the catalogue's clock or across several: `late` says that a flight's    *)
(* deadline has passed, and then its next await may be cut short, while    *)
(* what completed first still counts.  The callers' own deadlines are no   *)
(* earlier than the flight's.                                              *)
(***************************************************************************)
EXTENDS SongCatalog

CONSTANTS
  Flights,      \* discoveries that may ever be started
  Callers,      \* search requests that may ever be made
  NoFlight,
  HasKey,       \* an API key is configured
  Enough,       \* catalogue songs that make a discovery unnecessary: 5 in the code
  MaxResults    \* results of a provider search: 10 in the code

ASSUME SearchAssumption ==
  /\ NoFlight \notin Flights
  /\ HasKey \in BOOLEAN
  /\ Enough \in Nat /\ MaxResults \in Nat

VARIABLES
  flight,       \* the tasks and what their watch channel shows
  current,      \* SearchService.flights: the flight callers of a query join
  caller,       \* the requests
  sent          \* history: provider searches sent on a day's reservations

searchVars == <<flight, current, caller, sent>>
vars == <<catalogVars, searchVars>>

Status == {"fresh", "cached", "missing_credentials", "daily_limit_reached",
           "temporarily_unavailable"}

\* found: what the provider returned; stamp: the last clock reading, for the
\* reservation and then `retrieved`.
Flight == [phase: {"unused", "lookup", "reserve", "request", "publish", "save", "done", "removed"},
           query: Queries, outcome: Status \cup {"none"}, late: BOOLEAN,
           found: SUBSET Videos, stamp: Times]
Caller == [phase: {"idle", "waiting", "answered", "gone"}, flight: Flights \cup {NoFlight},
           status: Status \cup {"none", "not_needed", "failed"}]

SearchTypeOK ==
  /\ CatalogTypeOK
  /\ flight \in [Flights -> Flight]
  /\ current \in [Queries -> Flights \cup {NoFlight}]
  /\ caller \in [Callers -> Caller]
  /\ \A c \in Callers : caller[c].phase = "waiting" => caller[c].flight # NoFlight
  /\ sent \in [Days -> Nat]

SearchInit ==
  /\ flight = [f \in Flights |->
                 [phase |-> "unused", query |-> CHOOSE q \in Queries : TRUE, outcome |-> "none",
                  late |-> FALSE, found |-> {}, stamp |-> 0]]
  /\ current = [q \in Queries |-> NoFlight]
  /\ caller = [c \in Callers |-> [phase |-> "idle", flight |-> NoFlight, status |-> "none"]]
  /\ sent = [d \in Days |-> 0]

At(f, phase) == flight[f].phase = phase
Running(f) == flight[f].phase \in {"lookup", "reserve", "request", "publish", "save"}

-----------------------------------------------------------------------------
(* The callers: search and the waiting half of discover.                   *)

Reply(c, status) ==
  caller' = [caller EXCEPT ![c] = [phase |-> "answered", flight |-> NoFlight, status |-> status]]

\* The catalogue's own songs suffice, or cannot be read in time.
AnswerFromCatalog(c) ==
  /\ caller[c].phase = "idle"
  /\ \/ Cardinality(Candidates(now)) >= Enough /\ Reply(c, "not_needed")
     \/ Reply(c, "failed")
  /\ UNCHANGED <<catalogVars, flight, current, sent>>

Wait(c, f) == caller' = [caller EXCEPT ![c].phase = "waiting", ![c].flight = f]

Join(c, q) ==
  /\ caller[c].phase = "idle"
  /\ current[q] # NoFlight
  /\ Wait(c, current[q])
  /\ UNCHANGED <<catalogVars, flight, current, sent>>

Start(c, q, f) ==
  /\ caller[c].phase = "idle"
  /\ current[q] = NoFlight
  /\ At(f, "unused")
  /\ flight' = [flight EXCEPT ![f].phase = "lookup", ![f].query = q]
  /\ current' = [current EXCEPT ![q] = f]
  /\ Wait(c, f)
  /\ UNCHANGED <<catalogVars, sent>>

\* The channel shows that the flight is done: what it shows is the answer.
TakeOutcome(c) ==
  LET f == caller[c].flight IN
  /\ caller[c].phase = "waiting"
  /\ flight[f].phase \in {"done", "removed"}
  /\ Reply(c, flight[f].outcome)
  /\ UNCHANGED <<catalogVars, flight, current, sent>>

\* The caller's deadline passed first.
GiveUp(c) ==
  LET f == caller[c].flight IN
  /\ caller[c].phase = "waiting"
  /\ flight[f].late
  /\ Reply(c, IF flight[f].outcome = "none" THEN "temporarily_unavailable"
              ELSE flight[f].outcome)
  /\ UNCHANGED <<catalogVars, flight, current, sent>>

\* The client hung up; its flight goes on.
Disconnect(c) ==
  /\ caller[c].phase = "waiting"
  /\ caller' = [caller EXCEPT ![c].phase = "gone", ![c].flight = NoFlight]
  /\ UNCHANGED <<catalogVars, flight, current, sent>>

-----------------------------------------------------------------------------
(* The task: run_discovery and what discover and Drop do around it.        *)

To(f, phase) == flight' = [flight EXCEPT ![f].phase = phase]

\* The outcome a finished attempt leaves: done is set with it, and the rest of
\* the attempt is forgotten.
Finish(f, outcome) ==
  flight' = [flight EXCEPT ![f] = [phase |-> "done", query |-> @.query, outcome |-> outcome,
                                   late |-> FALSE, found |-> {}, stamp |-> 0]]

Lookup(f) ==
  /\ At(f, "lookup")
  /\ IF Cached(flight[f].query, now) THEN Finish(f, "cached")
     ELSE IF HasKey
          THEN flight' = [flight EXCEPT ![f].phase = "reserve", ![f].stamp = now]
          ELSE Finish(f, "missing_credentials")
  /\ UNCHANGED <<catalogVars, current, caller, sent>>

LookupFails(f) ==
  /\ At(f, "lookup")
  /\ Finish(f, "temporarily_unavailable")
  /\ UNCHANGED <<catalogVars, current, caller, sent>>

\* The attempt is paid for and the provider is asked.
Reserve(f) ==
  /\ At(f, "reserve")
  /\ ReserveSearch(flight[f].stamp)
  /\ To(f, "request")
  /\ sent' = [sent EXCEPT ![Day(flight[f].stamp)] = @ + 1]
  /\ UNCHANGED <<now, current, caller>>

OverBudget(f) ==
  /\ At(f, "reserve")
  /\ ~Affordable(flight[f].stamp)
  /\ Finish(f, "daily_limit_reached")
  /\ UNCHANGED <<catalogVars, current, caller, sent>>

\* A transaction that failed or was cut short may have committed all the same.
ReserveFails(f) ==
  /\ At(f, "reserve")
  /\ \/ ReserveSearch(flight[f].stamp) /\ UNCHANGED now
     \/ UNCHANGED catalogVars
  /\ Finish(f, "temporarily_unavailable")
  /\ UNCHANGED <<current, caller, sent>>

\* The results are read, the clock is read, and only then the deadline.
ProviderAnswers(f, found) ==
  /\ At(f, "request")
  /\ Cardinality(found) <= MaxResults
  /\ IF flight[f].late THEN Finish(f, "temporarily_unavailable")
     ELSE flight' = [flight EXCEPT ![f].phase = "publish", ![f].found = found, ![f].stamp = now]
  /\ UNCHANGED <<catalogVars, current, caller, sent>>

\* Mutant: an attempt that came to nothing is given back to the budget.
ProviderFailsRefunded(f) ==
  /\ At(f, "request")
  /\ Finish(f, "temporarily_unavailable")
  /\ usage' = [usage EXCEPT ![Day(flight[f].stamp)] = @ - 1]
  /\ UNCHANGED <<popularity, text, saved, receipt, now, current, caller, sent>>

ProviderFails(f) ==
  /\ At(f, "request")
  /\ Finish(f, "temporarily_unavailable")
  /\ UNCHANGED <<catalogVars, current, caller, sent>>

\* Callers that reach their deadline from here on have the results.
Publish(f) ==
  /\ At(f, "publish")
  /\ flight' = [flight EXCEPT ![f].phase = "save", ![f].outcome = "fresh"]
  /\ UNCHANGED <<catalogVars, current, caller, sent>>

Save(f) ==
  /\ At(f, "save")
  /\ SaveSearch(flight[f].query, flight[f].found, flight[f].stamp)
  /\ Finish(f, "fresh")
  /\ UNCHANGED <<now, current, caller, sent>>

\* Mutant: a save that failed makes the search fail.
SaveFailureReported(f) ==
  /\ At(f, "save")
  /\ Finish(f, "temporarily_unavailable")
  /\ UNCHANGED <<catalogVars, current, caller, sent>>

\* The write failed, took 250 ms or reached the deadline; a commit that went
\* through unnoticed is Save.
SaveFails(f) ==
  /\ At(f, "save")
  /\ Finish(f, "fresh")
  /\ UNCHANGED <<catalogVars, current, caller, sent>>

\* What the channel shows when nothing else was published.
Settled(outcome) == IF outcome = "none" THEN "temporarily_unavailable" ELSE outcome

\* timeout_at: the deadline passed at an await.  A reservation cut short is
\* ReserveFails, a save is SaveFails.
Timeout(f) ==
  /\ flight[f].late
  /\ flight[f].phase \in {"lookup", "request"}
  /\ Finish(f, Settled(flight[f].outcome))
  /\ UNCHANGED <<catalogVars, current, caller, sent>>

\* Mutant: a panic ends the task, and nobody completes the flight.
PanicWithoutDrop(f) ==
  /\ Running(f)
  /\ To(f, "removed")
  /\ UNCHANGED <<catalogVars, current, caller, sent>>

\* The task is cancelled or panics: Drop completes the flight with what was
\* published.
Panic(f) ==
  /\ Running(f)
  /\ Finish(f, Settled(flight[f].outcome))
  /\ UNCHANGED <<catalogVars, current, caller, sent>>

\* The end of Drop: the flight is done and leaves the map.
Remove(f) ==
  /\ At(f, "done")
  /\ To(f, "removed")
  /\ current' = [current EXCEPT ![flight[f].query] = NoFlight]
  /\ UNCHANGED <<catalogVars, caller, sent>>

DeadlinePasses(f) ==
  /\ Running(f) /\ ~flight[f].late
  /\ flight' = [flight EXCEPT ![f].late = TRUE]
  /\ UNCHANGED <<catalogVars, current, caller, sent>>

\* The process dies and starts again: main cleans up the catalogue (or fails
\* to) and imports the curated text; tasks and callers are gone.
Restart ==
  /\ flight' = [f \in Flights |->
                  IF At(f, "unused") THEN flight[f]
                  ELSE [phase |-> "removed", query |-> flight[f].query,
                        outcome |-> flight[f].outcome, late |-> FALSE, found |-> {}, stamp |-> 0]]
  /\ current' = [q \in Queries |-> NoFlight]
  /\ caller' = [c \in Callers |->
                  IF caller[c].phase = "waiting"
                  THEN [caller[c] EXCEPT !.phase = "gone", !.flight = NoFlight]
                  ELSE caller[c]]
  /\ CleanupCatalog \/ UNCHANGED catalogVars
  /\ UNCHANGED sent

Call(c) ==
  \/ AnswerFromCatalog(c)
  \/ \E q \in Queries : Join(c, q) \/ \E f \in Flights : Start(c, q, f)
  \/ TakeOutcome(c) \/ GiveUp(c) \/ Disconnect(c)

Run(f) ==
  \/ Lookup(f) \/ LookupFails(f)
  \/ Reserve(f) \/ OverBudget(f) \/ ReserveFails(f)
  \/ \E found \in SUBSET Videos : ProviderAnswers(f, found)
  \/ ProviderFails(f)
  \/ Publish(f) \/ Save(f) \/ SaveFails(f)
  \/ Timeout(f) \/ Panic(f) \/ Remove(f) \/ DeadlinePasses(f)

Environment ==
  \/ CleanupCatalog /\ UNCHANGED searchVars
  \/ CatalogTick /\ UNCHANGED searchVars

SearchNext ==
  \/ \E c \in Callers : Call(c)
  \/ \E f \in Flights : Run(f)
  \/ Restart

Init == CatalogInit /\ SearchInit
Next == SearchNext \/ Environment
Spec == Init /\ [][Next]_vars

\* Timers fire, a task that can go on without the provider does, and a caller
\* whose flight is done or late is answered.  Nothing is assumed of the
\* provider: it may never answer.
SearchFairness ==
  /\ \A f \in Flights :
       WF_vars(DeadlinePasses(f)) /\ WF_vars(Timeout(f) \/ ReserveFails(f) \/ Publish(f) \/ SaveFails(f))
         /\ WF_vars(Remove(f))
  /\ \A c \in Callers : WF_vars(TakeOutcome(c) \/ GiveUp(c))

FairSpec == Spec /\ SearchFairness

-----------------------------------------------------------------------------
(* Properties.                                                             *)

\* The provider is never asked more often than the day's reservations say and
\* never beyond the limit: searches that fail, time out, are abandoned or die
\* with the process have been paid for (reserve before search).  And however
\* many callers ask, hang up or run out of time, a query has one attempt under
\* way: the one that callers join.
ProviderAskedSparingly ==
  /\ \A d \in Days : sent[d] <= usage[d] /\ usage[d] <= DailyLimit
  /\ \A f \in Flights : Running(f) => current[flight[f].query] = f

\* Once results were published they stay, whatever becomes of the deadline,
\* the save or the task, and every caller that is answered afterwards gets
\* them ("Publish first", search/mod.rs:236).
FreshReachesCallers ==
  [][\A f \in Flights : flight[f].outcome = "fresh" =>
       /\ flight'[f].outcome = "fresh"
       /\ \A c \in Callers :
            caller[c].flight = f /\ caller[c].phase = "waiting" /\ caller'[c].phase = "answered"
              => caller'[c].status = "fresh"]_vars

\* No flight is left in the map and no caller is left waiting although the
\* provider and the database may never answer and the task may panic
\* ("waiters never inherit an orphan flight", search/mod.rs:32).
SearchesEnd ==
  /\ \A f \in Flights : (current[flight[f].query] = f) ~> (current[flight[f].query] # f)
  /\ \A c \in Callers : (caller[c].phase = "waiting") ~> (caller[c].phase # "waiting")
=============================================================================
