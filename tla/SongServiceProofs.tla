------------------------- MODULE SongServiceProofs -------------------------
(***************************************************************************)
(* Theorems about SongService: searches and submissions over one catalogue *)
(* for every number of songs, queries, callers, deliveries and entries and *)
(* every budget and lifetime.                                              *)
(***************************************************************************)
EXTENDS SongService, FiniteSetTheorems, TLAPS

-----------------------------------------------------------------------------
(* The catalogue's transactions.                                           *)

\* The day of a clock reading has a row in the table of the daily budget.
LEMMA DayType == ASSUME NEW t \in Times PROVE Day(t) \in Days
BY DEF Days

\* Text written with a reading of the clock is well-formed, and no song's text
\* becomes older.
LEMMA UpsertEffect ==
  ASSUME CatalogTypeOK, NEW videos, NEW stamp \in Times, Upsert(videos, stamp)
  PROVE  /\ text' \in [Videos -> Times \cup {Never}]
         /\ \A v \in Videos : text'[v] >= text[v]
<1>1. stamp \in Int /\ \A v \in Videos : text[v] \in Int
  BY CatalogAssumption DEF CatalogTypeOK, Times, Never
<1>2. text' = [v \in Videos |-> IF v \in videos /\ stamp >= text[v] THEN stamp ELSE text[v]]
  BY DEF Upsert
<1>3. \A v \in Videos : text'[v] \in Times \cup {Never}
  BY <1>2 DEF CatalogTypeOK
<1>4. \A v \in Videos : text'[v] >= text[v]
  BY <1>1, <1>2
<1>. QED
  BY <1>2, <1>3, <1>4

LEMMA SaveSearchType ==
  ASSUME CatalogTypeOK, NEW q \in Queries, NEW videos, NEW stamp \in Times,
         SaveSearch(q, videos, stamp), UNCHANGED now
  PROVE  CatalogTypeOK'
<1>1. text' \in [Videos -> Times \cup {Never}]
  BY UpsertEffect DEF SaveSearch
<1>2. saved' \in [Queries -> Times \cup {Never}]
  BY DEF SaveSearch, CatalogTypeOK
<1>. QED
  BY <1>1, <1>2 DEF SaveSearch, CatalogTypeOK

\* A reservation adds one to the day it is for, within the limit.
LEMMA ReserveEffect ==
  ASSUME CatalogTypeOK, NEW stamp \in Times, ReserveSearch(stamp), UNCHANGED now
  PROVE  /\ CatalogTypeOK'
         /\ usage'[Day(stamp)] = usage[Day(stamp)] + 1
         /\ \A d \in Days \ {Day(stamp)} : usage'[d] = usage[d]
<1>1. Day(stamp) \in Days
  BY DayType
<1>2. usage[Day(stamp)] \in Nat /\ usage[Day(stamp)] < DailyLimit
  BY <1>1, CatalogAssumption DEF CatalogTypeOK, ReserveSearch, Affordable
<1>3. usage[Day(stamp)] + 1 \in 0..DailyLimit
  BY <1>2, CatalogAssumption
<1>. QED
  BY <1>1, <1>3 DEF ReserveSearch, CatalogTypeOK

LEMMA RecordSubmissionType ==
  ASSUME CatalogTypeOK, NEW e \in Entries, NEW v \in Videos, NEW stamp \in Times,
         RecordSubmission(e, v, stamp), UNCHANGED now
  PROVE  CatalogTypeOK'
<1>1. text' \in [Videos -> Times \cup {Never}]
  BY UpsertEffect DEF RecordSubmission
<1>2. receipt' \in [Entries -> Videos \cup {NoVideo}]
  BY DEF RecordSubmission, CatalogTypeOK
<1>3. popularity' \in [Videos -> Nat]
  BY DEF RecordSubmission, CatalogTypeOK
<1>. QED
  BY <1>1, <1>2, <1>3 DEF RecordSubmission, CatalogTypeOK

LEMMA CleanupType == ASSUME CatalogTypeOK, CleanupCatalog PROVE CatalogTypeOK'
<1>1. text' \in [Videos -> Times \cup {Never}]
  BY DEF CleanupCatalog, CatalogTypeOK
<1>2. saved' \in [Queries -> Times \cup {Never}]
  BY DEF CleanupCatalog, CatalogTypeOK
<1>. QED
  BY <1>1, <1>2 DEF CleanupCatalog, CatalogTypeOK

LEMMA TickType == ASSUME CatalogTypeOK, CatalogTick PROVE CatalogTypeOK'
BY CatalogAssumption DEF CatalogTick, CatalogTypeOK, Times

LEMMA SameCatalog == ASSUME CatalogTypeOK, UNCHANGED catalogVars PROVE CatalogTypeOK'
BY DEF catalogVars, CatalogTypeOK

-----------------------------------------------------------------------------
(* The inductive invariant of the searches.                                *)

\* Nothing is published before the provider has answered, and the results are
\* while they are saved.
Sound(x) ==
  /\ x.phase \in {"unused", "lookup", "reserve", "request", "publish"} => x.outcome = "none"
  /\ x.phase = "save" => x.outcome = "fresh"

\* A flight is in the map from its start until it is removed: its callers and
\* the next ones find it, and removing it removes no other.
InMap(x) == x.phase \notin {"unused", "removed"}

SearchInv ==
  /\ SearchTypeOK
  /\ \A f \in Flights : Sound(flight[f])
  /\ \A f \in Flights : InMap(flight[f]) => current[flight[f].query] = f
  /\ \A d \in Days : sent[d] <= usage[d]

\* What any step of a flight's task leaves of it.
Successor(x, y) ==
  /\ y \in Flight /\ y.query = x.query /\ Sound(y)
  /\ InMap(y) => InMap(x)
  /\ x.outcome = "fresh" => y.outcome = "fresh"

LEMMA FlightType ==
  ASSUME SearchInv, NEW f \in Flights
  PROVE  /\ flight[f] \in Flight /\ Sound(flight[f])
         /\ flight[f].query \in Queries /\ flight[f].stamp \in Times
         /\ flight[f].outcome \in Status \cup {"none"} /\ flight[f].found \subseteq Videos
BY DEF SearchInv, SearchTypeOK, Flight

\* Only the phase changes.
LEMMA ToEffect ==
  ASSUME SearchInv, NEW f \in Flights, InMap(flight[f]),
         NEW phase \in {"request", "removed"}, To(f, phase),
         phase = "request" => At(f, "reserve")
  PROVE  \E y : flight' = [flight EXCEPT ![f] = y] /\ Successor(flight[f], y) /\ y.phase = phase
<1>. DEFINE y == [flight[f] EXCEPT !.phase = phase]
<1>1. y \in Flight /\ y.query = flight[f].query /\ y.phase = phase /\ y.outcome = flight[f].outcome
  BY FlightType DEF Flight
<1>2. Sound(y)
  BY <1>1, FlightType DEF Sound, At
<1>3. flight' = [flight EXCEPT ![f] = y]
  BY DEF To
<1>. HIDE DEF y
<1>. QED
  BY <1>1, <1>2, <1>3 DEF Successor

\* An attempt ends with an outcome that takes nothing published back.
LEMMA FinishEffect ==
  ASSUME SearchInv, NEW f \in Flights, InMap(flight[f]), NEW outcome \in Status,
         Finish(f, outcome), flight[f].outcome = "fresh" => outcome = "fresh"
  PROVE  \E y : flight' = [flight EXCEPT ![f] = y] /\ Successor(flight[f], y) /\ y.phase = "done"
<1>. DEFINE y == [phase |-> "done", query |-> flight[f].query, outcome |-> outcome,
                  late |-> FALSE, found |-> {}, stamp |-> 0]
<1>1. 0 \in Times
  BY CatalogAssumption DEF Times
<1>2. y \in Flight
  BY <1>1, FlightType DEF Flight
<1>3. Sound(y)
  BY DEF Sound
<1>4. flight' = [flight EXCEPT ![f] = y]
  BY DEF Finish
<1>5. y.query = flight[f].query /\ y.outcome = outcome /\ y.phase = "done"
  OBVIOUS
<1>. HIDE DEF y
<1>. QED
  BY <1>2, <1>3, <1>4, <1>5 DEF Successor

\* Every step of a flight's task replaces that flight by a successor.
Moves(f) ==
  \E y : /\ flight' = [flight EXCEPT ![f] = y] /\ Successor(flight[f], y)
         /\ Remove(f) => y.phase = "removed"

LEMMA RunEffect ==
  ASSUME SearchInv, NEW f \in Flights, Run(f)
  PROVE  Moves(f)
<1>t. Sound(flight[f]) /\ flight[f] \in Flight
  BY FlightType
<1>1. ASSUME NEW outcome \in Status, Finish(f, outcome),
             flight[f].phase \in {"lookup", "reserve", "request", "publish", "save"},
             flight[f].outcome = "fresh" => outcome = "fresh"
      PROVE  Moves(f)
  <2>1. InMap(flight[f]) /\ ~Remove(f)
    BY <1>1 DEF InMap, Remove, At
  <2>. QED
    BY <1>1, <2>1, FinishEffect DEF Moves
<1>2. ASSUME flight[f].phase \in {"lookup", "reserve", "request", "publish"}
      PROVE  flight[f].outcome = "none"
  BY <1>t, <1>2 DEF Sound
<1>3. CASE Lookup(f)
  <2>1. flight[f].phase = "lookup" /\ flight[f].outcome = "none"
    BY <1>2, <1>3 DEF Lookup, At
  <2>2. CASE Finish(f, "cached") \/ Finish(f, "missing_credentials")
    BY <1>1, <2>1, <2>2 DEF Status
  <2>3. CASE flight' = [flight EXCEPT ![f].phase = "reserve", ![f].stamp = now]
    <3>. DEFINE y == [flight[f] EXCEPT !.phase = "reserve", !.stamp = now]
    <3>1. now \in Times
      BY DEF SearchInv, SearchTypeOK, CatalogTypeOK
    <3>2. /\ y \in Flight /\ y.query = flight[f].query /\ y.phase = "reserve"
          /\ y.outcome = flight[f].outcome
      BY <1>t, <3>1 DEF Flight
    <3>3. flight' = [flight EXCEPT ![f] = y]
      BY <2>3
    <3>. HIDE DEF y
    <3>4. Successor(flight[f], y)
      BY <2>1, <3>2 DEF Successor, Sound, InMap
    <3>. QED
      BY <2>1, <3>3, <3>4 DEF Moves, Remove, At
  <2>. QED
    BY <1>3, <2>2, <2>3 DEF Lookup
<1>4. CASE LookupFails(f) \/ OverBudget(f) \/ ReserveFails(f) \/ ProviderFails(f)
  <2>1. /\ flight[f].phase \in {"lookup", "reserve", "request"}
        /\ Finish(f, "temporarily_unavailable") \/ Finish(f, "daily_limit_reached")
    BY <1>4 DEF LookupFails, OverBudget, ReserveFails, ProviderFails, At
  <2>. QED
    BY <1>1, <1>2, <2>1 DEF Status
<1>5. CASE Reserve(f)
  <2>1. InMap(flight[f]) /\ At(f, "reserve") /\ To(f, "request") /\ ~Remove(f)
    BY <1>5 DEF Reserve, InMap, At, Remove
  <2>. QED
    BY <2>1, ToEffect DEF Moves
<1>6. CASE \E found \in SUBSET Videos : ProviderAnswers(f, found)
  <2>1. PICK found \in SUBSET Videos : ProviderAnswers(f, found)
    BY <1>6
  <2>2. flight[f].phase = "request" /\ flight[f].outcome = "none"
    BY <1>2, <2>1 DEF ProviderAnswers, At
  <2>3. CASE flight[f].late
    <3>1. Finish(f, "temporarily_unavailable")
      BY <2>1, <2>3 DEF ProviderAnswers
    <3>. QED
      BY <1>1, <2>2, <3>1 DEF Status
  <2>4. CASE ~flight[f].late
    <3>. DEFINE y == [flight[f] EXCEPT !.phase = "publish", !.found = found, !.stamp = now]
    <3>1. now \in Times
      BY DEF SearchInv, SearchTypeOK, CatalogTypeOK
    <3>2. /\ y \in Flight /\ y.query = flight[f].query /\ y.phase = "publish"
          /\ y.outcome = flight[f].outcome
      BY <1>t, <3>1 DEF Flight
    <3>3. flight' = [flight EXCEPT ![f] = y]
      BY <2>1, <2>4 DEF ProviderAnswers
    <3>. HIDE DEF y
    <3>4. Successor(flight[f], y)
      BY <2>2, <3>2 DEF Successor, Sound, InMap
    <3>. QED
      BY <2>2, <3>3, <3>4 DEF Moves, Remove, At
  <2>. QED
    BY <2>3, <2>4
<1>7. CASE Publish(f)
  <2>. DEFINE y == [flight[f] EXCEPT !.phase = "save", !.outcome = "fresh"]
  <2>1. flight[f].phase = "publish"
    BY <1>7 DEF Publish, At
  <2>2. y \in Flight /\ y.query = flight[f].query /\ y.phase = "save" /\ y.outcome = "fresh"
    BY <1>t DEF Flight, Status
  <2>3. flight' = [flight EXCEPT ![f] = y]
    BY <1>7 DEF Publish
  <2>. HIDE DEF y
  <2>4. Successor(flight[f], y)
    BY <2>1, <2>2 DEF Successor, Sound, InMap
  <2>. QED
    BY <2>1, <2>3, <2>4 DEF Moves, Remove, At
<1>8. CASE Save(f) \/ SaveFails(f)
  <2>1. flight[f].phase = "save" /\ Finish(f, "fresh")
    BY <1>8 DEF Save, SaveFails, At
  <2>. QED
    BY <1>1, <2>1 DEF Status
<1>9. CASE Timeout(f) \/ Panic(f)
  <2>1. flight[f].phase \in {"lookup", "reserve", "request", "publish", "save"}
    BY <1>9 DEF Timeout, Panic, Running
  <2>2. /\ Finish(f, Settled(flight[f].outcome)) /\ Settled(flight[f].outcome) \in Status
        /\ flight[f].outcome = "fresh" => Settled(flight[f].outcome) = "fresh"
    BY <1>9, FlightType DEF Timeout, Panic, Settled, Status
  <2>. QED
    BY <1>1, <2>1, <2>2
<1>10. CASE Remove(f)
  <2>1. InMap(flight[f]) /\ To(f, "removed")
    BY <1>10 DEF Remove, InMap, At
  <2>. QED
    BY <2>1, ToEffect DEF Moves
<1>11. CASE DeadlinePasses(f)
  <2>. DEFINE y == [flight[f] EXCEPT !.late = TRUE]
  <2>1. /\ y \in Flight /\ y.query = flight[f].query /\ y.phase = flight[f].phase
        /\ y.outcome = flight[f].outcome
    BY <1>t DEF Flight
  <2>2. flight' = [flight EXCEPT ![f] = y]
    BY <1>11 DEF DeadlinePasses
  <2>3. ~Remove(f)
    BY <1>11 DEF DeadlinePasses, Running, Remove, At
  <2>. HIDE DEF y
  <2>4. Successor(flight[f], y)
    BY <1>t, <2>1 DEF Successor, Sound, InMap
  <2>. QED
    BY <2>2, <2>3, <2>4 DEF Moves
<1>. QED
  BY <1>3, <1>4, <1>5, <1>6, <1>7, <1>8, <1>9, <1>10, <1>11 DEF Run

\* What the steps of a flight's task do to the catalogue and the budget.
LEMMA RunCatalog ==
  ASSUME SearchInv, NEW f \in Flights, Run(f)
  PROVE  /\ CatalogTypeOK'
         /\ \A d \in Days : sent'[d] <= usage'[d]
         /\ sent' \in [Days -> Nat]
<1>t. /\ CatalogTypeOK /\ sent \in [Days -> Nat] /\ \A d \in Days : sent[d] <= usage[d]
      /\ flight[f].stamp \in Times /\ flight[f].query \in Queries
      /\ \A d \in Days : usage[d] \in Nat
  BY FlightType, CatalogAssumption DEF SearchInv, SearchTypeOK, CatalogTypeOK
<1>1. CASE Reserve(f)
  <2>1. /\ ReserveSearch(flight[f].stamp) /\ UNCHANGED now
        /\ sent' = [sent EXCEPT ![Day(flight[f].stamp)] = @ + 1]
    BY <1>1 DEF Reserve
  <2>2. /\ CatalogTypeOK'
        /\ usage'[Day(flight[f].stamp)] = usage[Day(flight[f].stamp)] + 1
        /\ \A d \in Days \ {Day(flight[f].stamp)} : usage'[d] = usage[d]
    BY <1>t, <2>1, ReserveEffect
  <2>3. Day(flight[f].stamp) \in Days
    BY <1>t, DayType
  <2>. QED
    BY <1>t, <2>1, <2>2, <2>3
<1>2. CASE ReserveFails(f)
  <2>1. CASE ReserveSearch(flight[f].stamp) /\ UNCHANGED now
    <3>1. /\ CatalogTypeOK'
          /\ usage'[Day(flight[f].stamp)] = usage[Day(flight[f].stamp)] + 1
          /\ \A d \in Days \ {Day(flight[f].stamp)} : usage'[d] = usage[d]
      BY <1>t, <2>1, ReserveEffect
    <3>2. Day(flight[f].stamp) \in Days
      BY <1>t, DayType
    <3>. QED
      BY <1>t, <1>2, <3>1, <3>2 DEF ReserveFails
  <2>2. CASE UNCHANGED catalogVars
    BY <1>t, <1>2, <2>2, SameCatalog DEF ReserveFails, catalogVars
  <2>. QED
    BY <1>2, <2>1, <2>2 DEF ReserveFails
<1>3. CASE Save(f)
  BY <1>t, <1>3, SaveSearchType DEF Save, SaveSearch
<1>4. CASE UNCHANGED <<catalogVars, sent>>
  BY <1>t, <1>4, SameCatalog DEF catalogVars
<1>. QED
  BY <1>1, <1>2, <1>3, <1>4
     DEF Run, Lookup, LookupFails, OverBudget, ProviderAnswers, ProviderFails, Publish, SaveFails,
         Timeout, Panic, Remove, DeadlinePasses

LEMMA RunStep == ASSUME SearchInv, NEW f \in Flights, Run(f) PROVE SearchInv'
<1>1. PICK y : /\ flight' = [flight EXCEPT ![f] = y] /\ Successor(flight[f], y)
               /\ Remove(f) => y.phase = "removed"
  BY RunEffect DEF Moves
<1>2. /\ flight' \in [Flights -> Flight] /\ flight'[f] = y
      /\ \A g \in Flights \ {f} : flight'[g] = flight[g]
  BY <1>1 DEF Successor, SearchInv, SearchTypeOK
<1>3. UNCHANGED caller
  BY DEF Run, Lookup, LookupFails, Reserve, OverBudget, ReserveFails, ProviderAnswers,
         ProviderFails, Publish, Save, SaveFails, Timeout, Panic, Remove, DeadlinePasses
<1>4. CASE Remove(f)
  <2>1. current' = [current EXCEPT ![flight[f].query] = NoFlight] /\ InMap(flight[f])
    BY <1>4 DEF Remove, At, InMap
  <2>2. current' \in [Queries -> Flights \cup {NoFlight}]
    BY <2>1 DEF SearchInv, SearchTypeOK
  <2>3. ASSUME NEW g \in Flights, InMap(flight'[g]) PROVE current'[flight'[g].query] = g
    <3>1. g # f
      BY <1>1, <1>2, <1>4, <2>3 DEF InMap
    <3>2. flight'[g] = flight[g] /\ InMap(flight[g])
      BY <1>2, <2>3, <3>1
    <3>3. flight[g].query # flight[f].query
      BY <2>1, <3>1, <3>2 DEF SearchInv
    <3>. QED
      BY <2>1, <3>2, <3>3, FlightType DEF SearchInv, SearchTypeOK
  <2>. QED
    BY <1>1, <1>2, <1>3, <2>2, <2>3, RunCatalog DEF SearchInv, SearchTypeOK, Successor
<1>5. CASE UNCHANGED current
  <2>1. ASSUME NEW g \in Flights, InMap(flight'[g]) PROVE current'[flight'[g].query] = g
    BY <1>1, <1>2, <1>5, <2>1 DEF SearchInv, Successor
  <2>. QED
    BY <1>1, <1>2, <1>3, <1>5, <2>1, RunCatalog DEF SearchInv, SearchTypeOK, Successor
<1>. QED
  BY <1>4, <1>5
     DEF Run, Lookup, LookupFails, Reserve, OverBudget, ReserveFails, ProviderAnswers,
         ProviderFails, Publish, Save, SaveFails, Timeout, Panic, DeadlinePasses

\* What the callers' steps do to the callers.
LEMMA CallType ==
  ASSUME SearchInv, NEW c \in Callers, Call(c)
  PROVE  /\ caller' \in [Callers -> Caller]
         /\ \A x \in Callers : caller'[x].phase = "waiting" => caller'[x].flight # NoFlight
         /\ UNCHANGED <<catalogVars, sent>>
<1>t. /\ caller \in [Callers -> Caller]
      /\ \A x \in Callers : caller[x].phase = "waiting" => caller[x].flight # NoFlight
      /\ current \in [Queries -> Flights \cup {NoFlight}]
  BY DEF SearchInv, SearchTypeOK
<1>1. ASSUME NEW status \in Status \cup {"none", "not_needed", "failed"}, Reply(c, status)
      PROVE  /\ caller' \in [Callers -> Caller]
             /\ \A x \in Callers : caller'[x].phase = "waiting" => caller'[x].flight # NoFlight
  <2>. DEFINE y == [phase |-> "answered", flight |-> NoFlight, status |-> status]
  <2>1. y \in Caller /\ y.phase = "answered"
    BY DEF Caller
  <2>2. caller' = [caller EXCEPT ![c] = y]
    BY <1>1 DEF Reply
  <2>. HIDE DEF y
  <2>. QED
    BY <1>t, <2>1, <2>2
<1>2. ASSUME NEW f \in Flights, Wait(c, f)
      PROVE  /\ caller' \in [Callers -> Caller]
             /\ \A x \in Callers : caller'[x].phase = "waiting" => caller'[x].flight # NoFlight
  <2>. DEFINE y == [caller[c] EXCEPT !.phase = "waiting", !.flight = f]
  <2>1. y \in Caller /\ y.flight # NoFlight
    BY <1>t, SearchAssumption DEF Caller
  <2>2. caller' = [caller EXCEPT ![c] = y]
    BY <1>2 DEF Wait
  <2>. HIDE DEF y
  <2>. QED
    BY <1>t, <2>1, <2>2
<1>3. CASE AnswerFromCatalog(c)
  BY <1>1, <1>3 DEF AnswerFromCatalog
<1>4. CASE \E q \in Queries : Join(c, q) \/ \E f \in Flights : Start(c, q, f)
  BY <1>t, <1>2, <1>4 DEF Join, Start
<1>5. CASE TakeOutcome(c) \/ GiveUp(c)
  <2>. DEFINE f == caller[c].flight
  <2>1. f \in Flights
    BY <1>t, <1>5 DEF TakeOutcome, GiveUp, Caller
  <2>2. flight[f].outcome \in Status \cup {"none"}
    BY <2>1, FlightType
  <2>3. PICK status \in Status \cup {"none", "not_needed", "failed"} : Reply(c, status)
    BY <1>5, <2>2 DEF TakeOutcome, GiveUp, Status
  <2>. QED
    BY <1>1, <1>5, <2>3 DEF TakeOutcome, GiveUp
<1>6. CASE Disconnect(c)
  <2>. DEFINE y == [caller[c] EXCEPT !.phase = "gone", !.flight = NoFlight]
  <2>1. y \in Caller /\ y.phase = "gone"
    BY <1>t DEF Caller
  <2>2. caller' = [caller EXCEPT ![c] = y]
    BY <1>6 DEF Disconnect
  <2>. HIDE DEF y
  <2>. QED
    BY <1>t, <1>6, <2>1, <2>2 DEF Disconnect
<1>. QED
  BY <1>3, <1>4, <1>5, <1>6 DEF Call

LEMMA CallStep == ASSUME SearchInv, NEW c \in Callers, Call(c) PROVE SearchInv'
<1>1. /\ CatalogTypeOK' /\ sent' \in [Days -> Nat]
      /\ \A d \in Days : sent'[d] <= usage'[d]
  BY CallType, SameCatalog DEF SearchInv, SearchTypeOK, catalogVars
<1>2. CASE UNCHANGED <<flight, current>>
  BY <1>1, <1>2, CallType DEF SearchInv, SearchTypeOK
<1>3. CASE \E q \in Queries, f \in Flights : Start(c, q, f)
  <2>1. PICK q \in Queries, f \in Flights : Start(c, q, f)
    BY <1>3
  <2>. DEFINE y == [flight[f] EXCEPT !.phase = "lookup", !.query = q]
  <2>2. /\ flight' = [flight EXCEPT ![f] = y] /\ current' = [current EXCEPT ![q] = f]
        /\ current[q] = NoFlight /\ flight[f].phase = "unused"
    BY <2>1 DEF Start, At
  <2>3. /\ y \in Flight /\ y.query = q /\ y.phase = "lookup" /\ y.outcome = flight[f].outcome
    BY FlightType DEF Flight
  <2>. HIDE DEF y
  <2>4. Sound(y)
    BY <2>2, <2>3, FlightType DEF Sound
  <2>5. /\ flight' \in [Flights -> Flight] /\ flight'[f] = y
        /\ \A g \in Flights \ {f} : flight'[g] = flight[g]
        /\ current' \in [Queries -> Flights \cup {NoFlight}] /\ current'[q] = f
        /\ \A p \in Queries \ {q} : current'[p] = current[p]
    BY <2>2, <2>3 DEF SearchInv, SearchTypeOK
  <2>6. ASSUME NEW g \in Flights, InMap(flight'[g]) PROVE current'[flight'[g].query] = g
    <3>1. CASE g = f
      BY <2>3, <2>5, <3>1
    <3>2. CASE g # f
      <4>1. flight'[g] = flight[g] /\ current[flight[g].query] = g /\ flight[g].query \in Queries
        BY <2>5, <2>6, <3>2, FlightType DEF SearchInv
      <4>2. flight[g].query # q
        BY <2>2, <4>1, SearchAssumption
      <4>. QED
        BY <2>5, <4>1, <4>2
    <3>. QED
      BY <3>1, <3>2
  <2>. QED
    BY <1>1, <2>4, <2>5, <2>6, CallType DEF SearchInv, SearchTypeOK
<1>. QED
  BY <1>2, <1>3 DEF Call, AnswerFromCatalog, Join, TakeOutcome, GiveUp, Disconnect

LEMMA RestartStep == ASSUME SearchInv, Restart PROVE SearchInv'
<1>1. CatalogTypeOK' /\ UNCHANGED <<sent, usage>>
  BY CleanupType, SameCatalog DEF SearchInv, SearchTypeOK, Restart, CleanupCatalog, catalogVars
<1>2. ASSUME NEW f \in Flights
      PROVE  flight'[f] \in Flight /\ Sound(flight'[f]) /\ ~InMap(flight'[f])
  <2>1. CASE At(f, "unused")
    <3>1. flight'[f] = flight[f] /\ flight[f].phase = "unused"
      BY <2>1 DEF Restart, At
    <3>. QED
      BY <3>1, FlightType DEF InMap
  <2>2. CASE ~At(f, "unused")
    <3>1. flight'[f] = [phase |-> "removed", query |-> flight[f].query,
                        outcome |-> flight[f].outcome, late |-> FALSE, found |-> {}, stamp |-> 0]
      BY <2>2 DEF Restart
    <3>2. 0 \in Times
      BY CatalogAssumption DEF Times
    <3>3. flight'[f] \in Flight
      BY <3>1, <3>2, FlightType DEF Flight
    <3>. QED
      BY <3>1, <3>3 DEF Sound, InMap
  <2>. QED
    BY <2>1, <2>2
<1>3. flight' \in [Flights -> Flight] /\ current' \in [Queries -> Flights \cup {NoFlight}]
  BY <1>2 DEF Restart
<1>4. ASSUME NEW c \in Callers
      PROVE  caller'[c] \in Caller /\ caller'[c].phase # "waiting"
  BY DEF SearchInv, SearchTypeOK, Caller, Restart
<1>5. caller' \in [Callers -> Caller]
  BY <1>4 DEF Restart
<1>. QED
  BY <1>1, <1>2, <1>3, <1>4, <1>5 DEF SearchInv, SearchTypeOK

\* Steps that leave the searches and the budget alone.
LEMMA SearchFrame ==
  ASSUME SearchInv, CatalogTypeOK', UNCHANGED <<searchVars, usage>>
  PROVE  SearchInv'
BY DEF SearchInv, SearchTypeOK, searchVars

LEMMA CatalogStart == CatalogInit => CatalogTypeOK
BY CatalogAssumption DEF CatalogInit, CatalogTypeOK, Times, Never

LEMMA SearchStart == CatalogInit /\ SearchInit => SearchInv
<1>. SUFFICES ASSUME CatalogInit, SearchInit PROVE SearchInv
  OBVIOUS
<1>1. 0 \in Times /\ (CHOOSE q \in Queries : TRUE) \in Queries
  BY CatalogAssumption DEF Times
<1>2. ASSUME NEW f \in Flights
      PROVE  flight[f] \in Flight /\ Sound(flight[f]) /\ ~InMap(flight[f])
  <2>1. flight[f] = [phase |-> "unused", query |-> CHOOSE q \in Queries : TRUE,
                     outcome |-> "none", late |-> FALSE, found |-> {}, stamp |-> 0]
    BY DEF SearchInit
  <2>2. flight[f] \in Flight
    BY <1>1, <2>1 DEF Flight
  <2>. QED
    BY <2>1, <2>2 DEF Sound, InMap
<1>3. /\ flight \in [Flights -> Flight]
      /\ current \in [Queries -> Flights \cup {NoFlight}]
      /\ sent \in [Days -> Nat]
  BY <1>2 DEF SearchInit
<1>4. /\ caller \in [Callers -> Caller]
      /\ \A c \in Callers : caller[c].phase # "waiting"
  BY DEF SearchInit, Caller
<1>5. \A d \in Days : sent[d] <= usage[d]
  BY DEF SearchInit, CatalogInit
<1>. QED
  BY <1>2, <1>3, <1>4, <1>5, CatalogStart DEF SearchInv, SearchTypeOK

-----------------------------------------------------------------------------
(* The inductive invariant of the submissions.                             *)

\* Entries are numbered in the order of their acceptance, so the next one is
\* new, and a request has one at most.
EntriesFit ==
  /\ \E n \in 0..MaxEntries : DOMAIN accepted = 1..n
  /\ \A e, f \in DOMAIN accepted : accepted[e].request = accepted[f].request => e = f

\* An entry a delivery names is the one its request was given; a delivery that
\* was told of a change belongs to a request that has its entry.
Names(q) ==
  /\ q.phase = "idle" => q.entry = NoEntry /\ ~q.changed
  /\ q.phase = "record" => q.entry # NoEntry
  /\ q.entry # NoEntry => /\ q.entry \in DOMAIN accepted
                         /\ accepted[q.entry] = [request |-> q.request, video |-> q.video]
  /\ q.changed => Prior(q.request) # {}

ChangedOnce ==
  \A d, k \in Deliveries :
    delivery[d].changed /\ delivery[k].changed /\ delivery[d].request = delivery[k].request => d = k

SubmissionInv ==
  /\ SubmissionTypeOK
  /\ EntriesFit
  /\ \A d \in Deliveries : Names(delivery[d])
  /\ ChangedOnce
  /\ PopularityIsEarned

\* What makes the deliveries agree.
LEMMA NamesAgree == SubmissionInv => DeliveriesAgree
<1>. SUFFICES ASSUME SubmissionInv, NEW d \in Deliveries, NEW k \in Deliveries
              PROVE  LET p == delivery[d]
                         q == delivery[k]
                     IN
                     /\ p.entry # NoEntry =>
                          p.entry \in DOMAIN accepted /\ accepted[p.entry].video = p.video
                     /\ p.entry # NoEntry /\ q.entry # NoEntry /\ p.request = q.request
                          => p.entry = q.entry
                     /\ p.changed /\ q.changed /\ p.request = q.request => d = k
  BY DEF DeliveriesAgree
<1>1. Names(delivery[d]) /\ Names(delivery[k])
  BY DEF SubmissionInv
<1>. QED
  BY <1>1 DEF SubmissionInv, EntriesFit, Names, ChangedOnce

LEMMA SubmissionStart == CatalogInit /\ SubmissionInit => SubmissionInv
<1>. SUFFICES ASSUME CatalogInit, SubmissionInit PROVE SubmissionInv
  OBVIOUS
<1>1. DOMAIN accepted = {} /\ DOMAIN accepted = 1..0 /\ 0 \in 0..MaxEntries
  BY CatalogAssumption DEF SubmissionInit
<1>2. ASSUME NEW d \in Deliveries
      PROVE  delivery[d] \in Delivery /\ Names(delivery[d]) /\ ~delivery[d].changed
  <2>1. delivery[d] = [phase |-> "idle", request |-> CHOOSE r \in RequestIds : TRUE,
                       video |-> CHOOSE v \in Videos : TRUE, entry |-> NoEntry,
                       changed |-> FALSE, stamp |-> 0, outcome |-> "none"]
    BY DEF SubmissionInit
  <2>2. /\ 0 \in Times /\ (CHOOSE r \in RequestIds : TRUE) \in RequestIds
        /\ (CHOOSE v \in Videos : TRUE) \in Videos
    BY CatalogAssumption, SubmissionAssumption DEF Times
  <2>3. delivery[d] \in Delivery
    BY <2>1, <2>2 DEF Delivery
  <2>. QED
    BY <2>1, <2>3 DEF Names
<1>3. SubmissionTypeOK
  <2>1. accepted \in [DOMAIN accepted -> Contribution]
    BY <1>1 DEF SubmissionInit
  <2>. QED
    BY <1>1, <1>2, <2>1, CatalogStart DEF SubmissionInit, SubmissionTypeOK
<1>4. PopularityIsEarned
  <2>1. ASSUME NEW v \in Videos PROVE popularity[v] = Cardinality({e \in Entries : receipt[e] = v})
    <3>1. {e \in Entries : receipt[e] = v} = {}
      BY CatalogAssumption DEF CatalogInit
    <3>2. popularity[v] = 0
      BY DEF CatalogInit
    <3>. QED
      BY <3>1, <3>2, FS_EmptySet
  <2>. QED
    BY <2>1 DEF PopularityIsEarned, CountsAreReceipts, CatalogInit
<1>. QED
  BY <1>1, <1>2, <1>3, <1>4 DEF SubmissionInv, EntriesFit, ChangedOnce

\* A step of a delivery that accepts nothing.
LEMMA DeliveryStep ==
  ASSUME SubmissionInv, NEW d \in Deliveries, NEW y \in Delivery,
         delivery' = [delivery EXCEPT ![d] = y], UNCHANGED <<accepted, member>>,
         Names(y), y.changed => delivery[d].changed /\ y.request = delivery[d].request,
         CatalogTypeOK', PopularityIsEarned'
  PROVE  SubmissionInv'
<1>1. /\ delivery' \in [Deliveries -> Delivery] /\ delivery'[d] = y
      /\ \A k \in Deliveries \ {d} : delivery'[k] = delivery[k]
  BY DEF SubmissionInv, SubmissionTypeOK
<1>2. \A q : Names(q) => Names(q)'
  BY DEF Names, Prior
<1>3. \A k \in Deliveries : Names(delivery[k])'
  BY <1>1, <1>2 DEF SubmissionInv
<1>4. ChangedOnce'
  <2>1. \A k \in Deliveries : delivery'[k].changed =>
          delivery[k].changed /\ delivery'[k].request = delivery[k].request
    BY <1>1
  <2>. QED
    BY <2>1 DEF SubmissionInv, ChangedOnce
<1>5. SubmissionTypeOK' /\ EntriesFit'
  BY <1>1 DEF SubmissionInv, SubmissionTypeOK, EntriesFit
<1>. QED
  BY <1>3, <1>4, <1>5 DEF SubmissionInv

\* Popularity depends on the receipts and on entries that stay.
LEMMA EarnedFrame ==
  ASSUME PopularityIsEarned, UNCHANGED <<popularity, receipt>>,
         \A e \in DOMAIN accepted : e \in DOMAIN accepted' /\ accepted'[e] = accepted[e]
  PROVE  PopularityIsEarned'
BY DEF PopularityIsEarned, CountsAreReceipts

LEMMA DeliveryType ==
  ASSUME SubmissionInv, NEW d \in Deliveries
  PROVE  /\ delivery[d] \in Delivery /\ Names(delivery[d])
         /\ delivery[d].video \in Videos /\ delivery[d].request \in RequestIds
         /\ delivery[d].stamp \in Times /\ now \in Times /\ 0 \in Times
BY CatalogAssumption DEF SubmissionInv, SubmissionTypeOK, CatalogTypeOK, Delivery, Times

\* A delivery is concluded without an entry or with the one of its request.
LEMMA ConcludeStep ==
  ASSUME SubmissionInv, NEW d \in Deliveries,
         NEW outcome \in {"none", "ok", "forbidden", "conflict", "failed"},
         NEW entry \in Entries \cup {NoEntry}, Conclude(d, outcome, entry),
         entry # NoEntry =>
           /\ entry \in DOMAIN accepted
           /\ accepted[entry] = [request |-> delivery[d].request, video |-> delivery[d].video],
         UNCHANGED <<accepted, member>>, CatalogTypeOK', PopularityIsEarned'
  PROVE  SubmissionInv'
<1>. DEFINE y == [delivery[d] EXCEPT !.phase = "answered", !.outcome = outcome,
                                     !.entry = entry, !.stamp = 0]
<1>1. delivery' = [delivery EXCEPT ![d] = y]
  BY DEF Conclude
<1>2. /\ y \in Delivery /\ y.phase = "answered" /\ y.entry = entry
      /\ y.changed = delivery[d].changed /\ y.request = delivery[d].request
      /\ y.video = delivery[d].video
  BY DeliveryType DEF Delivery
<1>. HIDE DEF y
<1>3. Names(y)
  BY <1>2, DeliveryType DEF Names
<1>. QED
  BY <1>1, <1>2, <1>3, DeliveryStep

\* A replay names the entry the request was given, or none.
LEMMA ReplayStep ==
  ASSUME SubmissionInv, NEW d \in Deliveries, Replay(d),
         UNCHANGED <<accepted, member, catalogVars>>
  PROVE  SubmissionInv'
<1>1. CatalogTypeOK' /\ PopularityIsEarned'
  BY SameCatalog, EarnedFrame DEF SubmissionInv, SubmissionTypeOK, catalogVars
<1>2. PICK e \in Prior(delivery[d].request) :
        IF accepted[e].video = delivery[d].video THEN Conclude(d, "ok", e)
        ELSE Conclude(d, "conflict", NoEntry)
  BY DEF Replay
<1>3. CASE accepted[e].video = delivery[d].video /\ Conclude(d, "ok", e)
  <2>1. e \in DOMAIN accepted /\ accepted[e] \in Contribution /\ e \in Entries
    BY <1>2 DEF Prior, SubmissionInv, SubmissionTypeOK
  <2>2. accepted[e] = [request |-> delivery[d].request, video |-> delivery[d].video]
    BY <1>2, <1>3, <2>1 DEF Prior, Contribution
  <2>. QED
    BY <1>1, <1>3, <2>1, <2>2, ConcludeStep
<1>4. CASE Conclude(d, "conflict", NoEntry)
  BY <1>1, <1>4, ConcludeStep
<1>. QED
  BY <1>2, <1>3, <1>4

\* The number of the next entry is new.
LEMMA NewEntryIsNew ==
  ASSUME SubmissionInv
  PROVE  NewEntry \notin DOMAIN accepted /\ DOMAIN accepted \cup {NewEntry} = 1..NewEntry
<1>1. PICK n \in 0..MaxEntries : DOMAIN accepted = 1..n
  BY DEF SubmissionInv, EntriesFit
<1>2. n \in Nat /\ n \in Int /\ 1 \in Int
  BY CatalogAssumption
<1>3. Cardinality(1..n) = IF 1 > n THEN 0 ELSE n - 1 + 1
  BY <1>2, FS_Interval
<1>4. Cardinality(1..n) = n
  BY <1>2, <1>3
<1>5. NewEntry = n + 1
  BY <1>1, <1>4 DEF NewEntry
<1>. QED
  BY <1>1, <1>2, <1>5

\* The commit of a request that has no entry yet.
LEMMA AcceptStep ==
  ASSUME SubmissionInv, NEW d \in Deliveries, Accept(d, NewEntry),
         Prior(delivery[d].request) = {}, UNCHANGED <<member, catalogVars>>
  PROVE  SubmissionInv'
<1>. DEFINE e == NewEntry
            row == [request |-> delivery[d].request, video |-> delivery[d].video]
            y == [delivery[d] EXCEPT !.phase = "record", !.entry = e, !.changed = TRUE, !.stamp = now]
<1>1. e \notin DOMAIN accepted /\ DOMAIN accepted \cup {e} = 1..e /\ e \in Entries
  BY NewEntryIsNew DEF Accept
<1>. HIDE DEF e
<1>2. /\ DOMAIN accepted' = DOMAIN accepted \cup {e} /\ accepted'[e] = row
      /\ \A x \in DOMAIN accepted : accepted'[x] = accepted[x]
      /\ row \in Contribution
      /\ accepted' \in [DOMAIN accepted' -> Contribution]
  <2>1. accepted' = [x \in DOMAIN accepted \cup {e} |-> IF x = e THEN row ELSE accepted[x]]
    BY DEF Accept, e
  <2>2. row \in Contribution
    BY DeliveryType DEF Contribution
  <2>3. \A x \in DOMAIN accepted : accepted[x] \in Contribution
    BY DEF SubmissionInv, SubmissionTypeOK
  <2>. HIDE DEF row
  <2>. QED
    BY <1>1, <2>1, <2>2, <2>3
<1>3. delivery' = [delivery EXCEPT ![d] = y]
  BY DEF Accept, e
<1>4. /\ y \in Delivery /\ y.phase = "record" /\ y.entry = e /\ y.changed
      /\ y.request = delivery[d].request /\ y.video = delivery[d].video
  BY <1>1, DeliveryType DEF Delivery
<1>. HIDE DEF y
<1>5. /\ delivery' \in [Deliveries -> Delivery] /\ delivery'[d] = y
      /\ \A k \in Deliveries \ {d} : delivery'[k] = delivery[k]
  BY <1>3, <1>4 DEF SubmissionInv, SubmissionTypeOK
<1>6. SubmissionTypeOK'
  BY <1>1, <1>2, <1>5, SameCatalog DEF SubmissionInv, SubmissionTypeOK
<1>7. EntriesFit'
  <2>1. e \in 0..MaxEntries
    BY <1>1, CatalogAssumption DEF Entries
  <2>2. \A x \in DOMAIN accepted : accepted[x].request # row.request
    BY DEF Prior
  <2>3. ASSUME NEW x \in DOMAIN accepted', NEW z \in DOMAIN accepted',
               accepted'[x].request = accepted'[z].request
        PROVE  x = z
    <3>1. CASE x = e \/ z = e
      BY <1>2, <2>2, <2>3, <3>1
    <3>2. CASE x # e /\ z # e
      BY <1>2, <2>3, <3>2 DEF SubmissionInv, EntriesFit
    <3>. QED
      BY <3>1, <3>2
  <2>. QED
    BY <1>1, <1>2, <2>1, <2>3 DEF EntriesFit
<1>8. \A k \in Deliveries : Names(delivery[k])'
  <2>1. ASSUME NEW q, Names(q), q.entry # NoEntry => q.entry \in DOMAIN accepted
        PROVE  Names(q)'
    BY <1>2, <2>1 DEF Names, Prior
  <2>2. ASSUME NEW q, q = y PROVE Names(q)'
    <3>1. /\ accepted'[q.entry] = [request |-> q.request, video |-> q.video]
          /\ q.entry \in DOMAIN accepted' /\ q.phase = "record"
      BY <1>2, <1>4, <2>2
    <3>2. q.entry # NoEntry
      BY <1>1, <1>4, <2>2, CatalogAssumption DEF Entries, NoEntry
    <3>3. Prior(q.request)' # {}
      <4>1. q.entry \in Prior(q.request)'
        BY <3>1 DEF Prior
      <4>. QED
        BY <4>1
    <3>. QED
      BY <3>1, <3>2, <3>3 DEF Names
  <2>3. ASSUME NEW k \in Deliveries PROVE Names(delivery[k])'
    <3>1. CASE k = d
      BY <1>5, <2>2, <3>1
    <3>2. CASE k # d
      <4>1. /\ delivery'[k] = delivery[k] /\ Names(delivery[k])
            /\ delivery[k].entry # NoEntry => delivery[k].entry \in DOMAIN accepted
        BY <1>5, <3>2, DeliveryType DEF Names
      <4>. QED
        BY <2>1, <4>1
    <3>. QED
      BY <3>1, <3>2
  <2>. QED
    BY <2>3
<1>9. ChangedOnce'
  <2>1. \A k \in Deliveries \ {d} : delivery[k].changed => delivery[k].request # delivery[d].request
    BY DeliveryType DEF Names
  <2>2. ASSUME NEW j \in Deliveries, NEW k \in Deliveries, delivery'[j].changed,
               delivery'[k].changed, delivery'[j].request = delivery'[k].request
        PROVE  j = k
    <3>1. CASE j = d \/ k = d
      BY <1>4, <1>5, <2>1, <2>2, <3>1
    <3>2. CASE j # d /\ k # d
      BY <1>5, <2>2, <3>2 DEF SubmissionInv, ChangedOnce
    <3>. QED
      BY <3>1, <3>2
  <2>. QED
    BY <2>2 DEF ChangedOnce
<1>10. PopularityIsEarned'
  BY <1>2, EarnedFrame DEF SubmissionInv, catalogVars
<1>. QED
  BY <1>6, <1>7, <1>8, <1>9, <1>10 DEF SubmissionInv

\* Counting an entry that has no receipt keeps counts and receipts equal.
LEMMA CountEffect ==
  ASSUME CatalogTypeOK, CountsAreReceipts, NEW e \in Entries, NEW v \in Videos, NEW stamp,
         RecordSubmission(e, v, stamp)
  PROVE  /\ CountsAreReceipts'
         /\ receipt'[e] = v
         /\ \A x \in Entries \ {e} : receipt'[x] = receipt[x]
<1>1. /\ receipt[e] = NoVideo /\ receipt'[e] = v
      /\ \A x \in Entries \ {e} : receipt'[x] = receipt[x]
      /\ popularity'[v] = popularity[v] + 1
      /\ \A w \in Videos \ {v} : popularity'[w] = popularity[w]
  BY DEF RecordSubmission, CatalogTypeOK
<1>2. ASSUME NEW w \in Videos
      PROVE  popularity'[w] = Cardinality({x \in Entries : receipt'[x] = w})
  <2>. DEFINE S == {x \in Entries : receipt[x] = w}
              T == {x \in Entries : receipt'[x] = w}
  <2>1. popularity[w] = Cardinality(S)
    BY DEF CountsAreReceipts
  <2>2. CASE w = v
    <3>1. T = S \cup {e} /\ e \notin S
      BY <1>1, <2>2, CatalogAssumption
    <3>2. IsFiniteSet(Entries)
      <4>1. 1 \in Int /\ MaxEntries \in Int
        BY CatalogAssumption
      <4>. QED
        BY <4>1, FS_Interval DEF Entries
    <3>3. IsFiniteSet(S)
      BY <3>2, FS_Subset
    <3>4. Cardinality(S \cup {e}) = Cardinality(S) + 1
      BY <3>1, <3>3, FS_AddElement
    <3>. QED
      BY <1>1, <2>1, <2>2, <3>1, <3>4
  <2>3. CASE w # v
    <3>1. T = S
      BY <1>1, <2>3, CatalogAssumption
    <3>. QED
      BY <1>1, <2>1, <2>3, <3>1
  <2>. QED
    BY <2>2, <2>3
<1>. QED
  BY <1>1, <1>2 DEF CountsAreReceipts

LEMMA RecordStep == ASSUME SubmissionInv, NEW d \in Deliveries, Record(d) PROVE SubmissionInv'
<1>. DEFINE q == delivery[d]
<1>1. /\ q.phase = "record" /\ Conclude(d, "ok", q.entry) /\ UNCHANGED <<now, accepted, member>>
      /\ \E stamp \in q.stamp..now : RecordSubmission(q.entry, q.video, stamp)
  BY DEF Record, In
<1>2. PICK stamp \in q.stamp..now : RecordSubmission(q.entry, q.video, stamp)
  BY <1>1
<1>3. stamp \in Times
  BY <1>2, DeliveryType, CatalogAssumption DEF Times
<1>4. /\ q.entry # NoEntry /\ q.entry \in DOMAIN accepted
      /\ accepted[q.entry] = [request |-> q.request, video |-> q.video]
      /\ q.entry \in Entries /\ q.video \in Videos
  BY <1>1, DeliveryType DEF Names, SubmissionInv, SubmissionTypeOK
<1>5. CatalogTypeOK'
  BY <1>1, <1>2, <1>3, <1>4, RecordSubmissionType DEF SubmissionInv, SubmissionTypeOK
<1>6. PopularityIsEarned'
  <2>1. CatalogTypeOK /\ PopularityIsEarned
    BY DEF SubmissionInv, SubmissionTypeOK
  <2>2. /\ CountsAreReceipts' /\ receipt'[q.entry] = q.video
        /\ \A x \in Entries \ {q.entry} : receipt'[x] = receipt[x]
    BY <1>2, <1>4, <2>1, CountEffect DEF PopularityIsEarned
  <2>3. ASSUME NEW e \in Entries, receipt'[e] # NoVideo
        PROVE  e \in DOMAIN accepted' /\ accepted'[e].video = receipt'[e]
    <3>1. CASE e = q.entry
      BY <1>1, <1>4, <2>2, <3>1
    <3>2. CASE e # q.entry
      BY <1>1, <2>1, <2>2, <2>3, <3>2 DEF PopularityIsEarned
    <3>. QED
      BY <3>1, <3>2
  <2>. QED
    BY <2>2, <2>3 DEF PopularityIsEarned
<1>. QED
  BY <1>1, <1>4, <1>5, <1>6, ConcludeStep

\* The steps of a submission leave the budget alone.
LEMMA SubmissionStep ==
  ASSUME SubmissionInv, SubmissionNext
  PROVE  SubmissionInv' /\ UNCHANGED usage
<1>1. ASSUME UNCHANGED <<catalogVars, accepted>>
      PROVE  CatalogTypeOK' /\ PopularityIsEarned'
  BY <1>1, SameCatalog, EarnedFrame DEF SubmissionInv, SubmissionTypeOK, catalogVars
<1>2. ASSUME NEW d \in Deliveries, NEW outcome \in {"forbidden", "failed"},
             Conclude(d, outcome, NoEntry), UNCHANGED <<catalogVars, accepted, member>>
      PROVE  SubmissionInv'
  BY <1>1, <1>2, ConcludeStep
<1>3. ASSUME NEW d \in Deliveries, NEW phase \in {"provider", "submit"}, Advance(d, phase),
             UNCHANGED <<catalogVars, accepted, member>>
      PROVE  SubmissionInv'
  <2>. DEFINE y == [delivery[d] EXCEPT !.phase = phase]
  <2>1. delivery' = [delivery EXCEPT ![d] = y]
    BY <1>3 DEF Advance
  <2>2. /\ y \in Delivery /\ y.phase = phase /\ y.entry = delivery[d].entry
        /\ y.changed = delivery[d].changed /\ y.request = delivery[d].request
        /\ y.video = delivery[d].video
    BY DeliveryType DEF Delivery
  <2>. HIDE DEF y
  <2>3. Names(y)
    BY <2>2, DeliveryType DEF Names
  <2>. QED
    BY <1>1, <1>3, <2>1, <2>2, <2>3, DeliveryStep
<1>4. ASSUME NEW d \in Deliveries, NEW r \in RequestIds, NEW v \in Videos, Submit(d, r, v)
      PROVE  SubmissionInv'
  <2>. DEFINE y == [delivery[d] EXCEPT !.phase = IF member THEN "receipt" ELSE "answered",
                                       !.request = r, !.video = v,
                                       !.outcome = IF member THEN "none" ELSE "forbidden"]
  <2>1. delivery' = [delivery EXCEPT ![d] = y] /\ delivery[d].phase = "idle"
    BY <1>4 DEF Submit, In
  <2>2. /\ y \in Delivery /\ y.phase \in {"receipt", "answered"}
        /\ y.entry = delivery[d].entry /\ y.changed = delivery[d].changed
    BY DeliveryType DEF Delivery
  <2>. HIDE DEF y
  <2>3. Names(y) /\ ~y.changed
    BY <2>1, <2>2, DeliveryType DEF Names
  <2>. QED
    BY <1>1, <1>4, <2>1, <2>2, <2>3, DeliveryStep DEF Submit
<1>5. ASSUME NEW d \in Deliveries, CheckReceipt(d) PROVE SubmissionInv'
  BY <1>2, <1>3, <1>5, ReplayStep DEF CheckReceipt
<1>6. ASSUME NEW d \in Deliveries, Commit(d) PROVE SubmissionInv'
  BY <1>2, <1>6, ReplayStep, AcceptStep DEF Commit
<1>7. ASSUME NEW d \in Deliveries, LookUp(d) \/ SubmitFails(d) \/ Abandon(d) PROVE SubmissionInv'
  BY <1>2, <1>3, <1>7 DEF LookUp, SubmitFails, Abandon
<1>8. ASSUME NEW d \in Deliveries, RecordFails(d) PROVE SubmissionInv'
  <2>1. /\ Conclude(d, "ok", delivery[d].entry) /\ UNCHANGED <<catalogVars, accepted, member>>
        /\ delivery[d].entry \in Entries \cup {NoEntry}
    BY <1>8, DeliveryType DEF RecordFails, Delivery
  <2>. QED
    BY <1>1, <2>1, DeliveryType, ConcludeStep DEF Names
<1>9. ASSUME Leave PROVE SubmissionInv'
  <2>1. \A q : Names(q) => Names(q)'
    BY <1>9 DEF Names, Prior, Leave
  <2>. QED
    BY <1>1, <1>9, <2>1 DEF Leave, SubmissionInv, SubmissionTypeOK, EntriesFit, ChangedOnce
<1>10. UNCHANGED usage
  BY DEF SubmissionNext, Submit, CheckReceipt, LookUp, Commit, SubmitFails, Record, RecordFails,
         Abandon, Leave, catalogVars, RecordSubmission
<1>. QED
  BY <1>4, <1>5, <1>6, <1>7, <1>8, <1>9, <1>10, RecordStep DEF SubmissionNext

-----------------------------------------------------------------------------
(* Both services over their catalogue.                                     *)

ServiceInv == SearchInv /\ SubmissionInv

\* Steps that leave the submissions, the counts and the receipts alone.
LEMMA SubmissionFrame ==
  ASSUME SubmissionInv, CatalogTypeOK', UNCHANGED <<submissionVars, popularity, receipt>>
  PROVE  SubmissionInv'
<1>1. PopularityIsEarned'
  BY EarnedFrame DEF SubmissionInv, submissionVars
<1>2. \A q : Names(q) => Names(q)'
  BY DEF Names, Prior, submissionVars
<1>. QED
  BY <1>1, <1>2 DEF SubmissionInv, SubmissionTypeOK, EntriesFit, ChangedOnce, submissionVars

\* A search writes texts, results and the budget, never counts or receipts.
LEMMA SearchLeavesCounts == SearchNext \/ Environment => UNCHANGED <<popularity, receipt>>
BY DEF SearchNext, Call, AnswerFromCatalog, Join, Start, TakeOutcome, GiveUp, Disconnect,
       Run, Lookup, LookupFails, Reserve, OverBudget, ReserveFails, ProviderAnswers, ProviderFails,
       Publish, Save, SaveFails, Timeout, Panic, Remove, DeadlinePasses, Restart, Environment,
       ReserveSearch, SaveSearch, CleanupCatalog, CatalogTick, catalogVars

LEMMA SearchStep == ASSUME SearchInv, SearchNext PROVE SearchInv'
BY CallStep, RunStep, RestartStep DEF SearchNext

LEMMA InvariantInit == ServiceInit => ServiceInv
BY SearchStart, SubmissionStart DEF ServiceInit, ServiceInv

LEMMA InvariantStep == ServiceInv /\ [ServiceNext]_serviceVars => ServiceInv'
<1>. SUFFICES ASSUME ServiceInv, [ServiceNext]_serviceVars PROVE ServiceInv'
  OBVIOUS
<1>t. SearchInv /\ SubmissionInv /\ CatalogTypeOK
  BY DEF ServiceInv, SearchInv, SearchTypeOK
<1>1. CASE SearchNext /\ UNCHANGED submissionVars
  <2>1. SearchInv' /\ CatalogTypeOK'
    BY <1>t, <1>1, SearchStep DEF SearchInv, SearchTypeOK
  <2>. QED
    BY <1>t, <1>1, <2>1, SearchLeavesCounts, SubmissionFrame DEF ServiceInv
<1>2. CASE SubmissionNext /\ UNCHANGED searchVars
  <2>1. SubmissionInv' /\ CatalogTypeOK' /\ UNCHANGED usage
    BY <1>t, <1>2, SubmissionStep DEF SubmissionInv, SubmissionTypeOK
  <2>. QED
    BY <1>t, <1>2, <2>1, SearchFrame DEF ServiceInv
<1>3. CASE Environment /\ UNCHANGED submissionVars
  <2>1. CatalogTypeOK' /\ UNCHANGED <<searchVars, usage>>
    BY <1>t, <1>3, CleanupType, TickType DEF Environment, CleanupCatalog, CatalogTick
  <2>. QED
    BY <1>t, <1>3, <2>1, SearchLeavesCounts, SearchFrame, SubmissionFrame DEF ServiceInv
<1>4. CASE UNCHANGED serviceVars
  <2>1. CatalogTypeOK' /\ UNCHANGED <<searchVars, submissionVars, usage, popularity, receipt>>
    BY <1>t, <1>4, SameCatalog DEF serviceVars, catalogVars
  <2>. QED
    BY <1>t, <2>1, SearchFrame, SubmissionFrame DEF ServiceInv
<1>. QED
  BY <1>1, <1>2, <1>3, <1>4 DEF ServiceNext

\* The strengthening that the theorems below need holds in every state.
THEOREM Invariant == ServiceSpec => []ServiceInv
BY InvariantInit, InvariantStep, PTL DEF ServiceSpec

\* Tables, flights, requests and deliveries keep their types: the daily budget
\* is within its limit and who waits has a flight to wait for (search/mod.rs,
\* queue/mod.rs, database/catalog.rs).
THEOREM TypeCorrect == ServiceSpec => []ServiceTypeOK
<1>1. ServiceInv => ServiceTypeOK
  BY DEF ServiceInv, SearchInv, SubmissionInv, ServiceTypeOK
<1>. QED
  BY <1>1, Invariant, PTL

\* The provider is asked within the reservations of the day and its limit, and
\* a query has one attempt under way, the one in the map (run_discovery and
\* discover of search/mod.rs, reserve_search of database/catalog.rs).
THEOREM AskedSparingly == ServiceSpec => []ProviderAskedSparingly
<1>1. ServiceInv => ProviderAskedSparingly
  <2>. SUFFICES ASSUME ServiceInv PROVE ProviderAskedSparingly
    OBVIOUS
  <2>1. \A d \in Days : sent[d] <= usage[d] /\ usage[d] <= DailyLimit
    BY CatalogAssumption DEF ServiceInv, SearchInv, SearchTypeOK, CatalogTypeOK
  <2>2. \A f \in Flights : Running(f) => current[flight[f].query] = f
    BY DEF ServiceInv, SearchInv, InMap, Running
  <2>. QED
    BY <2>1, <2>2 DEF ProviderAskedSparingly
<1>. QED
  BY <1>1, Invariant, PTL

\* All deliveries of a request that succeed name its one entry, and one of them
\* at most is told of a change (submit of queue/mod.rs, submit_queue of
\* database/queue.rs).
THEOREM DeliveriesName == ServiceSpec => []DeliveriesAgree
<1>1. ServiceInv => DeliveriesAgree
  BY NamesAgree DEF ServiceInv
<1>. QED
  BY <1>1, Invariant, PTL

\* Counts are receipts and receipts are of accepted entries, after any
\* interleaving of deliveries, failures and repetitions (record_submission).
THEOREM PopularityEarned == ServiceSpec => []PopularityIsEarned
<1>1. ServiceInv => PopularityIsEarned
  BY DEF ServiceInv, SubmissionInv
<1>. QED
  BY <1>1, Invariant, PTL

-----------------------------------------------------------------------------
(* What a step may never do.                                               *)

\* Texts change by an upsert with a reading of the clock or by the clean-up.
LEMMA TextChanges ==
  ASSUME ServiceInv, [ServiceNext]_serviceVars
  PROVE  \/ UNCHANGED text
         \/ \E videos, stamp : stamp \in Times /\ Upsert(videos, stamp)
         \/ CleanupCatalog
<1>1. ASSUME NEW f \in Flights, Save(f)
      PROVE  \E videos, stamp : stamp \in Times /\ Upsert(videos, stamp)
  BY <1>1, FlightType DEF Save, SaveSearch, ServiceInv
<1>2. ASSUME NEW d \in Deliveries, Record(d)
      PROVE  \E videos, stamp : stamp \in Times /\ Upsert(videos, stamp)
  <2>1. PICK stamp \in delivery[d].stamp..now :
          RecordSubmission(delivery[d].entry, delivery[d].video, stamp)
    BY <1>2 DEF Record
  <2>2. stamp \in Times
    BY <2>1, DeliveryType, CatalogAssumption DEF Times, ServiceInv
  <2>. QED
    BY <2>1, <2>2 DEF RecordSubmission
<1>3. ASSUME SearchNext, \A f \in Flights : ~Save(f)
      PROVE  UNCHANGED text \/ CleanupCatalog
  BY <1>3 DEF SearchNext, Call, AnswerFromCatalog, Join, Start, TakeOutcome, GiveUp, Disconnect,
       Run, Lookup, LookupFails, Reserve, OverBudget, ReserveFails, ProviderAnswers, ProviderFails,
       Publish, SaveFails, Timeout, Panic, Remove, DeadlinePasses, Restart, ReserveSearch,
       catalogVars
<1>4. ASSUME SubmissionNext, \A d \in Deliveries : ~Record(d)
      PROVE  UNCHANGED text
  BY <1>4 DEF SubmissionNext, Submit, CheckReceipt, LookUp, Commit, SubmitFails, RecordFails,
       Abandon, Leave, catalogVars
<1>5. Environment \/ UNCHANGED serviceVars => UNCHANGED text \/ CleanupCatalog
  BY DEF Environment, CatalogTick, serviceVars, catalogVars
<1>. QED
  BY <1>1, <1>2, <1>3, <1>4, <1>5 DEF ServiceNext

\* A song's text is replaced only by later text and removed only when expired,
\* whichever order the writes of searches and submissions commit in
\* (upsert_song and cleanup_catalog of database/catalog.rs).
THEOREM TextAdvances == ServiceSpec => TextNeverGoesBack
<1>1. ASSUME ServiceInv, [ServiceNext]_serviceVars, NEW v \in Videos, text'[v] < text[v]
      PROVE  text'[v] = Never /\ text[v] + Month <= now
  <2>1. CatalogTypeOK /\ text[v] \in Int
    BY <1>1, CatalogAssumption
       DEF ServiceInv, SearchInv, SearchTypeOK, CatalogTypeOK, Times, Never
  <2>2. CASE UNCHANGED text
    BY <1>1, <2>1, <2>2
  <2>3. ASSUME NEW videos, NEW stamp \in Times, Upsert(videos, stamp) PROVE FALSE
    <3>1. text'[v] >= text[v] /\ text'[v] \in Times \cup {Never}
      BY <2>1, <2>3, UpsertEffect
    <3>. QED
      BY <1>1, <2>1, <3>1, CatalogAssumption DEF Times, Never
  <2>4. CASE CleanupCatalog
    <3>1. text'[v] = IF text[v] # Never /\ text[v] + Month <= now THEN Never ELSE text[v]
      BY <2>4 DEF CleanupCatalog
    <3>. QED
      BY <1>1, <2>1, <3>1
  <2>. QED
    BY <1>1, <2>2, <2>3, <2>4, TextChanges
<1>2. ServiceInv /\ [ServiceNext]_serviceVars =>
        [\A v \in Videos :
           text'[v] < text[v] => text'[v] = Never /\ text[v] + Month <= now]_catalogVars
  BY <1>1
<1>. QED
  BY <1>2, Invariant, PTL DEF ServiceSpec, TextNeverGoesBack

\* Only a member's submission is accepted, however long the provider took
\* (submit_queue authorises in the transaction that writes).
THEOREM DepartedAdd == ServiceSpec => DepartedAddNothing
<1>1. [ServiceNext]_serviceVars => (accepted' # accepted => member)
  <2>1. SubmissionNext => (accepted' # accepted => member)
    BY DEF SubmissionNext, Submit, CheckReceipt, LookUp, Commit, SubmitFails, Record, RecordFails,
           Abandon, Leave
  <2>. QED
    BY <2>1 DEF ServiceNext, serviceVars, submissionVars
<1>2. [ServiceNext]_serviceVars => [accepted' # accepted => member]_<<accepted, member>>
  BY <1>1
<1>. QED
  BY <1>2, PTL DEF ServiceSpec, DepartedAddNothing

\* A published result stays, and every caller of the flight that is answered
\* from then on has it (run_discovery, Drop and discover of search/mod.rs).
THEOREM FreshReaches == ServiceSpec => FreshReachesCallers
<1>1. ASSUME ServiceInv, [ServiceNext]_serviceVars, NEW f \in Flights, flight[f].outcome = "fresh"
      PROVE  /\ flight'[f].outcome = "fresh"
             /\ \A c \in Callers :
                  caller[c].flight = f /\ caller[c].phase = "waiting"
                    /\ caller'[c].phase = "answered" => caller'[c].status = "fresh"
  <2>t. SearchInv
    BY <1>1 DEF ServiceInv
  <2>1. ASSUME NEW g \in Flights, Run(g)
        PROVE  flight'[f].outcome = "fresh" /\ UNCHANGED caller
    <3>1. PICK y : flight' = [flight EXCEPT ![g] = y] /\ Successor(flight[g], y)
      BY <2>t, <2>1, RunEffect DEF Moves
    <3>2. flight'[f].outcome = "fresh"
      BY <1>1, <2>t, <3>1 DEF Successor, SearchInv, SearchTypeOK
    <3>. QED
      BY <2>1, <3>2
         DEF Run, Lookup, LookupFails, Reserve, OverBudget, ReserveFails, ProviderAnswers,
             ProviderFails, Publish, Save, SaveFails, Timeout, Panic, Remove, DeadlinePasses
  <2>2. ASSUME NEW x \in Callers, Call(x)
        PROVE  /\ flight'[f].outcome = "fresh"
               /\ \A c \in Callers :
                    caller[c].flight = f /\ caller[c].phase = "waiting"
                      /\ caller'[c].phase = "answered" => caller'[c].status = "fresh"
    <3>1. caller \in [Callers -> Caller] /\ flight \in [Flights -> Flight]
      BY <2>t DEF SearchInv, SearchTypeOK
    <3>2. CASE AnswerFromCatalog(x) \/ \E q \in Queries : Join(x, q)
      BY <1>1, <3>1, <3>2 DEF AnswerFromCatalog, Join, Reply, Wait
    <3>3. CASE \E q \in Queries, g \in Flights : Start(x, q, g)
      <4>1. PICK q \in Queries, g \in Flights : Start(x, q, g)
        BY <3>3
      <4>2. g # f
        BY <1>1, <2>t, <4>1, FlightType DEF Start, At, Sound
      <4>. QED
        BY <1>1, <3>1, <4>1, <4>2 DEF Start, Wait
    <3>4. CASE TakeOutcome(x) \/ GiveUp(x)
      <4>1. UNCHANGED flight
        BY <3>4 DEF TakeOutcome, GiveUp
      <4>2. PICK status : Reply(x, status) /\ (caller[x].flight = f => status = "fresh")
        BY <1>1, <3>4 DEF TakeOutcome, GiveUp
      <4>3. /\ caller'[x].status = status
            /\ \A c \in Callers \ {x} : caller'[c] = caller[c]
        BY <3>1, <4>2 DEF Reply
      <4>. QED
        BY <1>1, <4>1, <4>2, <4>3
    <3>5. CASE Disconnect(x)
      <4>1. caller'[x].phase = "gone" /\ \A c \in Callers \ {x} : caller'[c] = caller[c]
        BY <3>1, <3>5 DEF Disconnect, Caller
      <4>. QED
        BY <1>1, <3>5, <4>1 DEF Disconnect
    <3>. QED
      BY <2>2, <3>2, <3>3, <3>4, <3>5 DEF Call
  <2>3. CASE Restart
    <3>1. flight'[f].outcome = flight[f].outcome
      BY <2>3 DEF Restart
    <3>2. \A c \in Callers : caller[c].phase = "waiting" => caller'[c].phase = "gone"
      BY <2>t, <2>3 DEF Restart, SearchInv, SearchTypeOK, Caller
    <3>. QED
      BY <1>1, <3>1, <3>2
  <2>4. CASE UNCHANGED searchVars
    BY <1>1, <2>4 DEF searchVars
  <2>. QED
    BY <1>1, <2>1, <2>2, <2>3, <2>4
       DEF ServiceNext, SearchNext, Environment, serviceVars, searchVars
<1>2. ServiceInv /\ [ServiceNext]_serviceVars =>
        [\A f \in Flights : flight[f].outcome = "fresh" =>
           /\ flight'[f].outcome = "fresh"
           /\ \A c \in Callers :
                caller[c].flight = f /\ caller[c].phase = "waiting" /\ caller'[c].phase = "answered"
                  => caller'[c].status = "fresh"]_vars
  BY <1>1
<1>. QED
  BY <1>2, Invariant, PTL DEF ServiceSpec, FreshReachesCallers
=============================================================================
