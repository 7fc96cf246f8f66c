---------------------------- MODULE SongService ----------------------------
(***************************************************************************)
(* Searches and submissions over the one catalogue they share: both write  *)
(* the text of a song, each with a clock reading of its own.               *)
(***************************************************************************)
EXTENDS SongSearch, Submission

CONSTANT MaxClients   \* bound on the searches and submissions of a behaviour

serviceVars == <<catalogVars, searchVars, submissionVars>>

ServiceTypeOK == SearchTypeOK /\ SubmissionTypeOK

ServiceInit == CatalogInit /\ SearchInit /\ SubmissionInit

Clients ==
  Cardinality({c \in Callers : caller[c].phase # "idle"})
    + Cardinality({d \in Deliveries : delivery[d].phase # "idle"})

ServiceNext ==
  /\ \/ SearchNext /\ UNCHANGED submissionVars
     \/ SubmissionNext /\ UNCHANGED searchVars
     \/ Environment /\ UNCHANGED submissionVars
  /\ Clients' <= MaxClients

ServiceSpec == ServiceInit /\ [][ServiceNext]_serviceVars
FairServiceSpec == ServiceSpec /\ SearchFairness
=============================================================================
