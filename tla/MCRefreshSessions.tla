------------------------ MODULE MCRefreshSessions ------------------------
(* Instances of RefreshSessions for TLC.  Credentials, requests and accounts *)
(* are only ever compared for equality, so they are interchangeable.         *)
EXTENDS RefreshSessions, TLC

Symmetry == Permutations(Tokens) \cup Permutations(Requests) \cup Permutations(Users)
=============================================================================
