--------------------------- MODULE MCLobbyEvents ---------------------------
(* Instances of LobbyEvents for TLC; users are interchangeable.            *)
EXTENDS LobbyEvents, TLC

Symmetry == Permutations(Users)
=============================================================================
