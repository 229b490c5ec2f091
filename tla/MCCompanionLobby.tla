-------------------------- MODULE MCCompanionLobby --------------------------
(***************************************************************************)
(* Small instances of CompanionLobby.                                      *)
(***************************************************************************)
EXTENDS CompanionLobby, TLC

\* The administrator removes every player or none, so that players are
\* interchangeable.
Symmetry == Permutations(Players) \cup Permutations(LobbyIds)
=============================================================================
