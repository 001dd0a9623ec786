------------------------------ MODULE LobbyMC ------------------------------
(***************************************************************************)
(* Lobby for TLC: a game of three slots without matchmaking, and games of  *)
(* two slots with it.                                                      *)
(***************************************************************************)
EXTENDS Lobby

MatchingGame == {[slots |-> 2, matching |-> TRUE]}
TwoGames     == {[slots |-> 3, matching |-> FALSE]} \cup MatchingGame

=============================================================================
