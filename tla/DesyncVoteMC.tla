---------------------------- MODULE DesyncVoteMC ----------------------------
(* Four interchangeable players: two pairs can tie, and a group of two can   *)
(* outvote two single players.                                               *)
EXTENDS DesyncVote, TLC

CONSTANTS p1, p2, p3, p4

MCPlayers == {p1, p2, p3, p4}
Symmetry  == Permutations(MCPlayers)
=============================================================================
