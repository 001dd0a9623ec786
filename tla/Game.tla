-------------------------------- MODULE Game --------------------------------
(***************************************************************************)
(* What the models of CBaseGame share: the players of one game.  Each of   *)
(* them says whether it needs their order.                                 *)
(***************************************************************************)

CONSTANT Players   \* the players of the game or of its lobby

VARIABLE players   \* m_Players: those who are in it
=============================================================================
