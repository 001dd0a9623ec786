----------------------------- MODULE GameEndMC -----------------------------
(* An instance of GameEnd for model checking: two teams.                    *)
EXTENDS GameEnd

FourPlayers == <<"a", "b", "c", "d">>
Teams == [p \in {"a", "b", "c", "d"} |-> IF p = "d" THEN 2 ELSE 1]

=============================================================================
