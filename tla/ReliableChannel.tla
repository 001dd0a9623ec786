-------------------------- MODULE ReliableChannel --------------------------
(***************************************************************************)
(* What GProxy++ promises for one direction of a player's connection once  *)
(* the game is loaded: the packets one end counts as sent reach the other  *)
(* end exactly once and in the order in which they were sent, whatever     *)
(* happens to the TCP connections underneath, until the player is removed  *)
(* from the game.                                                          *)
(***************************************************************************)
EXTENDS Naturals, Sequences

VARIABLES sent,      \* how many packets the sending end has sent
          got,       \* what the receiving end has handled, by packet number
          open       \* FALSE once the player has been removed from the game

vars == <<sent, got, open>>

Init ==
  /\ sent \in Nat
  /\ got = [i \in 1..sent |-> i]
  /\ open = TRUE

\* The sender may send several packets in one step (a notice and its sequel).
SendSome ==
  /\ sent' \in Nat
  /\ sent' >= sent
  /\ UNCHANGED got

Deliver ==
  /\ Len(got) < sent
  /\ got' = Append(got, Len(got) + 1)
  /\ UNCHANGED sent

Next ==
  /\ SendSome \/ Deliver
  /\ open' \in {open, FALSE}

Spec == Init /\ [][Next]_vars

=============================================================================
