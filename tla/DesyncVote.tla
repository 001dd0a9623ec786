----------------------------- MODULE DesyncVote -----------------------------
(***************************************************************************)
(* Desync detection (CBaseGame::EventPlayerKeepAlive): every keepalive of  *)
(* a running game carries a checksum of the player's game state, the bot   *)
(* compares the checksums of one frame once every player has sent it, and  *)
(* drops those outside the largest group, or everybody if two groups are   *)
(* the largest.                                                            *)
(*                                                                         *)
(* Frames are numbered by the keepalives a player has sent.  What a player *)
(* has sent is kept as history; the bot only has the queues.               *)
(***************************************************************************)
EXTENDS Game, Naturals, Sequences, FiniteSets, SequencesExt

CONSTANTS
  MaxSum,     \* bound: checksums are 1..MaxSum
  MaxFrames   \* bound: keepalives a player sends

ASSUME DesyncAssumption ==
  /\ IsFiniteSet(Players)
  /\ MaxSum \in Nat \ {0} /\ MaxFrames \in Nat

VARIABLES
  deleteMe,   \* the players whose m_DeleteMe is set
  checkSums,  \* m_CheckSums of each player
  \* history
  sums,       \* the checksums each player has sent
  judged,     \* how many frames have been compared
  desynced,   \* the players that were dropped for a desync
  stranded    \* the fewest complete frames that waited since somebody last left

voteVars == <<players, deleteMe, checkSums, sums, judged, desynced, stranded>>

Live == players \ deleteMe

-----------------------------------------------------------------------------
(* The vote over the front of the queues                                    *)

\* The bins: who has sent this checksum.
Bin(queues, c) == {p \in Live : Head(queues[p]) = c}

\* The bins of the map, in the order of their keys, are scanned for the largest;
\* a later one of the same size as the largest so far is a tie.  (A checksum that nobody
\* has sent has no bin, and changes nothing here.)
ScanBin(size, acc, c) ==
  IF size[c] > size[acc.largest] THEN [largest |-> c, tied |-> FALSE]
  ELSE IF c # acc.largest /\ size[c] = size[acc.largest]
  THEN [largest |-> acc.largest, tied |-> TRUE]
  ELSE acc

Scan(queues) ==
  LET size  == [c \in 1..MaxSum |-> Cardinality(Bin(queues, c))]
      first == CHOOSE c \in 1..MaxSum : size[c] > 0 /\ \A d \in 1..(c - 1) : size[d] = 0
  IN  FoldLeft(LAMBDA acc, c : ScanBin(size, acc, c), [largest |-> first, tied |-> FALSE],
               [c \in 1..MaxSum |-> c])

\* Who is dropped: nobody if all agree, everybody on a tie (StopPlayers, which does
\* not spare those already dropped), else all outside the largest bin.
\* (Mutants: a tie drops nobody; the largest bin is dropped.)
LosersNoTie(queues) ==
  LET vote == Scan(queues)
  IN  IF vote.tied \/ \A p, q \in Live : Head(queues[p]) = Head(queues[q]) THEN {}
      ELSE Live \ Bin(queues, vote.largest)

LosersLargest(queues) ==
  LET vote == Scan(queues)
  IN  IF \A p, q \in Live : Head(queues[p]) = Head(queues[q]) THEN {}
      ELSE IF vote.tied THEN players
      ELSE Bin(queues, vote.largest)

Losers(queues) ==
  LET vote == Scan(queues)
  IN  IF \A p, q \in Live : Head(queues[p]) = Head(queues[q]) THEN {}
      ELSE IF vote.tied THEN players
      ELSE Live \ Bin(queues, vote.largest)

\* Everybody still in the game has sent the frame.  (Mutant: everybody, gone or not.)
CompleteOfAll(queues) == Live # {} /\ \A q \in players : queues[q] # <<>>

Complete(queues) == Live # {} /\ \A q \in Live : queues[q] # <<>>

\* The frame is done with, for those who stay.
Popped(queues) ==
  [q \in Players |-> IF q \in Live \ Losers(queues) THEN Tail(queues[q]) ELSE queues[q]]

\* The complete frames that wait.
Lengths == {Len(checkSums[q]) : q \in Live}
Waiting == IF Live = {} THEN 0 ELSE Min(Lengths)

\* How many wait now, if somebody leaves or fewer do than before (history).
Strand ==
  stranded' = IF deleteMe' # deleteMe \/ Waiting' < stranded THEN Waiting' ELSE stranded

-----------------------------------------------------------------------------

VoteInit ==
  /\ players = Players /\ deleteMe = {} /\ desynced = {}
  /\ checkSums = [p \in Players |-> <<>>]
  /\ sums = [p \in Players |-> <<>>]
  /\ judged = 0 /\ stranded = 0

\* W3GS_OUTGOING_KEEPALIVE with checksum c, and EventPlayerKeepAlive.  A player that
\* was dropped is still heard until its own update deletes it.
EventPlayerKeepAlive(p, c) ==
  /\ p \in players
  /\ Len(sums[p]) < MaxFrames
  /\ sums' = [sums EXCEPT ![p] = Append(@, c)]
  /\ UNCHANGED players
  /\ LET queues == [checkSums EXCEPT ![p] = Append(@, c)] IN
     IF Complete(queues)
     THEN /\ deleteMe' = deleteMe \cup Losers(queues)
          /\ desynced' = desynced \cup Losers(queues)
          /\ checkSums' = Popped(queues)
          /\ judged' = judged + 1
     ELSE checkSums' = queues /\ UNCHANGED <<deleteMe, desynced, judged>>
  /\ Strand

\* Anything else that sets m_DeleteMe: the player leaves, is kicked, or lags out.
Drop(p) ==
  /\ p \in Live
  /\ deleteMe' = deleteMe \cup {p}
  /\ UNCHANGED <<players, checkSums, sums, judged, desynced>>
  /\ Strand

\* The player's own update deletes it, and all that is known of it.
PlayerDeleted(p) ==
  /\ p \in deleteMe
  /\ players' = players \ {p} /\ deleteMe' = deleteMe \ {p} /\ desynced' = desynced \ {p}
  /\ checkSums' = [checkSums EXCEPT ![p] = <<>>] /\ sums' = [sums EXCEPT ![p] = <<>>]
  /\ UNCHANGED <<judged, stranded>>

VoteNext == \E p \in Players : \/ \E c \in 1..MaxSum : EventPlayerKeepAlive(p, c)
                               \/ Drop(p) \/ PlayerDeleted(p)

VoteSpec == VoteInit /\ [][VoteNext]_voteVars

-----------------------------------------------------------------------------
(* Properties                                                              *)

VoteTypeOK ==
  /\ players \subseteq Players /\ deleteMe \subseteq players /\ desynced \subseteq deleteMe
  /\ checkSums \in [Players -> Seq(1..MaxSum)] /\ sums \in [Players -> Seq(1..MaxSum)]
  /\ judged \in Nat /\ stranded \in Nat

\* The queues stay aligned through drops and deletions: what is at the front of the
\* queue of each player still in the game is its checksum of the same frame.
QueuesAligned ==
  \A p \in Live : /\ judged <= Len(sums[p])
                  /\ checkSums[p] = SubSeq(sums[p], judged + 1, Len(sums[p]))

\* Nobody who desynced stays: the players in the game agree on every frame compared.
SurvivorsAgree ==
  \A p, q \in Live : \A f \in 1..judged : sums[p][f] = sums[q][f]

\* A player is dropped for a desync only if, on the frame compared, its state was not
\* the one state shared by the most players: a minority can outvote nobody.
Group(p, f) == {q \in Live : Len(sums'[q]) >= f /\ sums'[q][f] = sums'[p][f]}

OnlyMinoritiesDropped ==
  [][\A p \in Live :
        p \in desynced' =>
          \E q \in Live : /\ sums'[q][judged + 1] # sums'[p][judged + 1]
                          /\ Cardinality(Group(q, judged + 1)) >= Cardinality(Group(p, judged + 1))
    ]_voteVars

\* No complete frame waits longer than it must.  The bot compares frames only on a
\* keepalive, and one on each, so that a player who leaves can strand the frames that only
\* that player had not sent.  But no frame that is completed by a keepalive adds to them,
\* whoever sends what in which order: the number that waits only falls until somebody
\* leaves again, and none waits while nobody has left.
DetectedInTime == Live # {} => \E p \in Live : Len(checkSums[p]) <= stranded

\* The vote is about the right frame, at the right time, and leaves one state of the game:
\* each of the three would be of no use without the others.
VoteIsSound == VoteTypeOK /\ QueuesAligned /\ SurvivorsAgree /\ DetectedInTime

=============================================================================
