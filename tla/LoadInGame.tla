----------------------------- MODULE LoadInGame -----------------------------
(***************************************************************************)
(* The load-in-game feature: players who have loaded the map wait behind a *)
(* "lag" screen that lists those who have not, and the bot renews that     *)
(* screen with empty updates.  What can desync a game (player loaded       *)
(* messages, updates, player leaves) cannot be sent to a client that is    *)
(* still loading and is buffered for it (CBaseGame::Update,                *)
(* EventGameStarted, EventPlayerLoaded, EventPlayerDeleted).               *)
(*                                                                         *)
(* A message is counted as delivered when it is sent: TCP keeps the order. *)
(***************************************************************************)
EXTENDS Game, Naturals, Sequences, FiniteSets, SequencesExt

CONSTANTS
  GProxyPlayers,  \* those who use GProxy++
  EmptyActions,   \* m_GProxyEmptyActions
  MaxResets       \* bound: renewals of the screen while the game loads

ASSUME LoadAssumption ==
  /\ IsFiniteSet(Players) /\ GProxyPlayers \subseteq Players
  /\ EmptyActions \in Nat /\ MaxResets \in Nat

VARIABLES
  loading,     \* m_GameLoading; m_GameLoaded once it is FALSE
  loaded,      \* the players whose m_FinishedLoading is set
  buffered,    \* m_LoadInGameData of each player
  delivered,   \* the desyncable messages sent to each player
  view,        \* who is on the lag screen of each player's client
  resets       \* how often the screen was renewed

loadVars == <<players, loading, loaded, buffered, delivered, view, resets>>

LoadedMsg(p) == <<"loaded", p>>   \* W3GS_GAMELOADED_OTHERS
LeaveMsg(p)  == <<"leave", p>>    \* W3GS_PLAYERLEAVE_OTHERS
EmptyUpdate  == <<"update">>      \* W3GS_INCOMING_ACTION without an action
Msgs == {LoadedMsg(p) : p \in Players} \cup {LeaveMsg(p) : p \in Players} \cup {EmptyUpdate}

Loading == players \ loaded

\* Hand the messages to every player of the game: now if it has loaded the map,
\* into its buffer if it has not.
Distribute(msgs) ==
  /\ delivered' = [q \in Players |-> IF q \in players /\ q \in loaded
                                     THEN delivered[q] \o msgs[q] ELSE delivered[q]]
  /\ buffered' = [q \in Players |-> IF q \in players /\ q \notin loaded
                                    THEN buffered[q] \o msgs[q] ELSE buffered[q]]

-----------------------------------------------------------------------------

\* EventGameStarted: the loaded messages of all players are buffered for all.  (That of the
\* fake player was sent to all of them at once before; it comes first in every game and
\* is left out.)
LoadInit ==
  /\ players = Players /\ loading = TRUE /\ loaded = {}
  /\ buffered \in {[q \in Players |-> [i \in 1..Len(order) |-> LoadedMsg(order[i])]] :
                      order \in SetToSeqs(Players)}
  /\ delivered = [q \in Players |-> <<>>]
  /\ view = [q \in Players |-> {}]
  /\ resets = 0

\* EventPlayerLoaded: the buffer is sent, then the player gets the lag screen if
\* somebody is still loading, and leaves the screens of the others.
\* (Mutant: it stays on the screens of the others.)
PlayerLoadedUnseen(p) ==
  /\ loading /\ p \in Loading
  /\ loaded' = loaded \cup {p}
  /\ delivered' = [delivered EXCEPT ![p] = @ \o buffered[p]]
  /\ buffered' = [buffered EXCEPT ![p] = <<>>]
  /\ view' = [view EXCEPT ![p] = Loading \ {p}]
  /\ UNCHANGED <<players, loading, resets>>

PlayerLoaded(p) ==
  /\ loading /\ p \in Loading
  /\ loaded' = loaded \cup {p}
  /\ delivered' = [delivered EXCEPT ![p] = @ \o buffered[p]]
  /\ buffered' = [buffered EXCEPT ![p] = <<>>]
  /\ view' = [q \in Players |-> IF q = p THEN Loading \ {p}
                                ELSE IF q \in loaded THEN view[q] \ {p} ELSE view[q]]
  /\ UNCHANGED <<players, loading, resets>>

\* EventPlayerDeleted and the removal of the player; with the game loaded the leave
\* is sent to everybody.
PlayerDeleted(p) ==
  /\ p \in players
  /\ IF loading
     THEN /\ Distribute([q \in Players |-> <<LeaveMsg(p)>>])
          /\ view' = [q \in Players |-> IF q \in loaded /\ p \notin loaded
                                        THEN view[q] \ {p} ELSE view[q]]
     ELSE /\ delivered' = [q \in Players |-> IF q \in players
                                             THEN Append(delivered[q], LeaveMsg(p))
                                             ELSE delivered[q]]
          /\ UNCHANGED <<buffered, view>>
  /\ players' = players \ {p}
  /\ UNCHANGED <<loading, loaded, resets>>

\* Update: everyone has finished loading.
GameLoaded ==
  /\ loading /\ players # {} /\ Loading = {}
  /\ loading' = FALSE
  /\ UNCHANGED <<players, loaded, buffered, delivered, view, resets>>

\* The empty updates a player is sent: with a GProxy++ player in the game, as many as
\* its GProxy++ makes of one.  (Mutant: the others get one too.)
OneEmpty(q) == 1
Empties(q) == IF players \cap GProxyPlayers # {} /\ q \notin GProxyPlayers
              THEN EmptyActions + 1 ELSE 1

\* Update, every 30 seconds: the screen is taken down, an empty update is sent or
\* buffered, with the extra ones GProxy++ clients make for themselves, and the
\* screen is put up again.
ResetScreen ==
  /\ loading /\ Loading # {}
  /\ resets < MaxResets
  /\ resets' = resets + 1
  /\ Distribute([q \in Players |-> [i \in 1..Empties(q) |-> EmptyUpdate]])
  /\ view' = [q \in Players |-> IF q \in players \cap loaded
                                THEN (view[q] \ Loading) \cup Loading ELSE view[q]]
  /\ UNCHANGED <<players, loading, loaded>>

LoadNext ==
  \/ \E p \in Players : PlayerLoaded(p) \/ PlayerDeleted(p)
  \/ GameLoaded
  \/ ResetScreen

LoadSpec == LoadInit /\ [][LoadNext]_loadVars

-----------------------------------------------------------------------------
(* Properties                                                              *)

LoadTypeOK ==
  /\ players \subseteq Players /\ loaded \subseteq Players /\ loading \in BOOLEAN
  /\ ~loading => players \subseteq loaded
  /\ buffered \in [Players -> Seq(Msgs)] /\ delivered \in [Players -> Seq(Msgs)]
  /\ view \in [Players -> SUBSET Players]
  /\ resets \in 0..MaxResets

\* A message in the game of a client: GProxy++ puts the extra empty updates in front of
\* each one it receives.
Expand(p, m) == IF p \in GProxyPlayers /\ m = EmptyUpdate
                THEN [i \in 1..(EmptyActions + 1) |-> EmptyUpdate] ELSE <<m>>

\* What the game of a client goes through.
Played(p, msgs) == FoldLeft(LAMBDA game, m : game \o Expand(p, m), <<>>, msgs)

\* "Every player receives the exact same desyncable game data in the exact same
\* order": whatever was sent and is buffered for two players of the game agrees, with
\* and without GProxy++, and whenever each of them finished loading.
SameGameData ==
  \A p, q \in players :
     Played(p, delivered[p] \o buffered[p]) = Played(q, delivered[q] \o buffered[q])

\* A client that loads gets nothing that can desync it, and one that has loaded
\* waits for nothing.
NothingTooEarly ==
  \A p \in players : IF p \in loaded THEN buffered[p] = <<>> ELSE delivered[p] = <<>>

\* Both: all clients get the same game, each from the moment it can take it.
SameGameInTime == LoadTypeOK /\ SameGameData /\ NothingTooEarly

\* A client that has loaded is shown exactly those who have not, through arrivals,
\* departures and renewals, and the screen is gone when the game starts to run.
ScreensAgree == \A p \in players \cap loaded : view[p] = Loading

=============================================================================
