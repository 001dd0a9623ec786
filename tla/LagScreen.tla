----------------------------- MODULE LagScreen -----------------------------
(***************************************************************************)
(* The lockstep of a running game (game_base.cpp): actions are sent to     *)
(* every player, each answers with a keepalive, and a player that falls    *)
(* more than m_SyncLimit keepalives behind stops the game behind the lag   *)
(* screen until it has caught up, is voted out or has used up the waiting  *)
(* time.                                                                   *)
(*                                                                         *)
(* The bot is one thread: CBaseGame::Update first updates each player in   *)
(* turn (the packets of that player are handled there), then does its own  *)
(* work.  "todo" is the set of players this Update has still to visit.     *)
(* Time passes between Updates, in units the three timeouts are given in.  *)
(***************************************************************************)
EXTENDS Game, Integers, FiniteSets

CONSTANTS
  GProxyPlayers,  \* those who use GProxy++
  Prompt,         \* those who answer every action before the bot's next Update
  SyncLimit,      \* m_SyncLimit
  EmptyActions,   \* m_GProxyEmptyActions
  AutoSave,       \* m_AutoSave
  Reset,          \* the lag screen is renewed after this time (60 seconds)
  Silence,        \* a silent player has timed out after this time (30 seconds)
  Grace,          \* no player times out this soon after a lag screen (10 seconds)
  MaxAge          \* bound: ages of the lag screen beyond it are not told apart

\* The players are numbered in the order of m_Players.
ASSUME LagAssumption ==
  /\ Players \subseteq Nat /\ IsFiniteSet(Players)
  /\ GProxyPlayers \subseteq Players /\ Prompt \subseteq Players
  /\ SyncLimit \in Nat \ {0} /\ EmptyActions \in Nat /\ AutoSave \in BOOLEAN
  /\ Reset \in Nat /\ Silence \in Nat /\ Grace \in Nat
  /\ MaxAge \in Nat /\ MaxAge > (EmptyActions + 1) * Reset + 1

VARIABLES
  behind,      \* m_SyncCounter - (*i)->GetSyncCounter( ), for each player
  lagging,     \* the players whose m_Lagging is set
  lagScreen,   \* CBaseGame::m_Lagging
  votes,       \* the players whose m_DropVote is set
  dropped,     \* the players whose m_DeleteMe is set
  down,        \* GProxy++ players who are not connected
  todo,        \* the players this Update has still to visit
  lagAge,      \* GetTime( ) - m_StartedLaggingTime
  resetAge,    \* GetTime( ) - m_LastLagScreenResetTime
  screenAge,   \* GetTime( ) - m_LastLagScreenTime
  silent,      \* GetTime( ) - GetLastRecv( ), for each player
  \* history
  view,        \* the players shown on the lag screen of each player's client
  voted,       \* the players who asked to drop the laggers on the present screen
  starved,     \* time since the last action packet was sent
  autosaves,   \* how many actions were sent for players about to be dropped
  alive        \* has the game run or shown the lag screen since the last tick?

lock == <<players, behind, lagging, lagScreen, votes, dropped, down>>
ages == <<lagAge, resetAge, screenAge, silent>>
hist == <<view, voted, starved, autosaves, alive>>
vars == <<lock, todo, ages, hist>>

UsingGProxy(ps) == ps \cap GProxyPlayers # {}

WaitTime == IF UsingGProxy(players) THEN (EmptyActions + 1) * Reset ELSE Reset

\* An age one unit later; ages beyond the cap are not told apart.
Older(age, cap) == IF age < cap THEN age + 1 ELSE age

-----------------------------------------------------------------------------

\* EventGameLoaded has run: nobody has been sent an action yet.
Init ==
  /\ players = Players
  /\ behind = [p \in Players |-> 0]
  /\ lagging = {} /\ lagScreen = FALSE
  /\ votes = {} /\ dropped = {} /\ down = {}
  /\ todo = Players
  /\ lagAge = MaxAge /\ resetAge = Reset /\ screenAge = Grace
  /\ silent = [p \in Players |-> 0]
  /\ view = [p \in Players |-> {}]
  /\ voted = {} /\ starved = 0 /\ autosaves = 0 /\ alive = TRUE

-----------------------------------------------------------------------------
(* While a player is updated: its packets, then its deletion                *)

\* CBaseGame::Update has got to this player.
Visiting(p) == p \in todo /\ \A q \in todo : p <= q

\* W3GS_OUTGOING_KEEPALIVE.
KeepAlive(p) ==
  /\ Visiting(p) /\ p \notin down
  /\ behind[p] > 0
  /\ behind' = [behind EXCEPT ![p] = @ - 1]
  /\ silent' = [silent EXCEPT ![p] = 0]
  /\ UNCHANGED <<players, lagging, lagScreen, votes, dropped, down, todo,
                 lagAge, resetAge, screenAge, hist>>

\* W3GS_DROPREQ, EventPlayerDropRequest and StopLaggers.  A client asks when it has
\* somebody on its lag screen, but the request may arrive after the screen is gone.
\* (Of up to 48 players a share above 0.49 is half of them.)
DropRequest(p) ==
  /\ Visiting(p) /\ p \notin down
  /\ p \notin votes
  /\ votes' = votes \cup {p}
  /\ silent' = [silent EXCEPT ![p] = 0]
  /\ IF lagScreen
     THEN /\ voted' = voted \cup {p}
          /\ dropped' = IF 2 * Cardinality(votes') >= Cardinality(players)
                        THEN dropped \cup lagging ELSE dropped
     ELSE UNCHANGED <<voted, dropped>>
  /\ UNCHANGED <<players, behind, lagging, lagScreen, down, todo,
                 lagAge, resetAge, screenAge, view, starved, autosaves, alive>>

\* The rest of EventPlayerDeleted for a player of a running game, and its removal.
\* With autosave an action is sent first.
Delete(p, disconnected) ==
  LET left == players \ {p}
      sent == AutoSave /\ disconnected
  IN
  /\ players' = left
  /\ lagging' = lagging \ {p}
  /\ votes' = votes \ {p} /\ voted' = voted \ {p}
  /\ dropped' = dropped \ {p} /\ down' = down \ {p}
  /\ behind' = [q \in Players |-> IF q \notin left THEN 0
                                 ELSE IF sent THEN behind[q] + 1 ELSE behind[q]]
  /\ silent' = [silent EXCEPT ![p] = 0]
  /\ view' = [q \in Players |-> IF q \in left THEN view[q] \ {p} ELSE {}]
  /\ starved' = IF sent THEN 0 ELSE starved
  /\ autosaves' = IF sent THEN autosaves + 1 ELSE autosaves
  /\ UNCHANGED <<lagScreen, lagAge, resetAge, screenAge, alive>>

\* The end of a player's update: it is deleted if somebody dropped it (the laggers,
\* with PLAYERLEAVE_DISCONNECT).
UpdatePlayer(p) ==
  /\ Visiting(p)
  /\ p \in Prompt => behind[p] = 0
  /\ todo' = todo \ {p}
  /\ IF p \in dropped
     THEN Delete(p, TRUE)
     ELSE UNCHANGED <<lock, ages, hist>>

\* The player leaves (W3GS_LEAVEGAME).
Leave(p) ==
  /\ Visiting(p) /\ p \notin down \cup Prompt
  /\ todo' = todo \ {p}
  /\ Delete(p, FALSE)

\* Its connection breaks, and a GProxy++ player is kept; any player who sends a bad packet
\* is deleted, as is one without GProxy++ whose connection breaks.
Disconnect(p) ==
  /\ Visiting(p) /\ p \notin down \cup Prompt
  /\ \/ /\ p \in GProxyPlayers /\ down' = down \cup {p}
        /\ UNCHANGED <<players, behind, lagging, lagScreen, votes, dropped, todo, ages, hist>>
     \/ todo' = todo \ {p} /\ Delete(p, TRUE)

\* EventPlayerDisconnectTimedOut, of a player without GProxy++.  (Mutant: no grace.)
TimedOutNoGrace(p) ==
  /\ Visiting(p) /\ p \notin GProxyPlayers
  /\ silent[p] >= Silence
  /\ todo' = todo \ {p}
  /\ Delete(p, TRUE)

TimedOut(p) ==
  /\ Visiting(p) /\ p \notin GProxyPlayers
  /\ silent[p] >= Silence
  /\ screenAge >= Grace
  /\ todo' = todo \ {p}
  /\ Delete(p, TRUE)

-----------------------------------------------------------------------------
(* The rest of CBaseGame::Update                                            *)

\* The players who have started lagging, and the screen they start.
Started  == IF lagScreen THEN {} ELSE {p \in players : behind[p] > SyncLimit}
Screen   == lagScreen \/ Started # {}
Laggers  == lagging \cup Started
Caught   == {p \in Laggers : behind[p] < SyncLimit \div 2}

\* The time since the screen was started or renewed, and whether it has to be renewed, or
\* the laggers dropped.  (Mutants: each looks at the other's time.)
SinceStart    == IF Started # {} THEN 0 ELSE lagAge
SinceReset    == IF Started # {} THEN 0 ELSE resetAge
ExpiredReset  == Screen /\ SinceReset >= WaitTime
Expired       == Screen /\ SinceStart >= WaitTime
RenewedOnWait == Screen /\ SinceStart >= WaitTime
Renewed       == Screen /\ SinceReset >= Reset

\* A new lag screen forgets the requests made before it.  (Mutant: it does not.)
VotesKept == votes
VotesLeft == IF Started # {} THEN {} ELSE votes

\* The lag screen of a client that is shown the laggers "new" when the screen
\* starts, is renewed if "Renewed", and is told who has caught up.
\* (Mutant: nobody is told.)
ShownCaught(old, new) ==
  LET started == IF new # {} THEN Laggers ELSE old
  IN  IF Renewed THEN (started \ Laggers) \cup Laggers ELSE started

Shown(old, new) ==
  LET started == IF new # {} THEN Laggers ELSE old
      renewed == IF Renewed THEN (started \ Laggers) \cup Laggers ELSE started
  IN  renewed \ Caught

\* Send the batch of actions that is due: everybody owes one more keepalive.
SendAllActions ==
  behind' = [p \in Players |-> IF p \in players THEN behind[p] + 1 ELSE behind[p]]

Update ==
  /\ todo = {}
  /\ todo' = players
  /\ votes' = VotesLeft
  /\ voted' = IF Started # {} THEN {} ELSE voted
  /\ dropped' = IF Expired THEN dropped \cup Laggers ELSE dropped
  /\ view' = [p \in Players |-> IF p \in players /\ Screen THEN Shown(view[p], Started)
                                ELSE view[p]]
  /\ lagging' = IF Screen THEN Laggers \ Caught ELSE lagging
  /\ lagScreen' = (Screen /\ Laggers \ Caught # {})
  /\ lagAge' = IF Started # {} THEN 0 ELSE lagAge
  /\ resetAge' = IF Renewed \/ Started # {} THEN 0 ELSE resetAge
  /\ screenAge' = IF Screen THEN 0 ELSE screenAge
  /\ \E due \in BOOLEAN :
        IF due /\ ~lagScreen'
        THEN SendAllActions /\ starved' = 0 /\ alive' = TRUE
        ELSE /\ starved' = IF Renewed THEN 0 ELSE starved
             /\ alive' = (alive \/ Screen)
             /\ UNCHANGED behind
  /\ UNCHANGED <<players, down, silent, autosaves>>

\* A GProxy++ player is connected again (EventGProxyReconnect).
Reconnect(p) ==
  /\ p \in down
  /\ todo = players
  /\ down' = down \ {p}
  /\ silent' = [silent EXCEPT ![p] = 0]
  /\ UNCHANGED <<players, behind, lagging, lagScreen, votes, dropped, todo,
                 lagAge, resetAge, screenAge, hist>>

\* Time passes, between Updates, and only once the last Update has shown the lag
\* screen or the game has sent an action: m_Latency, and the time a prompt player
\* takes to answer, are far less than a unit.
Tick ==
  /\ todo = players
  /\ alive
  /\ \A p \in Prompt \cap players : behind[p] = 0
  /\ alive' = FALSE
  /\ lagAge' = Older(lagAge, MaxAge) /\ resetAge' = Older(resetAge, Reset)
  /\ screenAge' = Older(screenAge, Grace)
  /\ silent' = [p \in Players |-> IF p \in players THEN Older(silent[p], Silence)
                                  ELSE silent[p]]
  /\ starved' = Older(starved, 2 * Reset + 2)
  /\ UNCHANGED <<lock, todo, view, voted, autosaves>>

-----------------------------------------------------------------------------

Next ==
  \/ \E p \in Players : \/ KeepAlive(p) \/ DropRequest(p) \/ UpdatePlayer(p)
                        \/ Leave(p) \/ Disconnect(p) \/ TimedOut(p) \/ Reconnect(p)
  \/ Update
  \/ Tick

Spec == Init /\ [][Next]_vars

\* The main loop runs on, prompt players answer, and time passes: Tick is enabled
\* again and again, between Updates, hence strong fairness.
FairSpec ==
  /\ Spec
  /\ WF_vars(\E p \in Players : UpdatePlayer(p))
  /\ \A p \in Prompt : WF_vars(KeepAlive(p))
  /\ WF_vars(Update) /\ SF_vars(Tick)

-----------------------------------------------------------------------------
(* Properties                                                              *)

TypeOK ==
  /\ players \subseteq Players /\ todo \subseteq players
  /\ behind \in [Players -> Nat]
  /\ lagging \subseteq players /\ lagScreen \in BOOLEAN
  /\ votes \subseteq players /\ dropped \subseteq players /\ down \subseteq players
  /\ lagAge \in 0..MaxAge /\ resetAge \in 0..Reset /\ screenAge \in 0..Grace
  /\ silent \in [Players -> 0..Silence]
  /\ view \in [Players -> SUBSET Players] /\ voted \subseteq players
  /\ starved \in 0..(2 * Reset + 2) /\ autosaves \in Nat /\ alive \in BOOLEAN

\* "The maximum number of packets a player can fall out of sync before starting the
\* lag screen": nobody falls further behind than the limit and the batch that was
\* already due, plus one for each autosave that is sent whatever the lag screen says.
BoundedLag == \A p \in players : behind[p] <= SyncLimit + 1 + autosaves

\* What the START_LAG and STOP_LAG messages sent so far leave on a client's screen
\* is who is lagging, through restarts, drops and deletions.
ScreensAgree == \A p \in players : view[p] = lagging

\* Warcraft III "disconnects if it doesn't receive an action packet at least this
\* often": no client goes without one for longer than a renewal of the lag screen
\* takes (and the Update that renews it).  Twice that once autosaves have been sent: they
\* can push players past the limit behind a lag screen, and the next one then
\* starts when this one ends, before anything is sent, and is renewed by its own time.
NobodyStarves == starved <= (IF autosaves = 0 THEN 1 ELSE 2) * Reset + 1

\* A lagging player is not waited for longer than the time GProxy++ clients are
\* promised to have (and the Update that deletes it).
BoundedWait == lagging # {} => lagAge <= (EmptyActions + 1) * Reset + 1

\* All three hold together: laggers neither get ahead of the limit, nor does stopping for
\* them take the game, or the connections of those who wait, past theirs.
LimitsHold == TypeOK /\ BoundedLag /\ NobodyStarves /\ BoundedWait

\* The laggers are dropped before their time is up only if at least half of the
\* players have asked for it on this lag screen: no request made on an earlier one,
\* or when no screen was up, counts.
DropNeedsHalf ==
  [][\A p \in lagging \ dropped :
        p \in dropped' /\ lagAge < WaitTime
          => 2 * Cardinality(voted') >= Cardinality(players)]_vars

\* A player who answers every action is never deleted, whatever the others do: not
\* for lagging, and not for the silence the lag screen itself imposes.
PromptPlayersStay == Prompt \subseteq players \ dropped

\* The lag screen comes down: a vanished player cannot stop the game for ever.
GameResumes == lagScreen ~> ~lagScreen

=============================================================================
