---------------------------- MODULE ActionBatch ----------------------------
(***************************************************************************)
(* How a running game is sent to its players (CBaseGame::SendAllActions):  *)
(* the actions of all players wait in m_Actions, and every m_Latency       *)
(* milliseconds they go to every player, and to the replay, as one game    *)
(* update: packets without a time (INCOMING_ACTION2) when there are too    *)
(* many for one packet, then a packet with the time (INCOMING_ACTION).     *)
(* While a GProxy++ player is in the game every update is preceded by      *)
(* m_GProxyEmptyActions empty ones; a GProxy++ client inserts its own.     *)
(*                                                                         *)
(* Updates are not counted: actions are numbered from the last update, and *)
(* "wire" is what has been sent since that update began.                   *)
(***************************************************************************)
EXTENDS Game, Integers, Sequences, FiniteSets, SequencesExt

CONSTANTS
  GProxyPlayers,  \* those who use GProxy++
  EmptyActions,   \* m_GProxyEmptyActions
  AutoSave,       \* m_AutoSave
  Limit,          \* bytes of actions in one packet (1452)
  Sizes,          \* CIncomingAction::GetLength
  Latencies,      \* what m_Latency can be
  Word,           \* the range of an uint32_t (2^32)
  Gap,            \* bound: time between two Updates of the game
  MaxAge,         \* bound: ages of the last update beyond it are not told apart
  MaxActions      \* bound: actions that arrive between two updates

Replay == "replay"
NoSave == "no save"

ASSUME BatchAssumption ==
  /\ IsFiniteSet(Players) /\ GProxyPlayers \subseteq Players /\ Replay \notin Players
  /\ EmptyActions \in Nat /\ AutoSave \in BOOLEAN
  /\ Limit \in Nat /\ Sizes \subseteq Nat \ {0} /\ Sizes # {}
  /\ Latencies \subseteq Nat \ {0} /\ Latencies # {}
  /\ Word \in Nat /\ Gap \in Nat \ {0} /\ MaxAge \in Nat /\ MaxActions \in Nat
  /\ \A l \in Latencies : 2 * l < MaxAge /\ MaxAge + l < Word

VARIABLES
  actions,   \* m_Actions
  latency,   \* m_Latency
  lateBy,    \* m_LastActionLateBy
  age,       \* GetTicks( ) - m_LastActionSentTicks
  lagging,   \* CBaseGame::m_Lagging
  done,      \* has this Update got past the lag screen and the actions?
  wire,      \* what each player, and the replay, was sent since the last update began
  \* history
  arrived,   \* how many actions have arrived since the last update
  batch,     \* how many the last update was to carry
  drift,     \* how long the game has really run less m_GameTicks, at the last update
  capped,    \* was an update ever so late, or so early, that time was given up?
  lowered    \* did !latency set m_Latency below m_LastActionLateBy since the last update?

vars == <<players, actions, latency, lateBy, age, lagging, done, wire,
          arrived, batch, drift, capped, lowered>>

Consumers == Players \cup {Replay}

\* INCOMING_ACTION and AddTimeSlot, INCOMING_ACTION2 and AddTimeSlot2,
\* PLAYERLEAVE_OTHERS and AddLeaveGame.
Timed(time, acts) == [type |-> "ACTION", time |-> time, acts |-> acts]
Untimed(acts)     == [type |-> "ACTION2", acts |-> acts]
Leave(p, lost)    == [type |-> "LEAVE", by |-> p, lost |-> lost]

Length(acts) == FoldLeft(LAMBDA n, a : n + a.len, 0, acts)

EmptyUpdates == [i \in 1..EmptyActions |-> Timed(0, <<>>)]

-----------------------------------------------------------------------------
(* One update                                                               *)

\* An action goes into the packet that is open, or closes it if there is no room.
\* (Mutant: the action that did not fit is lost.)
PackLosing(acc, a) ==
  IF acc.open # <<>> /\ Length(acc.open) + a.len > Limit
  THEN [sent |-> Append(acc.sent, Untimed(acc.open)), open |-> <<>>]
  ELSE [acc EXCEPT !.open = Append(@, a)]

Pack(acc, a) ==
  IF acc.open # <<>> /\ Length(acc.open) + a.len > Limit
  THEN [sent |-> Append(acc.sent, Untimed(acc.open)), open |-> <<a>>]
  ELSE [acc EXCEPT !.open = Append(@, a)]

Packed(acts) == FoldLeft(LAMBDA acc, a : Pack(acc, a), [sent |-> <<>>, open |-> <<>>], acts)

\* The packets of one update.
Batch(acts) == Append(Packed(acts).sent, Timed(latency, Packed(acts).open))

\* Who is sent the empty updates.  (Mutant: the replay is not.)
FilledPlayers == IF players \cap GProxyPlayers = {} THEN {} ELSE players \ GProxyPlayers

Filled == IF players \cap GProxyPlayers = {} THEN {}
          ELSE (players \ GProxyPlayers) \cup {Replay}

\* What everybody is sent for an update of these packets.
Sent(packets) ==
  [c \in Consumers |->
     IF c \notin players \cup {Replay} THEN <<>>
     ELSE (IF c \in Filled THEN EmptyUpdates ELSE <<>>) \o packets]

\* The update without actions for which the lag screen is taken down for a moment.
Renewal == <<Timed(0, <<>>)>>

\* How late an update is that is sent this long after the last one, which was itself
\* late; the subtractions are of uint32_t.  (Mutant: the last lateness is forgotten.)
LatenessFresh(interval) == (interval - latency) % Word

Lateness(interval) == (interval - ((latency - lateBy) % Word)) % Word

\* Is an update due?
Due(interval) == interval >= (latency - lateBy) % Word

\* SendAllActions but for the packets: these actions are sent, this long after the
\* last update.  (Mutant: lateness is not limited to m_Latency.)
SendUnlimited(acts, interval) ==
  /\ actions' = <<>> /\ arrived' = 0 /\ batch' = Len(acts)
  /\ lateBy' = Lateness(interval)
  /\ age' = 0
  /\ capped' = (capped \/ Lateness(interval) > latency)
  /\ drift' = IF capped' THEN 0 ELSE drift + interval - latency
  /\ lowered' = FALSE

SendAllActions(acts, interval) ==
  /\ actions' = <<>> /\ arrived' = 0 /\ batch' = Len(acts)
  /\ lateBy' = IF Lateness(interval) > latency THEN latency ELSE Lateness(interval)
  /\ age' = 0
  /\ capped' = (capped \/ Lateness(interval) > latency)
  /\ drift' = IF capped' THEN 0 ELSE drift + interval - latency
  /\ lowered' = FALSE

-----------------------------------------------------------------------------

\* EventGameLoaded has run; actions may come in while players are loading.
Init ==
  /\ players = Players
  /\ actions = <<>> /\ arrived = 0 /\ batch = 0
  /\ latency \in Latencies /\ lateBy = 0 /\ age = 0
  /\ lagging = FALSE /\ done = FALSE
  /\ wire = [c \in Consumers |-> <<>>]
  /\ drift = 0 /\ capped = FALSE /\ lowered = FALSE

\* EventPlayerAction; an action of the fake player (!fppause, !fpresume) is one more.
Arrive(len) ==
  /\ ~done /\ players # {}
  /\ arrived < MaxActions
  /\ arrived' = arrived + 1
  /\ actions' = Append(actions, [no |-> arrived', len |-> len, saves |-> NoSave])
  /\ UNCHANGED <<players, latency, lateBy, age, lagging, wire, done, batch, drift,
                 capped, lowered>>

\* !latency.
SetLatency(l) ==
  /\ ~done /\ players # {}
  /\ latency' = l
  /\ lowered' = (l < lateBy)
  /\ UNCHANGED <<players, actions, lateBy, age, lagging, wire, done,
                 arrived, batch, drift, capped>>

\* The action that saves the game before this player is dropped.
Save(p) == [no |-> arrived + 1, len |-> 1, saves |-> p]

\* Everybody is told that a player left, who has been sent this since the last update.
Tell(p, sent, lost) ==
  [c \in Consumers |->
     IF c \in (players \ {p}) \cup {Replay} THEN Append(sent[c], Leave(p, lost)) ELSE <<>>]

\* The rest of EventPlayerDeleted, and the removal of the player.  With autosave, if
\* the connection was lost, everybody first saves the game in an update of its own.
\* (Mutant: the save waits for the next update.)
DeleteSaveLater(p, lost) ==
  /\ ~done /\ p \in players
  /\ players' = players \ {p}
  /\ IF AutoSave /\ lost
     THEN actions' = Append(actions, Save(p)) /\ arrived' = arrived + 1
     ELSE UNCHANGED <<actions, arrived>>
  /\ wire' = Tell(p, wire, lost)
  /\ UNCHANGED <<latency, lagging, done, batch, lateBy, age, drift, capped, lowered>>

Delete(p, lost) ==
  /\ ~done /\ p \in players
  /\ players' = players \ {p}
  /\ IF AutoSave /\ lost
     THEN /\ SendAllActions(Append(actions, Save(p)), age)
          /\ wire' = Tell(p, Sent(Batch(Append(actions, Save(p)))), lost)
     ELSE /\ wire' = Tell(p, wire, lost)
          /\ UNCHANGED <<actions, arrived, batch, lateBy, age, drift, capped, lowered>>
  /\ UNCHANGED <<latency, lagging, done>>

\* The game's part of an Update, after the players': the lag screen, which stops the
\* clock and is renewed every 60 seconds, and the next update of the game if it is due.
Update(lag, renew) ==
  LET interval == IF lagging \/ lag THEN 0 ELSE age IN
  /\ ~done /\ done' = TRUE /\ players # {}
  /\ renew => lagging
  /\ lagging' = lag
  /\ IF ~lag /\ Due(interval)
     THEN SendAllActions(actions, interval) /\ wire' = Sent(Batch(actions))
     ELSE /\ age' = interval
          /\ IF renew THEN batch' = 0 /\ wire' = Sent(Renewal) ELSE UNCHANGED <<batch, wire>>
          /\ UNCHANGED <<actions, arrived, lateBy, drift, capped, lowered>>
  /\ UNCHANGED <<players, latency>>

\* Time passes until the next Update.
Tick(d) ==
  /\ done /\ done' = FALSE
  /\ age' = IF age + d < MaxAge THEN age + d ELSE MaxAge
  /\ UNCHANGED <<players, actions, latency, lateBy, lagging, wire,
                 arrived, batch, drift, capped, lowered>>

Next ==
  \/ \E len \in Sizes : Arrive(len)
  \/ \E l \in Latencies : SetLatency(l)
  \/ \E p \in Players, lost \in BOOLEAN : Delete(p, lost)
  \/ \E lag, renew \in BOOLEAN : Update(lag, renew)
  \/ \E d \in 1..Gap : Tick(d)

Spec == Init /\ [][Next]_vars

\* The main loop goes on: every Update ends and the next one comes.
FairSpec ==
  /\ Spec
  /\ WF_vars(\E lag, renew \in BOOLEAN : Update(lag, renew))
  /\ WF_vars(\E d \in 1..Gap : Tick(d))

-----------------------------------------------------------------------------
(* Properties                                                               *)

\* Actions reach a client as game updates, each with a time and a list of actions,
\* and leave messages between them; GProxy++ puts the empty updates in front of each
\* update itself.  "open" is what has come of an update that is not complete.
Assemble(fill, acc, packet) ==
  CASE packet.type = "ACTION2" -> [acc EXCEPT !.open = @ \o packet.acts]
    [] packet.type = "ACTION"  ->
         [got |-> acc.got \o fill \o <<Timed(packet.time, acc.open \o packet.acts)>>,
          open |-> <<>>]
    [] packet.type = "LEAVE"   -> [acc EXCEPT !.got = Append(@, packet)]

Fill(c) == IF c \in GProxyPlayers THEN EmptyUpdates ELSE <<>>

Assembled(c) ==
  FoldLeft(LAMBDA acc, packet : Assemble(Fill(c), acc, packet), [got |-> <<>>, open |-> <<>>],
           wire[c])

Numbers(acts) == [i \in 1..Len(acts) |-> acts[i].no]
UpTo(n) == [i \in 1..n |-> i]

TypeOK ==
  /\ players \subseteq Players
  /\ \A i \in 1..Len(actions) : actions[i].len \in Sizes
  /\ latency \in Latencies
  /\ lateBy \in 0..MaxAge /\ age \in 0..MaxAge
  /\ lagging \in BOOLEAN /\ done \in BOOLEAN /\ capped \in BOOLEAN /\ lowered \in BOOLEAN
  /\ arrived \in 0..MaxActions /\ batch \in 0..(MaxActions + 1)
  /\ drift \in Int

\* Every player who is in the game plays the game that the replay records: the same
\* updates with the same actions and times, players leaving at the same moment, and
\* no update left incomplete; a GProxy++ client and a plain one see the same number
\* of empty updates.  (SendAllActions writes three streams in separate calls, and a
\* leaving player changes who is sent what.)
SameGame ==
  \A c \in players : Assembled(c) = Assembled(Replay) /\ Assembled(c).open = <<>>

\* The actions in some packets.
Carried(packets) ==
  FoldLeft(LAMBDA all, p : IF p.type = "LEAVE" THEN all ELSE all \o p.acts, <<>>, packets)

\* An update carries all actions that arrived before it, in the order in which they
\* arrived, and none of them twice (m_Actions, the sub actions queue).
ActionsInOrder ==
  /\ Numbers(actions) = UpTo(arrived)
  /\ Numbers(Carried(wire[Replay])) = UpTo(batch)

\* No packet holds more bytes of actions than a client accepts, except an action that
\* is too long by itself, and no packet without a time is empty ("we aren't allowed to
\* send more than 1460 bytes in a single packet").
PacketsFit ==
  \A c \in Consumers : \A i \in 1..Len(wire[c]) :
    LET packet == wire[c][i] IN
      packet.type # "LEAVE" =>
        /\ Length(packet.acts) <= Limit \/ Len(packet.acts) = 1
        /\ packet.type = "ACTION2" => packet.acts # <<>>

\* However a batch is split, it is whole: nothing is lost, repeated, reordered or too big.
BatchesAreWhole == TypeOK /\ ActionsInOrder /\ PacketsFit

\* Autosave: when a player who lost the connection leaves, the last thing the game did
\* before was to save ("auto saving before player drop").
SavedBeforeDrop ==
  AutoSave =>
    \A c \in players : \A i \in 1..Len(wire[c]) :
      wire[c][i].type = "LEAVE" /\ wire[c][i].lost =>
        i > 1 /\ LET before == wire[c][i - 1]
                 IN  before.type = "ACTION" /\ Last(before.acts).saves = wire[c][i].by

\* The game clock follows real time: what an update was late by is made up for by the
\* next ones, whatever !latency is set to in between, as long as no update was late
\* by more than m_Latency or sent early.
ClockFollows == ~capped => drift = lateBy

\* The game does not stop while its players are there: it is behind the lag screen, or
\* updates are sent again and again ("send actions every m_Latency milliseconds").
\* The one exception is !latency: while it has m_Latency below m_LastActionLateBy their
\* difference wraps around and no update is due, so that the game stands still if from
\* some time on every Update finds m_Latency lowered like that.
GameGoesOn ==
  \/ []<>(age = 0 \/ players = {})
  \/ <>[](done => lowered)

=============================================================================
