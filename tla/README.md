# TLA+ models of the GHost++ game host (ghostgproxy)

The repository holds a Warcraft III game hosting bot, `src/ghostgproxy` (GHost++ with the
GProxy++ reconnection protocol and the NordicLeague additions), an older near copy of it
(`src/ghost`), batch programs that update ratings in a database (`src/update_*`) and vendored
libraries.  These models are of `src/ghostgproxy`; every definition is translated from its
source, and `PROJECT.json` ("map") names the lines each one stands for.

## 1. The system

| component | state | operations | talks to |
|---|---|---|---|
| Main loop, `CGHost` (`ghost.cpp`) | games, reconnect sockets, callables | `Update`: select, update each game and Battle.net connection, reconnect sockets, autohost, exit nicely | everything |
| Game, `CBaseGame` (`game_base.cpp`) | players, slots, PIDs, countdown, lag screen, action queue, sync counter, timers | `Update` and one `EventPlayer...` handler for each packet | players, database |
| Player, `CGamePlayer` (`gameplayer.cpp`) | socket, packet counters, replay buffer, checksums, flags | `Update`, `ExtractPackets`, `ProcessPackets`, `Send`, `EventGProxyReconnect` | its game |
| Commands, `CGame` (`game.cpp`), `CAdminGame` | votes, forfeit | `EventPlayerBotCommand` | its game |
| Battle.net, `CBNET` (`bnet.cpp`) | login state, outgoing queue, bans, admins | `Update`, `ProcessPackets`, `Queue...`, `Unqueue...` | chat commands to `CGHost` |
| Database (`ghostdb*.cpp`) | idle connections, callables | one thread for each callable, ready flag polled by `Update` | games, Battle.net |
| Map, replay, statistics, protocol codecs | files and bytes | parse, compress, encode | the game |

All of it but the database runs on one thread.  That does not make it sequential: handlers set
flags (`m_DeleteMe`, `m_LeftMessageSent`) that take effect only when the main loop gets to the
player again, clients act on what they were told earlier, timeouts race late answers, database
answers arrive at any later Update, and any TCP connection can break.  What is hard, and what the
properties are aimed at:

* GProxy++: replay after a broken connection without a gap or a repetition, with counters kept at
  both ends and acks that may be stale (`GProxySession`).
* The lag screen: five timers, a vote, renewals of the screen, players deleted and reconnected
  behind it (`LagScreen`).
* Desyncs: checksum queues that have to stay aligned while players leave (`DesyncVote`).
* Load in game: the same data in the same order to clients that load at different times
  (`LoadInGame`).
* The lobby: slots, PIDs and what clients were told, while kicked players are still in
  `m_Players` (`Lobby`).
* The layout of the slots: teams, colours and races that belong to the slot on some maps and to the
  player on others, under requests, swaps, shuffles and balancing (`SlotTable`).
* Batches of actions: the same updates to clients that get them in different packets and to the replay,
  and a schedule in unsigned arithmetic (`ActionBatch`).
* Map download: a window, a cap and a speed limit applied in one loop, with options that change in the
  middle of a download (`MapDownload`).
* Advertising the lobby: a slow queue for each connection, lobbies that are rehosted while packets
  about their old name wait, answers that do not say to what, lost connections (`BattleNet`).
* The end of a game: votes whose voters leave, three timers that all end it, data that is written in
  threads before and after the game is deleted, a program that is to exit meanwhile (`GameEnd` with
  `Callables`).

`PROJECT.json` lists every component with its status, and every hazard at the line where it
bites with the properties that cover it.

## 2. The modules

| module | what it models |
|---|---|
| `ReliableChannel` | abstract: a channel delivers what was sent, once and in order, until the player is removed |
| `GProxySession` | one player's session: `CGamePlayer`'s counters and buffer, `CGHost`'s reconnect sockets, the disconnect handlers, a GProxy++ client and a TCP network; implements `ReliableChannel` in both directions |
| `LagScreen` | the lockstep of a running game and the lag screen |
| `DesyncVote`, `DesyncVoteMC` | the vote over checksums; its instance with four interchangeable players |
| `LoadInGame` | loading with `m_LoadInGame` |
| `Lobby`, `LobbyMC` | the game before it starts: who is in it, and in which slot; with and without matchmaking |
| `SlotTable`, `SlotTableMC` | teams, colours and races of the slots, and balancing; the kinds of map that TLC checks |
| `ActionBatch` | how actions are sent to the players and the replay: `SendAllActions`, the latency, autosave |
| `MapDownload` | who is sent the map, and when the game may start |
| `BattleNet` | how the lobby is advertised: the outgoing queues, rehosting, refused advertisements, lost connections |
| `Callables` | operations of the database threads and of the pool of connections |
| `GameEnd`, `GameEndMC` | extends `Callables`: votes, timers, saving and deleting a game, exiting nicely; two teams |
| `Game` | what the models of `CBaseGame` share: its players |
| `GProxySessionProofs`, `LobbyProofs`, `ActionBatchProofs`, `BattleNetProofs`, `GameEndProofs` | the theorems about each and their proofs (section 6) |
| `LockstepProofs` | the theorems about the running game, `LagScreen` and `DesyncVote` |
| `BeforeGameProofs` | the theorems about what comes before it, `MapDownload`, `SlotTable` and `LoadInGame` |
| `FoldInduction` | induction over sequences and what folds compute, for these proofs |

### GProxySession

A packet is its number in the sender's order; a connection is a number in the order the client
opened them; each direction of a connection is a FIFO.  `sent` is `m_TotalPacketsSent`, `buffer` is
`m_GProxyBuffer`, `sgot` is what `ProcessPackets` has handled (its length is
`m_TotalPacketsReceived`), `ssock` is the connection behind `m_Socket`, `pending` is
`m_ReconnectSockets`.  `Emit` is `CGamePlayer::Send`; `Unqueue` is the arithmetic of
`GPS_ACK` and of the replay; `EventGProxyReconnect` includes the lookup in `CGHost::Update`, the
swap of sockets, the replay and the chat message that follows it.  `ServerSocketClosed` and
`ServerTimedOut` are the three disconnect handlers: a GProxy++ player of a loaded game is kept.
The client and the network are not part of the repository; they are modelled from what the bot
does with them (the client counts packets and keeps its own replay buffer as the bot does).

`unkept` is the one variable that is not in the code: the number of the last packet that `Send`
did not keep for replay.  With `PreLoadAtRisk = FALSE` the network of the model breaks a connection
of a loaded game only once the client has received that packet (`MayBreak`); before the game is
loaded a broken connection deletes the player, as it does in the code.  With
`PreLoadAtRisk = TRUE` connections break at any time, which the code does not survive (section 4).

### LagScreen

`behind[p]` is `m_SyncCounter - GetSyncCounter()`, `lagging` and `lagScreen` are the two
`m_Lagging` flags, `votes` is `m_DropVote`, `dropped` is `m_DeleteMe`.  `todo` is the rest of the loop
over `m_Players` in this Update, so that every handler runs while its player is visited, and the
lag screen code (`Update`) runs when all have been.  Times are ages, `GetTime( ) - m_...`, that grow
with `Tick` up to caps beyond which they are not told apart.  `view` is what the START_LAG and
STOP_LAG messages leave on each client's screen.

### DesyncVote

`checkSums` are the queues of the code; `sums` is what each player has sent since the game began
and is only history, as is `stranded`, the fewest complete frames that have waited to be compared since
somebody last left.  `Scan` is the loop over the ordered map of bins, with its tie flag.

### LoadInGame

`buffered` is `m_LoadInGameData`, `delivered` what has been sent.  `Distribute` is the choice
between the two made in every place that tells players something.  `Played` expands empty updates
the way GProxy++ does for its Warcraft III.  That a fake player has loaded is told
first of all, in every game, and left out.

### Lobby

`game` is what the configuration makes of the game, its slots and whether it is a matchmaking game, chosen
in `Init` from `Games`.  `stage` and `todo` are the position in `CBaseGame::Update`: ready score checks, players in the
order of `m_Players`, clients that want to join, and `Rest` (virtual host, spoof check kicks, auto
start, countdown).  `deleteMe` and `leftSent` are the flags of players that are still in
`m_Players`.  A client is named by its score, and joins once.  `view` is the PIDs each client has been told of, `garbled` who was
told something that does not follow from that, `roster` who was there when the countdown started.

### SlotTable

`slots` is `m_Slots` with the layouts that `Lobby` leaves out, and `players` are those who are in the
game and not about to be deleted.  `map` is `m_Map`: chosen in `Init`, as the options of the map
decide in nearly every handler.  A player stands for its PID.  `Join` covers both
`EventPlayerJoined` and, on maps with matchmaking, `EventPlayerJoinedWithScore`, which keeps the
layout of the slot.  `BestOrderings` is `BalanceSlotsRecursive`, for the sizes of the teams and the scores of
the players in the order of their PIDs; where several orderings are equally good it leaves open which
one is found.  `Balanced` is the loop of `BalanceSlots` that puts the players into their slots.  Above its
cost limit `BalanceSlots` is a `ShuffleSlots`.  The countdown, which forbids some of the commands, and
who may give them, are `Lobby`'s; here they may come at any time.  A kind of map has any layout of its players'
slots that a map file can have: teams, colours of their own, and races.  All are open at first; the slots that
the file gives to computers are among those that an admin can give them.  Handicaps, the skill of computers,
fake players and saved games are left out.

### ActionBatch

`actions` is `m_Actions`, `wire` what each player and the replay have been sent since the last update began,
so that the state stays finite without counting updates; an action has a number, a length and perhaps the
player whose autosave it is.  `Pack` is the body of the loop in `SendAllActions`, `Batch` the packets that
come of it; empty updates for players without GProxy++ come first while somebody with it is there (`Sent`).  `lateBy` is `m_LastActionLateBy`, `age` the
milliseconds since the last update, and both conditions on them are computed modulo `Word`, the range
of an unsigned integer.  `Update` is one pass of the main loop over a loaded game: lag screen or
not, perhaps the empty update with which the screen is renewed, then an update if one is due.  Who lags, and when
the screen is renewed, is `LagScreen`'s; here it comes and goes at any time.  `SetLatency` is `!latency`, to any
value at any moment; `lowered` remembers that it is below `m_LastActionLateBy`.

### MapDownload

Sizes are in parts of the map.  `sent`, `acked` and the three sets `started`, `finished` and `allowed` are the
fields of `CGamePlayer`, `counter` is `m_DownloadCounter`, `status` the download status in the slots and
`changed` is `m_SlotInfoChanged`.  Players join, leave and are deleted while others download.  `Statuses` is the
conversion of a size to a percentage in an `unsigned char`, at most 100; what a number beyond 255 becomes is
undefined, and any of `Overflow` here.  `Update` is the block of `CBaseGame::Update` that runs every
100 ms; `Pieces` is its inner loop for a player.  `EventPlayerMapSize` is the handler of every `MAPSIZE` packet,
with the mode of `!downloads`, and with or without a copy of the map at the bot (`copy`); `Download` is `!dl`,
`SetDownloads` is `!downloads`, `StartCountDown` and `Abort` are `!start` and `!abort`, and `EventGameStarted` the
end of that countdown or of a forced one.  `Reply`, `Receive` and `Acknowledge` are the client, who has nothing, the map or
a file of another size in its place when it joins (`file`); `received` is what it has of the map and `said` what it has
told of that.  `untold`, `ignored` and `misled` are history: whose status has changed since the slots were last
sent, and whose acknowledgement was not taken, or first answer taken for one.

### BattleNet

`out` is `m_OutPackets` of each connection, `game` is `m_CurrentGame` with what bears on its advertisement,
`hostCounter` the number that makes names differ.  `CreateGame`, `Rehost`, `StartGame`, `UpdateGame` and
`LobbyChanges` are what `CGHost`, `CGame` and `CBaseGame` queue and unqueue; `Send` is the loop of
`CBNET::Update` that sends one packet when the flood delay is over; `Receive` is the handler of
`SID_STARTADVEX3`'s answer; `Lose`, `Disconnected`, `Connect`, `Connected` and `LogOn` are the life of a
connection.  The server advertises what it was last told and answers each advertisement, in order.
Abstracted: the steps of the login, chat that comes in, flood delays (any time may pass between
packets), and `m_InChat`; the lobby has an open slot whenever it is refreshed.

### Callables, GameEnd

`Callables` has the operations of the two kinds of thread on `idle` (`m_IdleConnections`), `connections`
(`m_NumConnections`) and `calls`: `Start` gives a callable a connection and a thread, `Run` is the
thread, `Recover` takes the connection back.  Either may find a connection dead, and a thread may not
start (`faults`).  `GameEnd` uses them for the rows of a game: the game and its statistics in
`Save`, the players in `DeleteGame`, as the destructor of `CGame` does; and for queries of others.
`kick` and `ff` are the two votes, `end` the timers; a timer that is set may be found to have run out
at any time.  `RunTimers` is the order in which one Update looks at the timers.  `FinishGames` and `Exit` are
`CGHost::Update` with `m_ExitingNice`.  `wrong` collects, at the step that decides, whether a
vote or the result was decided against what `kickers`, `quitters` and `forfeited` remember.  Observers
are left out, and `m_OutstandingCallables`, which is only printed.

## 3. The runs

| run | bounds | what it shows |
|---|---|---|
| `gproxy_session` | 4 + 2 per connection packets down, 2 up, 3 connections, 1 ack in each FIFO | both directions deliver in order and exactly once, nothing unacknowledged is dropped, both implement `ReliableChannel`; a packet of a loaded game arrives, or the player is dropped |
| `gproxy_preload` | connections at risk while loading | **violation**: a packet sent before the game is loaded is counted and not kept |
| `lag_screen` | 3 players, 1 prompt, 1 with GProxy++, limit 2, autosave on; timeouts of 3, 3 and 2 ticks | nobody is further behind than the limit allows, screens agree with the bot, no client goes without actions for longer than a renewal or, once autosaves have been sent, two, no wait is longer than promised, drops need half of the votes of this screen, prompt players stay, every lag screen comes down |
| `desync_vote` | 4 players, 3 checksums, 2 frames | queues stay aligned, survivors agree, no minority outvotes anybody; complete frames that wait are never more than when somebody last left, and none before |
| `load_in_game` | 3 players, 1 with GProxy++, 2 renewals | the same game data for all, nothing too early, right screens |
| `lobby` | 4 clients, 1 admin; 3 slots, and 2 with matchmaking | every player has one slot, clients know exactly who is there, PIDs are bounded, the game starts with exactly those for whom the countdown began, only the lowest is kicked for its score |
| `slot_table` | 3 players, 7 kinds of map of 2 to 4 slots and 2 or 3 teams, 4 colours, scores up to 2 | no player loses its slot, colours of used and unused slots differ, observers and only they have the observers' colour, regular teams are not overfilled, what the map fixes stays, with two teams or teams of one size no ordering is better than the one balancing finds, and it puts everybody where that says |
| `lobby_match_slots` | 2 slots, matchmaking | **violation**: two scores in one Update overwrite a new player's slot |
| `action_batch` | 3 players, 2 with GProxy++; 2 actions of 1 or 3 bytes between updates, 2 bytes to a packet; latencies 2 and 3, each also set while an update is later than that, ages up to 7, ticks modulo 64 | every player and the replay get the same game with the actions in order in packets that fit; a save precedes every drop; the game clock follows real time, and stops only under a latency that wraps |
| `battle_net` | 2 servers, one of them PvPGN; autohost; 2 lobbies, 1 lost connection, 1 answer under way, chat only into an empty queue | nothing is sent on a connection it was not queued for, old names go, a private lobby stays advertised, a public one comes to be |
| `game_end` | 4 players in teams of 3 and 1, 2 of them reserved; all must vote; 1 idle connection, 1 kept; 1 query of others, 1 fault | votes are fair, a forfeit is what is recorded, no data is lost, connections are not shared nor miscounted, games are deleted, the program exits |
| `map_download` | 2 players with nothing, the map, or a file three times its size; 2 parts, a window of 1, 1 downloader, 1 part a second in 2 rounds, all modes | the window and the limit hold, a game that is not forced starts only with players who have the map or said that they have a larger file, and with slots they have seen, downloads end |

Why the bounds are enough.  Three connections are the first, a broken reconnection and a
successful one, with an old one still pending; acks are idempotent, so that one in flight in each
FIFO with reconnections crossing it covers the stale ones.  Three players make a drop vote
with one lagger, one GProxy++ player and one who is always prompt; ages are capped beyond the
largest timeout they are compared with.  Four players allow two pairs (a tie) and a pair against two single players;
two frames allow a queue that is longer than another.  Three slots stand for the twelve of a
full map: the virtual host has to make room for the last player.  A countdown of 0 ticks lasts as many
Updates as it likes, as its last tick is not due until TLC says so.  The kinds of map of `slot_table` combine
custom forces, fixed settings, observers, random races and matchmaking, with teams and colours in another order
than the slots; a map with fixed settings has four slots and the others two or three, and there are four colours, so
that all are used on the largest maps and some are left on the others.  Scores 0, 1 and 2 make two weak players as strong as one strong one, so that the only best split
of a team of two and a team of one can be the combination that the search leaves out first; two
teams of one and one of one use all levels of it.  Of the sizes in `action_batch` two small ones fill
a packet and a large one exceeds it alone, so that batches are split before, after and around it; a
gap of 3 makes an update late by less than, as much as, and more than each latency; 64 is far more than
any age, so that a difference that wraps is one that wraps with 2^32.  In `action_batch` an update
can be late by 2 when the latency is 3, and `!latency` can then set it to 2 or leave it.  In `map_download` a map of
two parts has a window that is full, open and past the end; with one downloader and one part a second in two rounds
the second player meets both limits; a size of 6 parts is 300 percent, beyond a byte.  Sizes are assumed to be
small against 2^32 (and, for the conversion by floating point to be the quotient, 2^24) bytes.  In `battle_net` two lobbies make one rehosting, the lobby and the one
after it, or a game and the next, and one lost connection is lost in each of the states of the queue; the
two servers differ in when chat ends an advertisement.  In `game_end` three players of a team are the
fewest with which a vote can be carried by a voter who has left; one idle connection and no room for a
second exercise every branch of the pool, and two reserved players keep the votes to two victims.
`CHECK_DEADLOCK FALSE` is used everywhere since all these systems stop: the bounds are used up, everybody
has left, or the game has started, was deleted or the program has exited.

### Fairness

`GProxySession!FairSpec`: the bot's main loop reads its sockets, a GProxy++ client reads and
reconnects when it has lost its connection, and a connection that is dead at one end is eventually noticed or dropped
(`StopLaggers` after the waiting time).  Nothing is assumed of the network.  `LagScreen!FairSpec`: the
main loop updates players and itself, prompt players answer, and time passes; the last needs strong
fairness because time passes only between Updates, so that `Tick` is enabled again and again but not
all the time.  `ActionBatch!FairSpec`: the main loop ends its Updates and time passes before the
next; nothing is assumed of the players.  `MapDownload!FairSpec`: the block that sends parts runs again
and again, and a client that stays reads, answers and acknowledges.  `BattleNet!FairSpec`: the
main loop updates the game, its refresh timer runs out again and again, each queue is sent, and servers
accept connections and answer; connections are lost a bounded number of times.  `GameEnd!FairSpec`: one
weak fairness on everything that does not need a player to decide something, namely deleted players,
timers, saving, threads and the exit; these form a finite chain, so that some step of it being taken is enough.

## 4. What the violations say

Each finding quotes the line the code disagrees with.

1. `gproxy_preload`: `Send` keeps packets for replay only when the game is loaded; the comment
   argues that GProxy++ is known before the game starts, but the test is for `GetGameLoaded`, so that
   packets in flight at that moment cannot be replayed.
2. `lobby_match_slots`: see `Lobby!ScoreReady`: the lowest player is looked for among those who have been
   announced to have left, too, and its PID is already another's.

More that no run is spent on.

In the lobby.  `EventPlayerJoined` rejects everybody when no slot is open (`game_base.cpp:1991`), before the
search for a reserved slot ("a reserved player is trying to join the game but it's full",
`game_base.cpp:2267`).  `GameStartsWithRoster` does not hold with matchmaking, when a player whose
slot was closed is kicked again: the early
return of `EventPlayerDeleted`, for players whose leave message was sent early, skips the end of
the countdown, which relies on somebody having joined in the place of the player.  And the bound of
`PIDsSuffice` makes room for players about to be deleted: a kicked player's slot is open at once
while its PID is in use until its own update, so that a fake player can be given a 13th.
`EventPlayerDisconnectTimedOut` announces the seconds left for a reconnection from
`m_StartedLaggingTime` without asking whether a lag screen is up.  In `SlotTable`,
`ObserversColour` and `NoCrowding` exclude two cases in which they fail: with custom forces but
without fixed settings a swap leaves the team in the slot and takes the colour along, so that a
player who moves to an observer slot leaves the observers' colour behind for the next one in its place;
and joins by score do not ask whether a map without custom forces has a place left (`game_base.cpp:2779`).
`!compteam` with team 0 gives team 255, which the type invariant admits, and which a player may then ask for.  `BalanceSlots` indexes
`PlayerScores`, which has 10 elements, by PIDs up to 12 (`game_base.cpp:4890`, whose comment speaks of 13).
The search of `BalanceSlotsRecursive` does not find the smallest difference for all teams, although its comment
speaks of "every possible combination of players" (`game_base.cpp:4528`) and of "choosing the combination of players with
the smallest difference" (`game_base.cpp:4532`): once the first team is chosen, the rest is divided so that
its own teams differ least, whatever the first team's score.  With teams of 3, 2 and 1 players, whose scores are 27, 19,
33, 35, 78 and 38 in the order of their PIDs, it settles on a difference of 10 where one of 6 is possible.  With two teams
nothing is left to divide, and `BalanceIsBest` is stated for those and for teams of one size.

In a running game.  With autosaves a client can go without actions for two renewals of the lag screen (section
6, `LagScreen`).  `!latency` (`game.cpp:1395`) may set `m_Latency` to less than `m_LastActionLateBy`:
`m_Latency - m_LastActionLateBy` (`game_base.cpp:1153`) is then a huge unsigned number and no update is due
until the latency is raised or an autosave sends the actions, although the game should "send actions every m_Latency
milliseconds".  The run `action_batch` reaches these states; `GameGoesOn` says that the game stands still only
if from some time on every Update finds the latency lowered like that, and `ClockFollows` holds through them.
`ClockFollows` excludes an autosave: it sends the actions early, `ActualSendInterval -
ExpectedSendInterval` wraps, the game warns that something is terribly wrong, and the next update is due at once.

Map download.  `!downloads 2` in the middle of a download makes the player's acknowledgements ignored: it
stands still and keeps its place among the downloaders (`DownloadsEnd` has the exception);
`!downloads 0` kicks it at its next one.  `!dl` of a player whose first `MAPSIZE` has not been handled
starts a download for somebody who may have the map, and then records a download that never was; if that player has
another file, its size is taken for an acknowledgement, so that more than the window may be sent (`misled` in
`WindowKept`).  The status of a download is a percentage of the size that the client says it has, in an `unsigned
char`, and more than 100 becomes 100 (`game_base.cpp:3579`).  A client with a larger file in the place of the map
therefore shows 100 at once, before it has been sent anything; its acknowledgements put that right, but where
`!downloads` is 2 it is not sent the map unless `!dl` asks for it, and `!dl` is refused because the status is 100
(`game.cpp:1199`).  In either case the game may start meanwhile without that player having the map, although
`StartCountDown` is to "check if everyone has the map" (`game_base.cpp:5232`); `EverybodyHasTheMap` has the exception.  Above
255 percent the conversion is undefined.

Battle.net.  The refusal of an advertisement that was sent before a rehosting is taken for the new name:
the lobby is marked, or with autohost closed, by a mistake that the comment at `game.cpp:1611` expects to be
"a potential false positive" of the other kind; `PublicIsAdvertised` excepts every lobby that is marked, so that no
property is against this.  A private lobby is advertised when it is made and
never again, so that it is gone after a reconnection (`told` in `PrivateIsAdvertised`).  `m_OutPackets`
is cleared by the reconnection, not by the loss.  Autohost's rehosting does not unqueue refreshes of the old
name.  The comment on the flood delay says 3.5 and 4 seconds (`bnet.cpp:590`), the code waits 2.5 and 3.5; the ban list is
refreshed "every 60 minutes" (`bnet.cpp:499`) and in the code every 360 seconds.

The end of a game.  Forfeits are refused for "the first 25 minutes" (`game.cpp:2072`), in the code 1680 seconds, and "the game
will end in 30 seconds!" (`game.cpp:2100`) before a timer of 7 seconds for each player.  Whoever starts a vote to kick
himself has voted for it.  `m_NumConnections` is not counted down when an idle connection is found dead, and a thread
that cannot be started leaves a null connection among the idle ones; `ConnectionsCounted` says what
does hold.  If the game over timer runs out while a team is being removed for its forfeit, its winners
leave with `PLAYERLEAVE_LOST`; auto close sets the timer anew while it runs.  A second interrupt, and `exit force`,
lose what is not written yet.  `m_Team` of an observer is not initialised and `!ff` reads it.

## 5. Properties and mutants

The invariants of a component that hold for one reason, or would be of no use without each other, are
named parts of one property, together with the type invariant:

| property | parts |
|---|---|
| `LagScreen!LimitsHold` | `TypeOK`, `BoundedLag`, `NobodyStarves`, `BoundedWait` |
| `DesyncVote!VoteIsSound` | `VoteTypeOK`, `QueuesAligned`, `SurvivorsAgree`, `DetectedInTime` |
| `LoadInGame!SameGameInTime` | `LoadTypeOK`, `SameGameData`, `NothingTooEarly` |
| `Lobby!SlotsAndPIDs` | `TypeOK`, `SlotForEveryPlayer`, `PIDsSuffice` |
| `SlotTable!SlotsAreSound` | `TypeOK`, `EveryPlayerSits`, `ColoursDiffer`, `ObserversColour` |
| `SlotTable!BalanceIsRight` | `BalanceIsBest`, `BalanceIsFair` |
| `ActionBatch!BatchesAreWhole` | `TypeOK`, `ActionsInOrder`, `PacketsFit` |
| `BattleNet!QueuesAreCurrent` | `TypeOK`, `NothingLeftOver`, `OldNamesGo` |
| `GameEnd!PoolIsSound` | `TypeOK`, `Callables!OneThreadPerConnection`, `Callables!ConnectionsCounted` |
| `GameEnd!DecisionsStand` | `VotesAreFair`, `ForfeitIsRecorded` |
| `MapDownload!LimitsKept` | `DownloadTypeOK`, `WindowKept`, `SpeedKept` |
| `MapDownload!SlotsAreTrue` | `EverybodyHasTheMap`, `SlotsShown` |

Every property of a passing run has a mutant: an operator defined just before the one it replaces,
written as a plausible slip (a dropped guard, an off-by-one, a forgotten reset), with which TLC finds
the property violated under the same configuration.  The comment of each pair says what the slip is.

## 6. What is proved

TLAPS checks these theorems, for all values of the constants that satisfy the assumption of the
module (`...Assumption`), which TLC evaluates in every run.  Where one module of proofs is about several
components, the proofs about each cite the assumption of that component only:

| theorem | states | assumes besides |
|---|---|---|
| `GProxySessionProofs!TypeCorrect` | `Spec => []TypeOK` | |
| `GProxySessionProofs!ClientInOrder` | `Spec => []ClientStreamInOrder` | `~PreLoadAtRisk` |
| `GProxySessionProofs!ServerInOrder` | `Spec => []ServerStreamInOrder` | `~PreLoadAtRisk` |
| `GProxySessionProofs!UnackedKept` | `Spec => []NothingUnackedDropped` | `~PreLoadAtRisk` |
| `GProxySessionProofs!DownImplemented` | `Spec => DownSpec` | `~PreLoadAtRisk` |
| `GProxySessionProofs!UpImplemented` | `Spec => UpSpec` | `~PreLoadAtRisk` |
| `BeforeGameProofs!DownloadLimits` | `DownloadSpec => []LimitsKept` | |
| `BeforeGameProofs!SlotsToldTrue` | `DownloadSpec => []SlotsAreTrue` | |
| `BeforeGameProofs!SlotsAlwaysSound` | `Spec => []SlotsAreSound` | |
| `BeforeGameProofs!BalanceAlwaysFair` | `Spec => []BalanceIsFair` | |
| `BeforeGameProofs!NobodyCrowdsIn` | `Spec => NoCrowding` | |
| `BeforeGameProofs!MapAlwaysKept` | `Spec => MapIsKept` | |
| `BeforeGameProofs!SameGameWhenLoaded` | `LoadSpec => []SameGameInTime` | |
| `BeforeGameProofs!LoadScreensAgree` | `LoadSpec => []ScreensAgree` | |
| `LockstepProofs!LimitsAlwaysHold` | `Spec => []LimitsHold` | |
| `LockstepProofs!ScreensAlwaysAgree` | `Spec => []ScreensAgree` | |
| `LockstepProofs!HalfOrTimeDrops` | `Spec => DropNeedsHalf` | |
| `LockstepProofs!PromptPlayersAlwaysStay` | `Spec => []PromptPlayersStay` | `PromptAssumption` |
| `LockstepProofs!SoundVote` | `VoteSpec => []VoteIsSound` | |
| `LockstepProofs!NoMinorityRule` | `VoteSpec => OnlyMinoritiesDropped` | |
| `LobbyProofs!ClientsKnowTheGame` | `Spec => []ViewsAgree` | |
| `LobbyProofs!SlotsAndPIDsSuffice` | `Spec => []SlotsAndPIDs` | |
| `LobbyProofs!StartsWithRoster` | `Spec => []GameStartsWithRoster` | |
| `LobbyProofs!LowestIsKicked` | `Spec => KicksTheLowest` | |
| `ActionBatchProofs!OneGameForAll` | `Spec => []SameGame` | |
| `ActionBatchProofs!BatchesAlwaysWhole` | `Spec => []BatchesAreWhole` | |
| `ActionBatchProofs!AlwaysSavedBeforeDrop` | `Spec => []SavedBeforeDrop` | |
| `ActionBatchProofs!ClockAlwaysFollows` | `Spec => []ClockFollows` | |
| `BattleNetProofs!QueuesAlwaysCurrent` | `Spec => []QueuesAreCurrent` | |
| `BattleNetProofs!PrivateAlwaysAdvertised` | `Spec => []PrivateIsAdvertised` | |
| `GameEndProofs!PlayersDecide` | `Spec => []DecisionsStand` | |
| `GameEndProofs!EverythingIsWritten` | `Spec => []NothingIsLost` | |
| `GameEndProofs!PoolAlwaysSound` | `Spec => []PoolIsSound` | |

What the assumptions ask for.

* `~PreLoadAtRisk` cannot be dropped: `gproxy_preload` shows what happens without it.
* `PromptAssumption`: at most `m_SyncLimit + 1` players, and timeouts of at least two ticks.  Each
  autosave before a drop pushes everybody one keepalive further behind without waiting for anybody, so
  that a player who answers everything is past the limit when as many players leave between two of its
  answers as the limit has keepalives, and one more.  A game has at most 12 players and `m_SyncLimit` is 50 unless
  configured; the least that `!synclimit` sets is 10, with which eleven such departures at once would do it.  A tick is a second
  and the timeouts are 30 and 10 of them.
* `LobbyAssumption` says nothing of matchmaking, but `ViewsAgree`, `SlotsAndPIDs` and
  `GameStartsWithRoster` state most of what they say for games without it (section 4 has what goes wrong with it).
  `KicksTheLowest` is about games with it.
* `BatchAssumption`: the range of an unsigned integer is larger than the largest age told apart and a
  latency together, and that age is more than twice any latency: 2^32 against some seconds.  The
  replay is not one of the players.
* `SlotTableAssumption`: fixed settings come with custom forces, since the World Editor offers them only together;
  the players' slots have different colours; a map has more slots than players only for observers, and never more than
  12; there are at least as many colours as a map may have slots, and no more than 12.
* `DownloadAssumption`: the map and the window are not empty; a client may have nothing in the place of the map; a
  number that does not fit in a byte becomes some byte.
* `GameEndAssumption`: the players differ, and none has the name of a row that is not a player's.

The arguments.  `GProxySession!TypeOK`, `VoteIsSound` and the two of `LoadInGame` together are inductive; the others needed strengthening, and
TLC checked what was added on the runs' instances.

`GProxySession`.  That both streams are in order is not inductive: whether the next packet a client
reads continues what it has depends on what is in the FIFO, on what the replay buffer holds and on
the count in the reconnection that put it there.  The inductive invariant `IInv` says, in named parts:

* `Windows`: each replay buffer holds the last packets of its owner, without a gap, so that
  `m_TotalPacketsSent - m_GProxyBuffer.size( )` is the number of the last packet dropped.
* `DownStream`, `UpStream`: the packets in the FIFO to an end continue what that end has, up to
  some packet, and up to the last one sent if both ends use the connection and are synchronised.
  The bot dropped only what the client has, or what it never kept; after the first break the client
  has the latter too, so that everything else can be replayed.
* `Wiring`: a connection nobody reads at the bot is empty; a reconnect socket holds exactly one
  `GPSC_RECONNECT`, whose count is the right one if the client is still waiting on that
  connection, and not too high if it has moved on to another.
* `Counts`: no count on the wire, however old, exceeds what its sender has received.
* `Handshake`: a client waiting for `GPSS_RECONNECT` finds exactly one, with the right count; a
  player that is in the game is never refused.
* `Phases`: while the game loads there is one connection; a loaded player has announced GProxy++.

`GProxySessionProofs` has the lemmas about the data (`UnqueueWindow`: what an ack leaves of a buffer;
`PktsStream`, `StreamHead`, `StreamConcat`: replaying, reading and sending), one
lemma for each action, then `InvInit`, `InvNext` and `Invariance`; the theorems follow from `IInv`, the
refinements with `StreamSteps`.  The crucial case is `EventGProxyReconnect`: the count may be
stale, from a connection the client has given up; then what is replayed is lost, and what
matters is that the buffer still reaches back far enough for the next reconnection.

`LagScreen`.  `LagInv` adds to the bounds what they are made of: while the screen is up only autosaves
push those who do not lag (`OthersKeepUp`), so that nobody is further behind than the limit, the batch that
revealed it and the autosaves; laggers whose time is up are deleted by the Update that is under
way (`WaitEnds`); and the time without actions is told by the age of the screen, and by what it was when the screen
went up (`ActionsCome`).  `ScreenUp` says that the votes that count were cast on this screen.  This is where an
earlier form of `NobodyStarves` turned out to be false: it allowed one renewal, and three players cannot show that
two may pass.  An autosave can push a player past the limit behind a lag screen for another one; when that
screen ends, `m_LastActionSentTicks` has just been reset (`game_base.cpp:1141`) so that no update is due, and the
next Update looks for laggers (`game_base.cpp:990`) before it sends anything (`game_base.cpp:1153`): a second screen
follows the first, and is renewed by its own time.  The comment at `game_base.cpp:1052` says that the screen cannot
stay up for more than about 65 seconds without an action packet; with autosaves and four players it can be two minutes.

`DesyncVote`.  `VoteIsSound` is inductive: a queue is what its player has sent and nobody has compared, and the
shortest queue of those who are still in is as long as the number of complete frames, which a keepalive raises by at most one
before the comparison that lowers it by one; only somebody's leaving can raise it otherwise.
`NoMinorityRule` needs what the scan of the bins finds, by induction over the bins it has seen (`ScanFinds`).

`Lobby`.  `LobbyInv` has, without matchmaking, that no two players, the virtual host and the fake player share a
PID (`PIDsDiffer`), that the slots with a PID are those of the players who stay (`SlotsTrue`), that each
client knows exactly who is there (`ViewsTrue`), that the virtual host takes nobody's place, and
that the roster of a countdown is who is there (`RosterTrue`).  A new PID differs from all of them because
`GetNewPID` passes over only players whose leave message was sent, and without matchmaking there are none.

`ActionBatch`.  Whatever a client makes of a sequence of packets is a fold (`Game`).  `BatchIsUpdate` says that
the packets of any batch make exactly one update with all its actions: an induction over the actions, with
the packets closed so far and the one that is open.  `SentGood` and `TellGood` carry that
to each client: with empty updates in front or made up by GProxy++, and with a leave behind it.  `ClockFollows`
rests on `LatenessIs`: the two subtractions that may wrap give the true difference, or more than any latency.

`BattleNet`.  What a server comes to advertise is a fold over the queue (`After`).  `NetInv` joins `OldNamesGo`
and `PrivateIsAdvertised`, which need each other, with `Links`: packets are queued, and
lobbies advertised, only where the bot is logged on.

`GameEnd`.  `GameInv`: the votes that are counted are of this vote and of players who are there, and
`m_FFSucceeded` and the team agree with who has forfeited.  `DataInv`: each row is asked for once, at its stage;
if nothing failed, what is ready is written and what is not is still asked for; the idle connections and those in
threads are different ones and no more than are counted.

`MapDownload`.  `LimitsKept` is not inductive, since the window is measured from the last acknowledgement and a client may send
any that it has not sent yet.  `DownloadInv` adds where acknowledgements come from (`Answers`): what is acknowledged was said
by the client, and what it says it has received; no command and no deletion takes any of it back.  A round is a fold over the players,
and every step of it stays in `Rounding`: nobody has been sent less than before the round, more than the window ahead, or more in all than
the second allows (`RoundWithin`).  `SlotsAreTrue` needs `StatusIsSaid`, that a complete status means that the
client's last word was of the map's size or of more; `HasFile`, that a client whose file is as large as the map has the map, and
`Fresh`, that nothing is left of a player who is not there; `CountedWithMap`, that everybody in a countdown has the map or a
larger file, from when the statuses are looked at to the end, since whoever joins or leaves ends it; and
`ShownOrChanged`, that the slots were shown unless `m_SlotInfoChanged` remembers that they were not.

`SlotTable`.  `SlotInv` says who sits where (`Seated`: each slot with a PID has a player of the game, and each player one slot) and
what the map prescribes (`Prescribed`).  `ObserversKnown` is what is left of `ObserversColour` when a slot is neither
open nor closed.  Joins, requests and commands change one slot or two; new colours come from `GetNewColour`, of which
`ColoursDiffer` says that one is free.  Everything else only rearranges the table: `Arranged` has three permutations of the slots, of who
sits in them, of their teams and of the rest of their layouts, and keeps `SlotInv` whenever all three agree or the map allows what
they take apart.  `BalanceSlots` is a fold of such steps.  `BalanceAlwaysFair` needs that there is another slot for each player
(`TargetsSuffice`: the first slots of all teams are as many as the players on them), and that the first n are right
after n steps, by induction over n (`BalancedPutsRight`): a later exchange never touches a slot put right before, since both the
slot it fills and the player it moves are others.  For `BalanceSlots` itself it matters that the search returns orderings of all the players,
whichever it finds best: the recursive function exists (`SearchExists`), and its values are such orderings
(`BestAreOrderings`), by induction over the teams that are left.

`LoadInGame`.  The invariant is the properties themselves.  What a client plays is a fold over the messages it gets
(`PlayedIsFold`, `PlayedConcat`), so that one message more for all of them, delivered to one and buffered for another, keeps their games the same
whichever way each takes it; and moving the buffer to what is delivered, when a client has loaded, changes neither.

Induction over data.  The library's induction theorems are about operators, which the provers cannot
instantiate.  `FoldInduction` has the same for sets (`SeqInduction`: a set of sequences that contains the empty
one and is closed under `Append` contains them all), and proves of `FoldLeft`, for an operator that is a
constant of the module, what it is on the empty sequence, on one element more (`FoldAppend`), on two sequences
in a row (`FoldConcat`), and what all steps preserve (`FoldInvariant`).  Each proof takes an
`INSTANCE` for its operator.

Model-checked only.  Liveness (`EveryPacketArrives`, `GameResumes`, `GameGoesOn`, `PublicIsAdvertised` and
the others), since fairness and ENABLED are out of the prover's reach; and `BalanceIsBest`: in general it is false (section 4), and for two
teams or teams of one size it rests on the first combination, which each level of the search leaves out, being made up for by
another, on all choices of players at once.  Every other safety and action property of the runs that pass is a theorem.

## 7. What is not modelled, and the plan

Not modelled on purpose: file formats (maps, replays, saved games), packet encodings, the parsers
of the statistics (their states are data of the map's script), SQL, the rating updaters (floating
point over a database), the vendored libraries, and `src/ghost`, which only repeats this program.
Bans, score limits and spoof checks turn a client away before it changes the game's state; `Lobby` has the clients
who get past them.

What is left, in this order:

1. The login sequence of `CBNET` with its lists of admins, bans, friends and clan members: a list that was asked for before
   a change and is ready after it replaces the newer one (`bnet.cpp:492`).
2. Score checks by name, with clients of one name (`game_base.cpp:508`), composed with `Lobby` and
   `Callables`.
3. The autohost timer and the admin game, composed with `BattleNet` and `GameEnd`.
4. Saved games, enforced players, bans and score limits in `Lobby`.

Abstract specifications worth stating: a totally ordered log of actions implemented by `ActionBatch`
under `LagScreen`, a register for each server's advertisement implemented by `BattleNet`, an atomic membership service implemented by
`Lobby` without matchmaking.

Theorems worth proving next: `BalanceIsBest` for two teams of one size, where the combination that is left out has a mirror image
that is not; `GameStartsWithRoster` with matchmaking, under a condition on the slots that are closed meanwhile; and the
refinements of these abstract specifications.
