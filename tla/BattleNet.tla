----------------------------- MODULE BattleNet -----------------------------
(***************************************************************************)
(* Advertising the lobby on battle.net (CBNET, and what CBaseGame, CGame   *)
(* and CGHost call of it).  A connection is lost and made again, and what  *)
(* it is to send waits in m_OutPackets, one packet at a time, for seconds. *)
(* Meanwhile the lobby is rehosted, started or closed, and the server's    *)
(* answers say only that some advertisement was accepted or refused.       *)
(*                                                                         *)
(* A lobby is known by its host counter, which every rehosting changes.    *)
(* The server handles a packet when it is sent: what a delay on the way    *)
(* can do, a delay in the queue or of the answer does too.                 *)
(***************************************************************************)
EXTENDS Integers, Sequences, FiniteSets, SequencesExt

CONSTANTS
  Servers,     \* the connections, CGHost::m_BNETs
  PvPGN,       \* those to a PvPGN server (m_PasswordHashType)
  AutoHost,    \* are games autohosted?
  ChatLimit,   \* no chat is queued behind more packets than this (10)
  MaxGames,    \* bound: host counters
  MaxLosses,   \* bound: how often connections are lost
  MaxReplies   \* bound: answers under way on a connection

ASSUME BattleNetAssumption ==
  /\ IsFiniteSet(Servers) /\ PvPGN \subseteq Servers /\ AutoHost \in BOOLEAN
  /\ {ChatLimit, MaxGames, MaxLosses, MaxReplies} \subseteq Nat

VARIABLES
  socket,      \* of each connection: "closed", "connecting" or "connected"
  waiting,     \* m_WaitingToConnect
  loggedIn,    \* m_LoggedIn
  out,         \* m_OutPackets
  game,        \* m_CurrentGame
  hostCounter, \* CGHost::m_HostCounter
  \* the servers
  advert,      \* the lobby each server advertises
  replies,     \* the answers under way: was an advertisement accepted?
  \* history
  told,        \* where the creation of the private lobby was queued, on this connection
  losses       \* how often connections were lost

conn == <<socket, waiting, loggedIn>>
vars == <<conn, out, game, hostCounter, advert, replies, told, losses>>

Nothing == 0   \* no lobby is advertised

\* The packets that are queued: SID_STARTADVEX3, SID_STOPADV, SID_ENTERCHAT, SID_CHATCOMMAND.
Advertise(id) == [type |-> "STARTADVEX3", id |-> id]
StopAdv       == [type |-> "STOPADV", id |-> Nothing]
EnterChat     == [type |-> "ENTERCHAT", id |-> Nothing]
ChatCommand   == [type |-> "CHATCOMMAND", id |-> Nothing]

NoGame == [id |-> Nothing, public |-> FALSE, humans |-> FALSE, countDown |-> FALSE,
           error |-> FALSE, exiting |-> FALSE]

-----------------------------------------------------------------------------
(* The queue                                                                *)

\* Packets are queued while logged in only.
Queue(q, s, packets) == IF loggedIn[s] THEN q[s] \o packets ELSE q[s]

\* QueueChatCommand: chat is discarded when too much is queued.
QueueChat(q, s) ==
  IF Len(q[s]) > ChatLimit THEN q[s] ELSE Queue(q, s, <<ChatCommand>>)

\* QueueGameUncreate and QueueEnterChat on every connection.  (Mutant: EnterChat only.)
LeaveGameChatOnly(q) == [s \in Servers |-> Queue(q, s, <<EnterChat>>)]
LeaveGame(q) == [s \in Servers |-> Queue(q, s, <<StopAdv, EnterChat>>)]

\* UnqueuePackets: the packets of other types are kept.  UnqueueGameRefreshes.
Keep(type, kept, packet) == IF packet.type = type THEN kept ELSE Append(kept, packet)

Unqueue(q) ==
  [s \in Servers |-> FoldLeft(LAMBDA kept, p : Keep("STARTADVEX3", kept, p), <<>>, q[s])]

\* A private lobby is not refreshed, so chat is entered at once where the server does
\* not take that for the end of the game.
\* (Mutant: chat is entered everywhere.)
CreatePacketsChat(id, public, s) ==
  IF public THEN <<Advertise(id)>> ELSE <<Advertise(id), EnterChat>>

CreatePackets(id, public, s) ==
  IF public \/ s \in PvPGN THEN <<Advertise(id)>> ELSE <<Advertise(id), EnterChat>>

-----------------------------------------------------------------------------
(* The lobby                                                                *)

Init ==
  /\ socket = [s \in Servers |-> "closed"]
  /\ waiting = [s \in Servers |-> TRUE] /\ loggedIn = [s \in Servers |-> FALSE]
  /\ out = [s \in Servers |-> <<>>] /\ replies = [s \in Servers |-> <<>>]
  /\ game = NoGame /\ hostCounter = 1
  /\ advert = [s \in Servers |-> Nothing]
  /\ told = {} /\ losses = 0

Hosting == game # NoGame

\* The connections on which a new private lobby can be created.
Reached(public) ==
  IF public THEN {} ELSE {s \in Servers : socket[s] = "connected" /\ loggedIn[s]}

\* CGHost::CreateGame.
CreateGame(public) ==
  /\ ~Hosting /\ hostCounter <= MaxGames
  /\ hostCounter' = hostCounter + 1
  /\ game' = [NoGame EXCEPT !.id = hostCounter, !.public = public]
  /\ out' = LET chat == [s \in Servers |-> QueueChat(out, s)]
            IN  [s \in Servers |-> Queue(chat, s, CreatePackets(hostCounter, public, s))]
  /\ told' = Reached(public)
  /\ UNCHANGED <<conn, advert, replies, losses>>

\* The lobby has human players, or none any more; the countdown starts, or is aborted;
\* the lobby is to be closed (!unhost, the lobby time limit).
LobbyChanges ==
  /\ Hosting
  /\ \/ game' = [game EXCEPT !.humans = ~@, !.countDown = FALSE]
     \/ game' = [game EXCEPT !.countDown = ~@ /\ game.humans]
     \/ ~game.countDown /\ game' = [game EXCEPT !.exiting = TRUE]
  /\ UNCHANGED <<conn, out, hostCounter, advert, replies, told, losses>>

\* !priv and !pub, by a player in the lobby.  Only a private lobby is created now.
Rehost(public) ==
  /\ Hosting /\ game.humans /\ ~game.countDown /\ hostCounter <= MaxGames
  /\ hostCounter' = hostCounter + 1
  /\ game' = [game EXCEPT !.id = hostCounter, !.public = public, !.error = FALSE]
  /\ out' = LET left == LeaveGame(Unqueue(out))
            IN  IF public THEN left
                ELSE [s \in Servers |-> Queue(left, s, CreatePackets(hostCounter, FALSE, s))]
  /\ told' = Reached(public)
  /\ UNCHANGED <<conn, advert, replies, losses>>

\* CBaseGame::EventGameStarted: the lobby is no longer the current game.
StartGame ==
  /\ Hosting /\ game.countDown
  /\ game' = NoGame
  /\ out' = LeaveGame(out)
  /\ UNCHANGED <<conn, hostCounter, advert, replies, told, losses>>

\* A public lobby is refreshed on the connections with next to nothing queued.
\* (Mutant: on the others.)
RefreshBusy(q) ==
  [s \in Servers |-> IF Len(q[s]) > 1 THEN Queue(q, s, <<Advertise(game.id)>>) ELSE q[s]]

Refresh(q) ==
  [s \in Servers |-> IF Len(q[s]) <= 1 THEN Queue(q, s, <<Advertise(game.id)>>) ELSE q[s]]

\* The lobby's part of CBaseGame::Update: an autohosted lobby that could not be refreshed
\* is rehosted under another name; one that is to be closed is deleted (CGHost::Update).
UpdateGame(due) ==
  LET rehost  == game.error /\ AutoHost /\ game.public /\ ~game.countDown
                 /\ hostCounter <= MaxGames
      refresh == due /\ ~game.error /\ game.public /\ ~game.countDown
      queued  == IF rehost THEN LeaveGame(out)
                 ELSE IF refresh THEN Refresh(out) ELSE out
  IN
  /\ Hosting
  /\ hostCounter' = IF rehost THEN hostCounter + 1 ELSE hostCounter
  /\ game' = IF game.exiting THEN NoGame
             ELSE IF rehost THEN [game EXCEPT !.id = hostCounter, !.error = FALSE] ELSE game
  /\ out' = IF game.exiting THEN LeaveGame(queued) ELSE queued
  /\ UNCHANGED <<conn, advert, replies, told, losses>>

-----------------------------------------------------------------------------
(* The connections                                                          *)

\* CBNET::Update sends one packet, after which the server may have answered.  A PvPGN
\* server takes ENTERCHAT for the end of the game.
Send(s) ==
  LET packet == Head(out[s]) IN
  /\ socket[s] = "connected" /\ out[s] # <<>>
  /\ out' = [out EXCEPT ![s] = Tail(@)]
  /\ IF packet.type = "STARTADVEX3"
     THEN \E accepted \in BOOLEAN :
            /\ Len(replies[s]) < MaxReplies
            /\ replies' = [replies EXCEPT ![s] = Append(@, accepted)]
            /\ advert' = [advert EXCEPT ![s] = IF accepted THEN packet.id ELSE @]
     ELSE /\ advert' = IF \/ packet.type = "STOPADV"
                          \/ packet.type = "ENTERCHAT" /\ s \in PvPGN
                       THEN [advert EXCEPT ![s] = Nothing] ELSE advert
          /\ UNCHANGED replies
  /\ UNCHANGED <<conn, game, hostCounter, told, losses>>

\* ProcessPackets: SID_STARTADVEX3.  After a refusal a lobby without players is closed.
Receive(s) ==
  /\ socket[s] = "connected" /\ replies[s] # <<>>
  /\ replies' = [replies EXCEPT ![s] = Tail(@)]
  /\ IF Head(replies[s]) \/ ~Hosting
     THEN UNCHANGED <<game, out>>
     ELSE /\ game' = [game EXCEPT !.error = TRUE, !.exiting = @ \/ ~game.humans]
          /\ out' = [t \in Servers |-> QueueChat(out, t)]
  /\ UNCHANGED <<conn, hostCounter, advert, told, losses>>

\* The connection is lost, or closed because of a packet that made no sense.
Lose(s) ==
  /\ socket[s] \in {"connecting", "connected"} /\ losses < MaxLosses
  /\ losses' = losses + 1
  /\ told' = told \ {s}
  /\ socket' = [socket EXCEPT ![s] = "closed"]
  /\ advert' = [advert EXCEPT ![s] = Nothing]
  /\ replies' = [replies EXCEPT ![s] = <<>>]
  /\ UNCHANGED <<waiting, loggedIn, out, game, hostCounter>>

\* CBNET::Update notices that the socket is closed.
Disconnected(s) ==
  /\ socket[s] = "closed" /\ ~waiting[s]
  /\ waiting' = [waiting EXCEPT ![s] = TRUE]
  /\ loggedIn' = [loggedIn EXCEPT ![s] = FALSE]
  /\ UNCHANGED <<socket, out, game, hostCounter, advert, replies, told, losses>>

\* It tries to connect, 90 seconds later.
Connect(s) ==
  /\ socket[s] = "closed" /\ waiting[s]
  /\ socket' = [socket EXCEPT ![s] = "connecting"]
  /\ waiting' = [waiting EXCEPT ![s] = FALSE]
  /\ UNCHANGED <<loggedIn, out, game, hostCounter, advert, replies, told, losses>>

\* The connection is made; what was queued for the last one is thrown away.
Connected(s) ==
  /\ socket[s] = "connecting"
  /\ socket' = [socket EXCEPT ![s] = "connected"]
  /\ out' = [out EXCEPT ![s] = <<>>]
  /\ UNCHANGED <<waiting, loggedIn, game, hostCounter, advert, replies, told, losses>>

\* ProcessPackets: SID_AUTH_ACCOUNTLOGONPROOF.
LogOn(s) ==
  /\ socket[s] = "connected" /\ ~loggedIn[s]
  /\ loggedIn' = [loggedIn EXCEPT ![s] = TRUE]
  /\ UNCHANGED <<socket, waiting, out, game, hostCounter, advert, replies, told, losses>>

Next ==
  \/ \E public \in BOOLEAN : CreateGame(public) \/ Rehost(public)
  \/ LobbyChanges \/ StartGame
  \/ \E due \in BOOLEAN : UpdateGame(due)
  \/ \E s \in Servers : \/ Send(s) \/ Receive(s) \/ Lose(s)
                        \/ Disconnected(s) \/ Connect(s) \/ Connected(s) \/ LogOn(s)

Spec == Init /\ [][Next]_vars

\* The main loop goes on, the timers run out, the servers can be reached in the end.
FairSpec ==
  /\ Spec
  /\ WF_vars(UpdateGame(TRUE))
  /\ \A s \in Servers : /\ WF_vars(Send(s)) /\ WF_vars(Receive(s))
                        /\ WF_vars(Disconnected(s)) /\ WF_vars(Connect(s))
                        /\ WF_vars(Connected(s)) /\ WF_vars(LogOn(s))

-----------------------------------------------------------------------------
(* Properties                                                               *)

Ids == 1..MaxGames

TypeOK ==
  /\ socket \in [Servers -> {"closed", "connecting", "connected"}]
  /\ waiting \in [Servers -> BOOLEAN] /\ loggedIn \in [Servers -> BOOLEAN]
  /\ \A s \in Servers : \A i \in 1..Len(out[s]) :
       \/ out[s][i] \in {StopAdv, EnterChat, ChatCommand}
       \/ out[s][i].type = "STARTADVEX3" /\ out[s][i].id \in Ids
  /\ Hosting => game.id \in Ids
  /\ hostCounter \in 1..(MaxGames + 1)
  /\ advert \in [Servers -> Ids \cup {Nothing}]
  /\ \A s \in Servers : Len(replies[s]) <= MaxReplies
  /\ told \subseteq Servers /\ losses \in 0..MaxLosses

\* A packet is sent on the connection it was queued for: nothing is queued on a
\* connection before it is logged on, whatever was left over from the last one, and
\* nobody is logged on without a connection once the loss has been noticed.
NothingLeftOver ==
  \A s \in Servers :
    /\ socket[s] = "connected" /\ ~loggedIn[s] => out[s] = <<>>
    /\ waiting[s] => ~loggedIn[s]

\* What the server can come to advertise after a packet, and once the queue has been sent.
Comes(s, acc, packet) ==
  CASE packet.type = "STARTADVEX3" -> acc \cup {packet.id}
    [] packet.type = "STOPADV" -> {Nothing}
    [] packet.type = "ENTERCHAT" -> IF s \in PvPGN THEN {Nothing} ELSE acc
    [] packet.type = "CHATCOMMAND" -> acc

ComesTo(s) == FoldLeft(LAMBDA acc, packet : Comes(s, acc, packet), {advert[s]}, out[s])

\* Once what is queued has been sent, a server advertises the current lobby under its
\* current name or nothing, however often the lobby was rehosted, closed or started in
\* between: players are never left with the name of a game that is gone.
OldNamesGo ==
  \A s \in Servers :
    socket[s] = "connected" => ComesTo(s) \subseteq {Nothing, game.id}

\* The queues carry nothing that is out of date: not from an earlier connection, and
\* nothing that brings an earlier lobby back.
QueuesAreCurrent == TypeOK /\ NothingLeftOver /\ OldNamesGo

\* A private lobby is created once and never refreshed, so it must not be lost: on every
\* connection that was logged on and is not lost since, its creation is still queued, or
\* it is advertised and nothing in the queue ends that, or it was refused.
PrivateIsAdvertised ==
  Hosting /\ ~game.public /\ ~game.error =>
    \A s \in told : game.id \in ComesTo(s) \/ \E i \in 1..Len(replies[s]) : ~replies[s][i]

\* A public lobby comes to be advertised under its name on every server, through lost
\* connections and a full queue, unless it is changed again, or a refresh was refused:
\* then it is marked, so that an operator can rehost it.
PublicIsAdvertised ==
  \A id \in Ids, s \in Servers :
    (game.id = id /\ game.public)
      ~> (advert[s] = id \/ game.id # id \/ ~game.public \/ game.error \/ game.countDown)

=============================================================================
