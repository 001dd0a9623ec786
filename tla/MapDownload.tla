---------------------------- MODULE MapDownload ----------------------------
(***************************************************************************)
(* The map in the lobby (CBaseGame::EventPlayerMapSize and Update): who    *)
(* has the map, who is sent it, and when the game may start.               *)
(*                                                                         *)
(* A download is a window: every 100 ms the bot sends each downloader, in  *)
(* the order of m_Players and up to bot_maxdownloaders of them, parts of   *)
(* the map until 100 parts are not acknowledged or the bytes of this       *)
(* second are used up.  Sizes are in parts (of 1442 bytes).                *)
(*                                                                         *)
(* What the slots show, and what is looked at before the game starts, is a *)
(* percentage of the size that a client says it has, in an unsigned char.  *)
(***************************************************************************)
EXTENDS Game, Integers, Sequences, FiniteSets, SequencesExt

CONSTANTS
  Parts,           \* the size of the map
  Window,          \* parts sent ahead of the acknowledged ones (100)
  MaxDownloaders,  \* bot_maxdownloaders; 0 is no limit
  MaxSpeed,        \* parts in a second that exceed bot_maxdownloadspeed; 0 is no limit
  Rounds,          \* rounds of sending in a second (10)
  Modes,           \* what !downloads sets m_AllowDownloads to
  Files,           \* sizes of what clients have in the place of the map; 0 is nothing
  Overflow         \* what a number beyond 255 may become as an unsigned char (undefined)

ASSUME DownloadAssumption ==
  /\ Files \subseteq Nat /\ 0 \in Files
  /\ Overflow \subseteq 0..255 /\ Overflow # {}
  /\ Parts \in Nat \ {0} /\ Window \in Nat \ {0}
  /\ MaxDownloaders \in Nat /\ MaxSpeed \in Nat /\ Rounds \in Nat \ {0}
  /\ Modes \subseteq {0, 1, 2} /\ Modes # {}

\* m_Players is a sequence here.
VARIABLES
  lobby,     \* neither m_GameLoading nor m_GameLoaded
  countdown, \* m_CountDownStarted, by StartCountDown( false )
  mode,      \* m_AllowDownloads
  copy,      \* does the bot have a copy of the map (GetMapData)?
  started, finished, allowed,  \* the players with m_DownloadStarted, -Finished, -Allowed
  sent,      \* m_LastMapPartSent
  acked,     \* m_LastMapPartAcked
  status,    \* the download status of each player's slot; Unknown at first
  changed,   \* m_SlotInfoChanged
  counter,   \* m_DownloadCounter
  round,     \* rounds of sending since the counter was reset
  \* the clients
  replied,   \* those whose answer to W3GS_MAPCHECK has been handled
  file,      \* the size of what each client has when it joins: Parts is the map itself
  received,  \* the parts of the map each client has
  said,      \* how many of them it has told of
  \* history
  untold,    \* whose status has changed since the slots were last sent
  ignored,   \* those of whose acknowledgements one was not taken
  misled     \* those whose first answer was taken for an acknowledgement

server       == <<players, lobby, countdown, mode, copy, started, finished, allowed, sent,
                  acked, status, changed, counter, round>>
client       == <<replied, file, received, said>>
hist         == <<untold, ignored, misled>>
downloadVars == <<server, client, hist>>

Unknown == 255

Present == ToSet(players)

Downloading == started \ finished

AtMost(a, b) == IF a < b THEN a ELSE b

-----------------------------------------------------------------------------
(* The handlers of packets and commands                                     *)

DownloadInit ==
  /\ players = <<>>
  /\ lobby = TRUE /\ countdown = FALSE
  /\ mode \in Modes /\ copy \in BOOLEAN
  /\ started = {} /\ finished = {} /\ allowed = {}
  /\ sent = [p \in Players |-> 0] /\ acked = sent
  /\ status = [p \in Players |-> Unknown]
  /\ changed = FALSE /\ counter = 0 /\ round = 0
  /\ replied = {} /\ file = sent /\ received = sent /\ said = sent
  /\ untold = {} /\ ignored = {} /\ misled = {}

\* Everybody is told the slots.
SendAllSlotInfo == changed' = FALSE /\ untold' = {}

\* A player joins with this in the place of the map, and ends a countdown.
EventPlayerJoined(p, size) ==
  /\ lobby /\ p \notin Present
  /\ players' = Append(players, p) /\ countdown' = FALSE
  /\ file' = [file EXCEPT ![p] = size]
  /\ received' = [received EXCEPT ![p] = IF size = Parts THEN Parts ELSE 0]
  /\ SendAllSlotInfo
  /\ UNCHANGED <<lobby, mode, copy, started, finished, allowed, sent, acked, status, counter,
                 round, replied, said, ignored, misled>>

\* A player is deleted and the slot opened, which everybody is told at once and which
\* ends a countdown.
RemovePlayer(p) ==
  /\ \E i \in DOMAIN players : players[i] = p /\ players' = RemoveAt(players, i)
  /\ countdown' = FALSE
  /\ started' = started \ {p} /\ finished' = finished \ {p} /\ allowed' = allowed \ {p}
  /\ sent' = [sent EXCEPT ![p] = 0] /\ acked' = [acked EXCEPT ![p] = 0]
  /\ status' = [status EXCEPT ![p] = Unknown] /\ SendAllSlotInfo
  /\ file' = [file EXCEPT ![p] = 0] /\ received' = [received EXCEPT ![p] = 0]
  /\ said' = [said EXCEPT ![p] = 0] /\ replied' = replied \ {p}
  /\ ignored' = ignored \ {p} /\ misled' = misled \ {p}

\* NewDownloadStatus: the percentage of the map's size, in a byte, and 100 if that is more.
Statuses(size) ==
  LET percent == (size * 100) \div Parts IN
  {AtMost(byte, 100) : byte \in IF percent <= 255 THEN {percent} ELSE Overflow}

\* The status of the slot; the others are told later.
SetStatus(p, size) ==
  \E new \in Statuses(size) :
    /\ status' = [status EXCEPT ![p] = new]
    /\ IF status[p] # new THEN changed' = TRUE /\ untold' = untold \cup {p}
       ELSE UNCHANGED <<changed, untold>>

\* EventPlayerMapSize once the player has been found not to have the map: where
\* downloads are allowed a first message starts one, and any later one acknowledges;
\* so does the first one of a player for whom !download has started it.
NeedsMap(p, flag, size) ==
  IF mode = 1 \/ (mode = 2 /\ p \in allowed)
  THEN /\ IF p \notin started /\ flag = 1
          THEN started' = started \cup {p} /\ UNCHANGED <<acked, misled>>
          ELSE /\ acked' = [acked EXCEPT ![p] = size] /\ UNCHANGED started
               /\ misled' = IF p \notin replied /\ size # 0 THEN misled \cup {p} ELSE misled
       /\ UNCHANGED ignored
  ELSE /\ ignored' = IF p \in started THEN ignored \cup {p} ELSE ignored
       /\ UNCHANGED <<started, acked, misled>>

\* W3GS_MAPSIZE, from a player who is in the lobby and has told of so many parts of the
\* map.  Without downloads, or a map to send, a player who lacks the map is deleted.
EventPlayerMapSize(p, flag, size, parts) ==
  LET complete == flag = 1 /\ size = Parts IN
  IF ~complete /\ (mode = 0 \/ ~copy)
  THEN RemovePlayer(p)
  ELSE /\ IF complete
          THEN UNCHANGED <<started, acked, ignored, misled>>
          ELSE NeedsMap(p, flag, size)
       /\ finished' = IF complete /\ p \in started THEN finished \cup {p} ELSE finished
       /\ SetStatus(p, size)
       /\ replied' = replied \cup {p} /\ said' = [said EXCEPT ![p] = parts]
       /\ UNCHANGED <<players, countdown, allowed, sent, file, received>>

\* !download.
Download(p) ==
  /\ lobby /\ p \in Present
  /\ p \notin started \cup finished
  /\ status[p] # 100
  /\ allowed' = allowed \cup {p}
  /\ started' = started \cup {p}
  /\ UNCHANGED <<players, lobby, countdown, mode, copy, finished, sent, acked, status, changed,
                 counter, round, client, hist>>

\* !downloads.
SetDownloads(m) ==
  /\ lobby
  /\ mode' = m
  /\ UNCHANGED <<players, lobby, countdown, copy, started, finished, allowed, sent, acked,
                 status, changed, counter, round, client, hist>>

\* A player leaves the lobby.
PlayerLeaves(p) ==
  /\ lobby /\ p \in Present
  /\ RemovePlayer(p)
  /\ UNCHANGED <<lobby, mode, copy, counter, round>>

-----------------------------------------------------------------------------
(* The timers of Update                                                     *)

\* The parts a player is sent when this is what has been sent and acknowledged, and used
\* up of this second.  (Mutant: more is sent although nothing was acknowledged.)
OpenAnyway(at, p) == AtMost(Window, Parts - at.sent[p])

Open(at, p) == AtMost(Window - (at.sent[p] - at.acked[p]), Parts - at.sent[p])

Left(at) == IF MaxSpeed = 0 THEN Parts ELSE MaxSpeed - at.used

Pieces(at, p) ==
  IF Left(at) > 0 /\ Open(at, p) > 0 THEN AtMost(Open(at, p), Left(at)) ELSE 0

\* A player is served if it is downloading and not too many others were before it.
\* (Mutant: only the first time.)
MayBeServedOnce(active, at, p) ==
  p \in active /\ at.sent[p] = 0 /\ (MaxDownloaders = 0 \/ at.downloaders < MaxDownloaders)

MayBeServed(active, at, p) ==
  p \in active /\ (MaxDownloaders = 0 \/ at.downloaders < MaxDownloaders)

Serve(active, at, p) ==
  LET n == Pieces(at, p) IN
  IF MayBeServed(active, at, p)
  THEN [at EXCEPT !.sent[p] = @ + n, !.used = @ + n, !.downloaders = @ + 1]
  ELSE at

\* A round of sending, when this much has been sent in this second before.
SendParts(used) ==
  LET all == FoldLeft(LAMBDA at, p : Serve(Downloading, at, p),
                      [sent |-> sent, acked |-> acked, used |-> used, downloaders |-> 0],
                      players)
  IN  sent' = all.sent /\ counter' = all.used

\* Once a second the counter is reset, and the slots are sent if they have changed.
Update ==
  LET second == round + 1 >= Rounds IN
  /\ lobby
  /\ SendParts(IF second THEN 0 ELSE counter)
  /\ round' = IF second THEN 0 ELSE round + 1
  /\ IF second /\ changed THEN SendAllSlotInfo ELSE UNCHANGED <<changed, untold>>
  /\ UNCHANGED <<players, lobby, countdown, mode, copy, started, finished, allowed, acked,
                 status, client, ignored, misled>>

\* StartCountDown, of a game that is not forced: the slots say that everybody has the map.
\* (Mutant: the players who are not downloading are not looked at.)
CountDownDownloaded ==
  /\ lobby /\ ~countdown /\ players # <<>>
  /\ \A p \in Present \cap started : status[p] = 100
  /\ countdown' = TRUE
  /\ UNCHANGED <<players, lobby, mode, copy, started, finished, allowed, sent, acked, status,
                 changed, counter, round, client, hist>>

StartCountDown ==
  /\ lobby /\ ~countdown /\ players # <<>>
  /\ \A p \in Present : status[p] = 100
  /\ countdown' = TRUE
  /\ UNCHANGED <<players, lobby, mode, copy, started, finished, allowed, sent, acked, status,
                 changed, counter, round, client, hist>>

\* !abort.
Abort ==
  /\ lobby /\ countdown
  /\ countdown' = FALSE
  /\ UNCHANGED <<players, lobby, mode, copy, started, finished, allowed, sent, acked, status,
                 changed, counter, round, client, hist>>

\* The countdown has come to its end: that one, or the one of !start force, of which nothing
\* else is seen here.
EventGameStarted ==
  /\ lobby /\ players # <<>>
  /\ lobby' = FALSE
  /\ IF changed THEN SendAllSlotInfo ELSE UNCHANGED <<changed, untold>>
  /\ UNCHANGED <<players, countdown, mode, copy, started, finished, allowed, sent, acked,
                 status, counter, round, client, ignored, misled>>

-----------------------------------------------------------------------------
(* The clients: an answer to MAPCHECK, then one acknowledgement for each part, *)
(* the last of which says that the client has the map.                      *)

\* The size in the last MAPSIZE of a client who has told of so many parts.
Word(p, parts) == IF parts = 0 THEN file[p] ELSE parts

Tell(p, flag, parts) ==
  /\ lobby
  /\ EventPlayerMapSize(p, flag, Word(p, parts), parts)
  /\ UNCHANGED <<lobby, mode, copy, counter, round>>

\* What the client says before it is sent anything.
Reply(p) ==
  /\ p \in Present \ replied
  /\ Tell(p, 1, received[p])

Receive(p) ==
  /\ lobby /\ copy /\ p \in Present
  /\ received[p] < sent[p]
  /\ received' = [received EXCEPT ![p] = @ + 1]
  /\ UNCHANGED <<server, replied, file, said, hist>>

Acknowledge(p) ==
  /\ p \in Present \cap replied
  /\ said[p] < received[p]
  /\ Tell(p, IF said[p] + 1 = Parts THEN 1 ELSE 3, said[p] + 1)

DownloadNext ==
  \/ \E p \in Players, size \in Files : EventPlayerJoined(p, size)
  \/ \E p \in Players : Reply(p) \/ Receive(p) \/ Acknowledge(p)
  \/ \E p \in Players : Download(p) \/ PlayerLeaves(p)
  \/ \E m \in Modes : SetDownloads(m)
  \/ StartCountDown \/ Abort \/ EventGameStarted
  \/ Update

DownloadSpec == DownloadInit /\ [][DownloadNext]_downloadVars

\* The main loop goes on, and a client that stays answers what it is sent.
FairSpec ==
  /\ DownloadSpec
  /\ WF_downloadVars(Update)
  /\ \A p \in Players : WF_downloadVars(Reply(p) \/ Receive(p) \/ Acknowledge(p))

-----------------------------------------------------------------------------
(* Properties                                                               *)

DownloadTypeOK ==
  /\ Present \subseteq Players
  /\ lobby \in BOOLEAN /\ countdown \in BOOLEAN /\ mode \in Modes /\ copy \in BOOLEAN
  /\ changed \in BOOLEAN
  /\ started \subseteq Players /\ finished \subseteq started /\ allowed \subseteq started
  /\ replied \subseteq Players /\ ignored \subseteq started /\ misled \subseteq started
  /\ sent \in [Players -> 0..Parts] /\ acked \in [Players -> Nat]
  /\ file \in [Players -> Files]
  /\ received \in [Players -> 0..Parts] /\ said \in [Players -> 0..Parts]
  /\ status \in [Players -> 0..100 \cup {Unknown}]
  /\ counter \in Nat /\ round \in 0..Rounds
  /\ untold \subseteq Players

\* The bot is never further ahead of a client than the window: at most 100 parts clog a
\* slow connection, whatever the order of sending and acknowledging.  The exception is
\* !download of a player who has not answered yet and has another file: its size is taken
\* for the parts that it acknowledges.
WindowKept == \A p \in Present \ misled : sent[p] - received[p] <= Window

\* All downloads together take no more of a second than bot_maxdownloadspeed, counting the
\* part that exceeds it, however many rounds and downloaders there are.
SpeedKept == MaxSpeed > 0 => counter <= MaxSpeed

\* Both limits hold in every order of rounds, acknowledgements and changes of the options.
LimitsKept == DownloadTypeOK /\ WindowKept /\ SpeedKept

\* A slot shows a complete download only for a player who has the map, or whose last word
\* was of a file larger than the map; and a game that was not forced, which is to "check if
\* everyone has the map", starts only with players who have it or joined with such a file,
\* although statuses are looked at when the countdown begins and change while it runs.
EverybodyHasTheMap ==
  /\ \A p \in Present :
       status[p] = 100 => received[p] = Parts \/ (said[p] = 0 /\ file[p] > Parts)
  /\ countdown => \A p \in Present : received[p] = Parts \/ file[p] > Parts

\* The slots the players see are those of the bot, except for changes that the next
\* second will bring; a game never starts with different slots ("send a final slot info
\* update if necessary").
SlotsShown == ~changed \/ ~lobby => untold = {}

\* The game that starts is the one that everybody sees, with players who can load it.
SlotsAreTrue == EverybodyHasTheMap /\ SlotsShown

\* A download of somebody who stays comes to its end if the game does not start before:
\* neither the window, the cap on downloaders nor the speed limit starves anybody for
\* ever.  The exception is an acknowledgement that was not taken, because !downloads
\* changed m_AllowDownloads in the middle of a download: that download stands still and
\* goes on to occupy a place among the downloaders.
DownloadsEnd ==
  \A p \in Players :
    (p \in started) ~> (p \notin Present \cap Downloading \/ ~lobby \/ ignored # {})

=============================================================================
