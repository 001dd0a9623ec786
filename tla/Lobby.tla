------------------------------- MODULE Lobby -------------------------------
(***************************************************************************)
(* The lobby of a game (CBaseGame before EventGameStarted): players join   *)
(* and are given a PID and a slot, leave, are kicked, the slots are opened,*)
(* closed and swapped, a virtual host fills in while there is room for it, *)
(* and a countdown starts the game.                                        *)
(*                                                                         *)
(* Everything happens in CBaseGame::Update: the score checks that are      *)
(* ready, then the players in the order of m_Players, then the clients who *)
(* want to join, then the rest.  A kicked player stays in m_Players until  *)
(* its own update, while others act and join.  What each client has been   *)
(* told with PLAYERINFO and PLAYERLEAVE is kept as history.                *)
(***************************************************************************)
EXTENDS Integers, Sequences, FiniteSets, SequencesExt

CONSTANTS
  Clients,      \* who may join, once each; a client is named by its score
  Admins,       \* those whose commands the bot obeys
  Reserved,     \* those with a reserved slot
  Owner,        \* the owner of the game
  CountDown,    \* bound: the ticks of the countdown (10 to -2)
  Games         \* the games: m_Slots.size( ), for a full map the 12 PIDs of Warcraft III,
                \* and m_MatchMaking, with method 2: the lowest score is kicked

ASSUME LobbyAssumption ==
  /\ Clients \subseteq Nat \ {0} /\ IsFiniteSet(Clients)
  /\ Admins \subseteq Clients /\ Reserved \subseteq Clients
  /\ CountDown \in Nat
  /\ Games \subseteq [slots : Nat \ {0}, matching : BOOLEAN]

VARIABLES
  game,       \* which of Games this is
  players,    \* m_Players
  pid,        \* m_PID of each client, 0 if it is not a player
  deleteMe,   \* the players whose m_DeleteMe is set
  leftSent,   \* the players whose m_LeftMessageSent is set
  slots,      \* m_Slots: the status and the PID of each
  vhost,      \* m_VirtualHostPID, 0 if there is none
  fake,       \* m_FakePlayerPID, 0 if there is none
  counting,   \* m_CountDownStarted
  count,      \* m_CountDownCounter
  started,    \* m_GameLoading
  checks,     \* m_ScoreChecks, by who wants to join
  stage,      \* "scores" or "players": what this Update is doing
  todo,       \* how many players it has still to visit
  \* history
  arrived,    \* the clients who have asked to join
  view,       \* the PIDs each client has been told of, its own included
  garbled,    \* who was told of a PID it knew, or of the end of one it did not
  roster      \* the players when the countdown started, while it lasts

people  == <<players, pid, deleteMe, leftSent>>
table   == <<slots, vhost, fake>>
clock   == <<counting, count, started>>
control == <<checks, stage, todo>>
history == <<arrived, view, garbled, roster>>
vars    == <<game, people, table, clock, control, history>>

NumSlots    == game.slots
MatchMaking == game.matching

Slots   == 1..NumSlots
Present == ToSet(players)

Open      == [status |-> "open",   pid |-> 0]
Closed    == [status |-> "closed", pid |-> 0]
Computer  == [status |-> "occupied", pid |-> 0]
Taken(n)  == [status |-> "occupied", pid |-> n]

-----------------------------------------------------------------------------
(* Look-ups                                                                *)

\* The lowest of a set of slots or PIDs, 0 if it is empty (255 in the code).
Lowest(S) == IF S = {} THEN 0 ELSE CHOOSE n \in S : \A m \in S : n <= m

\* GetSIDFromPID, GetEmptySlot and GetPlayerFromSID, which does not see a player who
\* has been announced to have left.  (Mutant: it sees nobody.)
SIDOf(n)     == Lowest({s \in Slots : slots[s].pid = n})
EmptySlot    == Lowest({s \in Slots : slots[s].status = "open"})
NoPlayerIn(s) == {p \in Present : FALSE}
PlayerIn(s)  == {p \in Present \ leftSent : pid[p] = slots[s].pid}

\* GetEmptySlot( true ) when no slot is empty: a closed one, or one of a player without
\* a reserved slot (the code prefers one who is still downloading the map).
ReservedSlot ==
  LET closed == {s \in Slots : slots[s].status = "closed"}
  IN  IF closed # {} THEN Lowest(closed)
      ELSE Lowest({s \in Slots : PlayerIn(s) \ Reserved # {}})

\* The slot the owner takes when that fails too.
OwnerSlot ==
  LET taken == {s \in Slots : slots[s].pid # 0} IN IF taken = {} THEN 1 ELSE Lowest(taken)

\* The PIDs of the game when the players "gone" have been announced to have left and
\* vh is the virtual host.  (Mutant: a player who will be deleted has none.)
UsedByTheRest(gone, vh) == ({vh, fake} \cup {pid[p] : p \in Present \ deleteMe}) \ {0}
Used(gone, vh)          == ({vh, fake} \cup {pid[p] : p \in Present \ gone}) \ {0}

\* GetNewPID.
NewPID(used) == Lowest(1..(Cardinality(used) + 1) \ used)

\* GetNumPlayers, and the virtual host once there is one player more: it makes room for
\* the last.
NumPlayers(gone) == Cardinality(Present \ gone) + (IF fake # 0 THEN 1 ELSE 0)
RoomyHost(gone)   == IF NumPlayers(gone) >= NumSlots - 1 THEN 0 ELSE vhost

\* Some players are sent the PLAYERLEAVE of some PIDs, then the PLAYERINFO of others.
Tell(who, leaves, infos) ==
  /\ view' = [c \in Clients |-> IF c \in who THEN (view[c] \ leaves) \cup infos
                                ELSE IF c \in leftSent THEN view[c] ELSE {}]
  /\ garbled' = garbled \cup {c \in who : \/ ~(leaves \subseteq view[c])
                                          \/ infos \cap (view[c] \ leaves) # {}}

-----------------------------------------------------------------------------

Init ==
  /\ game \in Games
  /\ players = <<>> /\ pid = [c \in Clients |-> 0] /\ deleteMe = {} /\ leftSent = {}
  /\ slots = [s \in Slots |-> Open]
  /\ vhost = 1 /\ fake = 0
  /\ counting = FALSE /\ count = 0 /\ started = FALSE
  /\ checks = {} /\ stage = "scores" /\ todo = 0
  /\ arrived = {} /\ view = [c \in Clients |-> {}] /\ garbled = {} /\ roster = {}

-----------------------------------------------------------------------------
(* Joining: EventPlayerJoined and EventPlayerJoinedWithScore                *)

\* The client c becomes a player in slot s; before that the players "kicked" for it are
\* announced to have left.  A countdown is aborted.
Admit(c, s, kicked) ==
  LET gone == leftSent \cup kicked
      vh   == RoomyHost(gone)
      n    == NewPID(Used(gone, vh))
      leaves == {pid[p] : p \in kicked} \cup ({vhost} \ {vh})
  IN
  /\ players' = Append(players, c)
  /\ deleteMe' = deleteMe \cup kicked /\ leftSent' = gone
  /\ pid' = [pid EXCEPT ![c] = n]
  /\ slots' = [slots EXCEPT ![s] = Taken(n)]
  /\ vhost' = vh
  /\ view' = [d \in Clients |->
                IF d = c THEN Used(gone, vh) \cup {n}
                ELSE IF d \in Present \ gone THEN (view[d] \ leaves) \cup {n} ELSE view[d]]
  /\ garbled' = garbled \cup {d \in Present \ gone : \/ ~(leaves \subseteq view[d])
                                                     \/ n \in view[d] \ leaves}
  /\ counting' = FALSE /\ roster' = {}
  /\ UNCHANGED <<fake, count, started>>

\* A client asks to join.  A full game rejects it at once; with matchmaking its score is
\* looked up first; else it gets the first open slot (had the game not been found full,
\* a reserved player's or the owner's).
Join(c) ==
  /\ stage = "players" /\ todo = 0
  /\ c \notin arrived
  /\ arrived' = arrived \cup {c}
  /\ IF EmptySlot = 0
     THEN UNCHANGED <<people, table, clock, checks, view, garbled, roster>>
     ELSE IF MatchMaking
     THEN checks' = checks \cup {c} /\ UNCHANGED <<people, table, clock, view, garbled, roster>>
     ELSE LET reserved == c \in Reserved \/ c = Owner
              found == IF EmptySlot # 0 \/ ~reserved THEN EmptySlot ELSE ReservedSlot
              s     == IF found = 0 /\ c = Owner THEN OwnerSlot ELSE found
          IN  Admit(c, s, IF EmptySlot # 0 THEN {} ELSE PlayerIn(s)) /\ UNCHANGED checks
  /\ UNCHANGED <<stage, todo>>

\* Is a player with score c turned away when the lowest score is low?  (Mutant: a player
\* with a better one is.)
TooGood(c, low) == c > low
TooLow(c, low)  == c < low

\* The score of c has been looked up.  If the game has filled up in the meantime the
\* player with the lowest score, of all those in m_Players, is kicked for c, unless c's
\* is lower.
ScoreReady(c) ==
  /\ stage = "scores"
  /\ c \in checks
  /\ checks' = checks \ {c}
  /\ LET low == Lowest(Present)
         s   == SIDOf(pid[low])
     IN  IF EmptySlot # 0 THEN Admit(c, EmptySlot, {})
         ELSE IF low = 0 \/ TooLow(c, low)
         THEN UNCHANGED <<people, table, clock, view, garbled, roster>>
         ELSE IF s # 0 THEN Admit(c, s, {low})
         ELSE /\ deleteMe' = deleteMe \cup {low} /\ leftSent' = leftSent \cup {low}
              /\ Tell(Present \ leftSent', {pid[low]}, {})
              /\ UNCHANGED <<players, pid, table, clock, roster>>
  /\ UNCHANGED <<stage, todo, arrived>>

\* Who was to be scored gives up.
GiveUp(c) ==
  /\ stage = "players" /\ todo = 0
  /\ c \in checks
  /\ checks' = checks \ {c}
  /\ UNCHANGED <<people, table, clock, stage, todo, history>>

-----------------------------------------------------------------------------
(* While a player is updated                                                *)

BeginPlayers ==
  /\ stage = "scores"
  /\ stage' = "players" /\ todo' = Len(players)
  /\ UNCHANGED <<people, table, clock, checks, history>>

Visiting(p) == stage = "players" /\ todo > 0 /\ p = players[Len(players) - todo + 1]

\* Its packets are handled, and among them the commands the bot obeys.
Acting(p)     == Visiting(p) /\ p \notin deleteMe
Commanding(p) == Acting(p) /\ p \in Admins

\* Slot s becomes "slot", and who is in it is kicked: OpenSlot, CloseSlot and
\* ComputerSlot with kick = true.
SetSlot(p, s, slot) ==
  /\ Commanding(p)
  /\ slots' = [slots EXCEPT ![s] = slot]
  /\ deleteMe' = deleteMe \cup PlayerIn(s)
  /\ UNCHANGED <<players, pid, leftSent, vhost, fake, clock, control, history>>

\* OpenSlot( GetSIDFromPID( PID ), false ), a PID without a slot changes nothing.
FreeSlot(n) == slots' = [s \in Slots |-> IF s = SIDOf(n) THEN Open ELSE slots[s]]

Kick(p, q) ==
  /\ Commanding(p)
  /\ q \in Present \ leftSent
  /\ deleteMe' = deleteMe \cup {q}
  /\ FreeSlot(pid[q])
  /\ UNCHANGED <<players, pid, leftSent, vhost, fake, clock, control, history>>

\* !swap; a player changes its team by taking an open slot itself.
SwapSlots(p, s, t) ==
  /\ \/ Commanding(p)
     \/ Acting(p) /\ s = SIDOf(pid[p]) /\ slots[t].status = "open"
  /\ s # t /\ s \in Slots
  /\ slots' = [slots EXCEPT ![s] = slots[t], ![t] = slots[s]]
  /\ UNCHANGED <<people, vhost, fake, clock, control, history>>

\* !openall and !closeall.
SetAllSlots(p, from, to) ==
  /\ Commanding(p)
  /\ slots' = [s \in Slots |-> IF slots[s] = from THEN to ELSE slots[s]]
  /\ UNCHANGED <<people, vhost, fake, clock, control, history>>

CreateFakePlayer(p) ==
  LET n == NewPID(Used(leftSent, vhost')) IN
  /\ Commanding(p)
  /\ ~counting /\ fake = 0 /\ EmptySlot # 0
  /\ vhost' = RoomyHost(leftSent)
  /\ fake' = n
  /\ slots' = [slots EXCEPT ![EmptySlot] = Taken(n)]
  /\ Tell(Present \ leftSent, {vhost} \ {vhost'}, {n})
  /\ UNCHANGED <<people, clock, control, arrived, roster>>

DeleteFakePlayer(p) ==
  /\ Commanding(p)
  /\ ~counting /\ fake # 0
  /\ FreeSlot(fake)
  /\ fake' = 0
  /\ Tell(Present \ leftSent, {fake}, {})
  /\ UNCHANGED <<people, vhost, clock, control, arrived, roster>>

\* !start, once everybody has the map and has been pinged, and !startn.
StartCountDown(p, from) ==
  /\ Commanding(p)
  /\ ~counting
  /\ counting' = TRUE /\ count' = from
  /\ roster' = Present \ leftSent
  /\ UNCHANGED <<people, table, started, control, arrived, view, garbled>>

Abort(p) ==
  /\ Commanding(p)
  /\ counting /\ counting' = FALSE
  /\ roster' = {}
  /\ UNCHANGED <<people, table, count, started, control, arrived, view, garbled>>

\* The player leaves.
Leave(p) ==
  /\ Acting(p)
  /\ deleteMe' = deleteMe \cup {p}
  /\ FreeSlot(pid[p])
  /\ UNCHANGED <<players, pid, leftSent, vhost, fake, clock, control, history>>

\* EventPlayerDeleted.  (Mutant: the countdown goes on without the player.)
CountsOn(p)      == counting
CountsWithout(p) == counting /\ p \in leftSent

\* The end of its update: if its connection is gone its slot is opened, and it is
\* deleted.
EndVisit(p) ==
  \E lost \in BOOLEAN :
  /\ Visiting(p)
  /\ todo' = todo - 1
  /\ IF lost THEN FreeSlot(pid[p]) ELSE UNCHANGED slots
  /\ IF ~lost /\ p \notin deleteMe
     THEN UNCHANGED <<people, counting, view, garbled, roster>>
     ELSE /\ players' = RemoveAt(players, Len(players) - todo + 1)
          /\ pid' = [pid EXCEPT ![p] = 0]
          /\ deleteMe' = deleteMe \ {p} /\ leftSent' = leftSent \ {p}
          /\ counting' = CountsWithout(p)
          /\ roster' = IF counting' THEN roster ELSE {}
          /\ Tell(Present \ (leftSent \cup {p}), IF p \in leftSent THEN {} ELSE {pid[p]}, {})
  /\ UNCHANGED <<vhost, fake, count, started, checks, stage, arrived>>

-----------------------------------------------------------------------------
(* The rest of CBaseGame::Update                                            *)

\* The countdown goes on.
Tick(n)     == IF n > 0 THEN n - 1 ELSE 0

\* CreateVirtualHost, then who has not spoof checked in time is kicked, then the
\* countdown is started by itself, or goes on, or starts the game.
Rest ==
  /\ stage = "players" /\ todo = 0
  /\ stage' = "scores"
  /\ \E late \in SUBSET (IF counting THEN {} ELSE Present), auto, due \in BOOLEAN :
     LET host == IF vhost = 0 /\ NumPlayers(leftSent) < NumSlots
                 THEN NewPID(Used(leftSent, 0)) ELSE vhost
         begin == auto /\ ~counting
         start == counting /\ due /\ count = 0
     IN  /\ deleteMe' = deleteMe \cup late
         /\ slots' = [s \in Slots |-> IF \E p \in late : s = SIDOf(pid[p]) THEN Open ELSE slots[s]]
         /\ counting' = (counting \/ begin)
         /\ roster' = IF begin THEN Present \ leftSent ELSE roster
         /\ count' = IF begin THEN CountDown
                     ELSE IF counting /\ due THEN Tick(count) ELSE count
         /\ started' = start
         /\ vhost' = IF start THEN 0 ELSE host
         /\ IF start THEN Tell(Present \ leftSent, {vhost} \ {0}, {})
            ELSE Tell(Present \ leftSent, {}, {host} \ {0, vhost})
  /\ UNCHANGED <<players, pid, leftSent, fake, checks, todo, arrived>>

-----------------------------------------------------------------------------

Next ==
  /\ ~started
  /\ UNCHANGED game
  /\ \/ \E c \in Clients : Join(c) \/ ScoreReady(c) \/ GiveUp(c)
     \/ BeginPlayers
     \/ \E p \in Clients :
          \/ \E s \in Slots, slot \in {Open, Closed, Computer} : SetSlot(p, s, slot)
          \/ \E q \in Clients : Kick(p, q)
          \/ \E s, t \in Slots : SwapSlots(p, s, t)
          \/ SetAllSlots(p, Closed, Open) \/ SetAllSlots(p, Open, Closed)
          \/ CreateFakePlayer(p) \/ DeleteFakePlayer(p)
          \/ \E from \in {0, CountDown} : StartCountDown(p, from)
          \/ Abort(p) \/ Leave(p) \/ EndVisit(p)
     \/ Rest

Spec == Init /\ [][Next]_vars

-----------------------------------------------------------------------------
(* Properties                                                              *)

TypeOK ==
  /\ game \in Games
  /\ players \in Seq(Clients) /\ Cardinality(Present) = Len(players)
  /\ pid \in [Clients -> Nat] /\ \A c \in Clients : pid[c] # 0 <=> c \in Present
  /\ deleteMe \subseteq Present /\ leftSent \subseteq deleteMe
  /\ slots \in [Slots -> [status : {"open", "closed", "occupied"}, pid : Nat]]
  /\ vhost \in Nat /\ fake \in Nat
  /\ counting \in BOOLEAN /\ count \in 0..CountDown /\ started \in BOOLEAN
  /\ checks \subseteq Clients /\ stage \in {"scores", "players"} /\ todo \in 0..Len(players)
  /\ arrived \subseteq Clients /\ view \in [Clients -> SUBSET Nat]
  /\ garbled \subseteq Clients /\ roster \subseteq Clients

\* Every player who is not about to be deleted has one slot, and a slot with a PID
\* belongs to such a player or to the fake player, through kicks, swaps, closed slots
\* and arrivals in slots whose last player is still in m_Players.
EachHasASlot ==
  /\ \A p \in Present \ deleteMe : Cardinality({s \in Slots : slots[s].pid = pid[p]}) = 1
  /\ \A s \in Slots : slots[s].pid # 0 =>
        /\ slots[s].status = "occupied"
        /\ slots[s].pid = fake \/ \E p \in Present \ deleteMe : pid[p] = slots[s].pid

\* It holds without matchmaking, which kicks a player more than once.
SlotForEveryPlayer == ~MatchMaking => EachHasASlot

\* What a client has been told is who is in the game: no PID is announced twice, or
\* has to be taken back without having been announced, however PIDs are reused.  (With
\* matchmaking a player is announced to leave once more by its second kick.)
ViewsAgree == ~MatchMaking =>
  /\ garbled = {}
  /\ \A c \in Present \ leftSent : view[c] = Used(leftSent, vhost)
  /\ Cardinality(Used(leftSent, vhost)) = NumPlayers(leftSent) + (IF vhost # 0 THEN 1 ELSE 0)

\* Warcraft III has 12 PIDs: there are never more, leaving aside the players who are
\* about to be deleted and a fake player whose slot was taken away.
PIDsSuffice ==
  LET homeless == {n \in {fake} \ {0} : SIDOf(n) = 0}
  IN  ~MatchMaking =>
      Cardinality(Used(leftSent, vhost)) <= NumSlots + Cardinality(deleteMe) + Cardinality(homeless)

\* Slots and PIDs are given out together and taken back at different times, and run out
\* together: both hold through kicks, swaps and late arrivals.
SlotsAndPIDs == TypeOK /\ SlotForEveryPlayer /\ PIDsSuffice

\* The game starts with exactly the players for whom the countdown was started, and no
\* virtual host: whoever joins or leaves meanwhile aborts it.  (With matchmaking a player
\* whose slot was taken away may be kicked once more, and then leaves without that.)
GameStartsWithRoster == started /\ ~MatchMaking => vhost = 0 /\ Present \ leftSent = roster \ leftSent

\* A player is kicked for its score only if nobody in the game, and not who takes its
\* place, has a lower one, however late the score was known.
KicksTheLowest ==
  [][\A p \in Present : p \in leftSent' \ leftSent => \A q \in ToSet(players') : p <= q]_vars

=============================================================================
