---------------------------- MODULE LobbyProofs ----------------------------
(***************************************************************************)
(* Proofs about Lobby, for any clients, admins and games.                  *)
(*                                                                         *)
(* PeopleOK and OthersOK hold in every game.  Plain holds without          *)
(* matchmaking, where nobody's leave message is sent before it is deleted: *)
(* PIDs differ, the slots are those of the players who stay (SlotsTrue),   *)
(* clients have been told of exactly who is there (ViewsTrue), the virtual *)
(* host takes nobody's place, and the roster of the countdown is the       *)
(* players (RosterTrue).  With matchmaking only what KicksTheLowest needs  *)
(* is claimed.                                                             *)
(***************************************************************************)
EXTENDS Lobby, FiniteSetTheorems, SequenceTheorems, TLAPS

-----------------------------------------------------------------------------
(* The inductive invariant                                                 *)

Status == {"open", "closed", "occupied"}

\* The players are in m_Players once, among the clients who have asked to join.
PeopleOK ==
  /\ players \in Seq(Clients) /\ \A i, j \in 1..Len(players) : players[i] = players[j] => i = j
  /\ pid \in [Clients -> Nat] /\ \A c \in Clients : pid[c] # 0 <=> c \in Present
  /\ deleteMe \subseteq Present /\ leftSent \subseteq deleteMe
  /\ Present \subseteq arrived /\ checks \subseteq arrived /\ checks \cap Present = {}

OthersOK ==
  /\ game \in Games
  /\ slots \in [Slots -> [status : Status, pid : Nat]] /\ vhost \in Nat /\ fake \in Nat
  /\ counting \in BOOLEAN /\ count \in 0..CountDown /\ started \in BOOLEAN
  /\ stage \in {"scores", "players"} /\ todo \in 0..Len(players)
  /\ arrived \subseteq Clients /\ view \in [Clients -> SUBSET Nat]
  /\ garbled \subseteq Clients /\ roster \subseteq Clients

\* The PIDs of all players, and of those who are not about to be deleted.
Playing == {pid[p] : p \in Present}
Seated  == {pid[p] : p \in Present \ deleteMe}

\* Nobody shares a PID.
PIDsDiffer ==
  /\ \A p, q \in Present : pid[p] = pid[q] => p = q
  /\ vhost \notin Playing /\ fake \notin Playing /\ (vhost # 0 => vhost # fake)

\* The slots with a PID are those of the players and of the fake player.
SlotsTrue ==
  /\ \A s \in Slots : slots[s].pid # 0 => slots[s].status = "occupied" /\ slots[s].pid \in Seated \cup {fake}
  /\ \A n \in Seated : \E s \in Slots : slots[s].pid = n
  /\ \A s, t \in Slots : slots[s].pid = slots[t].pid /\ slots[s].pid # 0 => s = t

\* Everybody has been told of everybody, and of the virtual host and the fake player.
ViewsTrue ==
  garbled = {} /\ \A c \in Present : view[c] = ({vhost, fake} \cup Playing) \ {0}

\* There is a virtual host only while there is room for one player more.
HostHasRoom == vhost # 0 => Len(players) + (IF fake # 0 THEN 1 ELSE 0) < NumSlots

\* While the countdown lasts nobody joins or leaves.
RosterTrue ==
  /\ counting => roster = Present
  /\ started => counting /\ vhost = 0

\* Without matchmaking nobody is kicked before it is deleted.
Plain ==
  /\ leftSent = {} /\ checks = {}
  /\ PIDsDiffer /\ SlotsTrue /\ ViewsTrue /\ HostHasRoom /\ RosterTrue

LobbyInv == PeopleOK /\ OthersOK /\ (~MatchMaking => Plain)

-----------------------------------------------------------------------------
(* The operators                                                           *)

\* The lowest of some numbers is one of them.
LEMMA LowestIs ==
  ASSUME NEW S \in SUBSET Nat, S # {}
  PROVE  Lowest(S) \in S /\ \A m \in S : Lowest(S) <= m
<1> DEFINE I == {1..n : n \in S}
           R == StrictSubsetOrdering(Nat)
<1>1. I \subseteq FiniteSubsetsOf(Nat) /\ I # {}
  <2> SUFFICES ASSUME NEW n \in Nat PROVE 1..n \in FiniteSubsetsOf(Nat)
    OBVIOUS
  <2>1. IsFiniteSet(1..n) /\ 1..n \subseteq Nat
    BY FS_Interval
  <2> QED
    BY <2>1 DEF FiniteSubsetsOf
<1>2. \E x \in I : \A y \in I : <<y, x>> \notin R
  <2> HIDE DEF I, R
  <2>1. IsWellFoundedOn(R, FiniteSubsetsOf(Nat))
    BY FS_StrictSubsetOrderingWellFounded DEF R
  <2> QED
    BY <1>1, <2>1, WFMin
<1>3. PICK n \in S : \A m \in S : <<1..m, 1..n>> \notin R
  BY <1>2
<1>4. ASSUME NEW m \in S, m < n PROVE FALSE
  <2>1. m \in Nat /\ n \in Nat /\ 1..m \subseteq 1..n /\ n \in 1..n /\ n \notin 1..m
    BY <1>4
  <2>2. <<1..m, 1..n>> \in R
    BY <2>1 DEF StrictSubsetOrdering
  <2> QED
    BY <1>3, <2>2
<1>5. \A m \in S : n <= m
  BY <1>4
<1> QED
  BY <1>5 DEF Lowest

\* m_Players has every player once.
LEMMA PresentIs ==
  ASSUME PeopleOK
  PROVE  /\ Present = {players[i] : i \in 1..Len(players)} /\ Present \subseteq Clients
         /\ Len(players) \in Nat
         /\ IsFiniteSet(Present) /\ Cardinality(Present) = Len(players)
<1> DEFINE n == Len(players)
<1>1. players \in Seq(Clients) /\ n \in Nat /\ DOMAIN players = 1..n
  BY DEF PeopleOK
<1>2. Present = {players[i] : i \in 1..n} /\ Present \subseteq Clients
  BY <1>1 DEF Present, ToSet
<1>3. players \in Surjection(1..n, Present) /\ players \in Injection(1..n, Present)
  BY <1>1, <1>2 DEF Surjection, Injection, IsInjective, PeopleOK
<1>4. IsFiniteSet(1..n) /\ Cardinality(1..n) = n
  <2> HIDE DEF n
  <2>1. 1 \in Int /\ n \in Int /\ n \in Nat
    BY <1>1
  <2>2. IsFiniteSet(1..n) /\ Cardinality(1..n) = IF 1 > n THEN 0 ELSE n - 1 + 1
    BY <2>1, FS_Interval
  <2> QED
    BY <2>1, <2>2
<1> HIDE DEF n
<1>5. IsFiniteSet(Present) /\ Cardinality(Present) = n
  BY <1>3, <1>4, FS_Surjection
<1> QED
  BY <1>1, <1>2, <1>5 DEF n

\* There are finitely many PIDs in use.
LEMMA UsedFinite ==
  ASSUME PeopleOK, NEW gone, NEW vh \in Nat, fake \in Nat
  PROVE  IsFiniteSet(Used(gone, vh)) /\ Used(gone, vh) \subseteq Nat
<1> DEFINE S == Present \ gone
           P == {pid[p] : p \in S}
           f == [p \in S |-> pid[p]]
<1>1. IsFiniteSet(S) /\ S \subseteq Clients
  BY PresentIs, FS_Subset
<1>2. f \in Surjection(S, P) /\ P \subseteq Nat
  BY <1>1 DEF Surjection, PeopleOK
<1>3. IsFiniteSet(P)
  <2> HIDE DEF S, P, f
  <2> QED
    BY <1>1, <1>2, FS_Surjection
<1>4. Used(gone, vh) = (P \cup {vh} \cup {fake}) \ {0}
  BY DEF Used
<1> HIDE DEF P
<1>5. IsFiniteSet(P \cup {vh} \cup {fake})
  BY <1>3, FS_AddElement
<1>6. Used(gone, vh) \subseteq P \cup {vh} \cup {fake}
  BY <1>4
<1> QED
  BY <1>2, <1>4, <1>5, <1>6, FS_Subset

\* A new PID is nobody's.
LEMMA NewPIDIs ==
  ASSUME NEW used, IsFiniteSet(used)
  PROVE  NewPID(used) \in Nat \ {0} /\ NewPID(used) \notin used
<1> DEFINE k == Cardinality(used)
           free == 1..(k + 1) \ used
<1>1. k \in Nat
  BY FS_CardinalityType
<1>2. free # {}
  <2> SUFFICES ASSUME 1..(k + 1) \subseteq used PROVE FALSE
    OBVIOUS
  <2> HIDE DEF k
  <2>1. 1 \in Int /\ k + 1 \in Int
    BY <1>1
  <2>2. Cardinality(1..(k + 1)) = IF 1 > k + 1 THEN 0 ELSE k + 1 - 1 + 1
    <3> DEFINE e == k + 1
    <3>1. e \in Int
      BY <2>1
    <3> HIDE DEF e
    <3>2. Cardinality(1..e) = IF 1 > e THEN 0 ELSE e - 1 + 1
      BY <2>1, <3>1, FS_Interval
    <3> QED
      BY <1>1, <3>2 DEF e
  <2>3. Cardinality(1..(k + 1)) <= Cardinality(used)
    BY FS_Subset
  <2> QED
    BY <1>1, <2>2, <2>3 DEF k
<1>3. free \in SUBSET Nat
  BY <1>1
<1> HIDE DEF free
<1>4. Lowest(free) \in free
  BY <1>2, <1>3, LowestIs
<1>5. NewPID(used) = Lowest(free)
  BY DEF NewPID, free
<1> QED
  BY <1>1, <1>4, <1>5 DEF free


\* The slot of a PID, if it has one.
LEMMA SIDOfIs ==
  ASSUME OthersOK, NEW n \in Nat
  PROVE  /\ (\E s \in Slots : slots[s].pid = n) => SIDOf(n) \in Slots /\ slots[SIDOf(n)].pid = n
         /\ (\A s \in Slots : slots[s].pid # n) => SIDOf(n) \notin Slots
<1> DEFINE S == {s \in Slots : slots[s].pid = n}
<1>1. S \in SUBSET Nat /\ 0 \notin Slots
  BY DEF Slots
<1>2. SIDOf(n) = Lowest(S)
  BY DEF SIDOf
<1>3. CASE S # {}
  <2>1. Lowest(S) \in S
    BY <1>1, <1>3, LowestIs
  <2> QED
    BY <1>2, <1>3, <2>1
<1>4. CASE S = {}
  BY <1>1, <1>2, <1>4 DEF Lowest
<1> QED
  BY <1>3, <1>4

\* An empty slot, if there is one.
LEMMA EmptySlotIs ==
  ASSUME OthersOK, EmptySlot # 0
  PROVE  EmptySlot \in Slots /\ slots[EmptySlot].status = "open"
<1> DEFINE S == {s \in Slots : slots[s].status = "open"}
<1>1. S \in SUBSET Nat /\ EmptySlot = Lowest(S) /\ S # {}
  BY DEF Slots, EmptySlot, Lowest
<1> HIDE DEF S
<1>2. EmptySlot \in S
  BY <1>1, LowestIs
<1> QED
  BY <1>2 DEF S

\* The slots whose PIDs are in N are opened.
Opened(N) == [s \in Slots |-> IF slots[s].pid \in N THEN Open ELSE slots[s]]

\* The slot of a PID is opened, and no other.
LEMMA FreeSlotOpens ==
  ASSUME OthersOK, SlotsTrue, NEW n \in Nat \ {0}, FreeSlot(n)
  PROVE  slots' = Opened({n})
<1>1. slots' = [s \in Slots |-> IF s = SIDOf(n) THEN Open ELSE slots[s]]
  BY DEF FreeSlot
<1>2. \A s \in Slots : s = SIDOf(n) <=> slots[s].pid = n
  BY SIDOfIs DEF SlotsTrue
<1> QED
  BY <1>1, <1>2 DEF Opened

\* The slots stay what they are when those of players who are not seated any more are
\* opened.
LEMMA OpenedTrue ==
  ASSUME SlotsTrue, NEW N \in SUBSET (Nat \ {0}), slots' = Opened(N), game' = game,
         Seated' = Seated \ N, fake' = fake \/ (fake \in N /\ fake' = 0)
  PROVE  SlotsTrue'
<1>1. Slots' = Slots
  BY DEF Slots, NumSlots
<1>2. \A s \in Slots : /\ slots'[s].pid = IF slots[s].pid \in N THEN 0 ELSE slots[s].pid
                       /\ slots[s].pid \notin N => slots'[s] = slots[s]
  BY DEF Opened, Open
<1>3. \A s \in Slots : slots'[s].pid # 0 => slots'[s].status = "occupied" /\ slots'[s].pid \in Seated' \cup {fake'}
  BY <1>2 DEF SlotsTrue
<1>4. \A n \in Seated' : \E s \in Slots : slots'[s].pid = n
  BY <1>2 DEF SlotsTrue
<1>5. \A s, t \in Slots : slots'[s].pid = slots'[t].pid /\ slots'[s].pid # 0 => s = t
  BY <1>2 DEF SlotsTrue
<1> QED
  BY <1>1, <1>3, <1>4, <1>5 DEF SlotsTrue

\* Only the slots change, and who is about to be deleted.
LEMMA TableStep ==
  ASSUME LobbyInv, UNCHANGED <<game, players, pid, leftSent, vhost, fake, clock, control, history>>,
         deleteMe \subseteq deleteMe', deleteMe' \subseteq Present,
         slots' \in [Slots -> [status : Status, pid : Nat]], ~MatchMaking => SlotsTrue'
  PROVE  LobbyInv'
<1>1. Present' = Present /\ Playing' = Playing /\ NumSlots' = NumSlots /\ MatchMaking' = MatchMaking /\ Slots' = Slots
  BY DEF Present, Playing, NumSlots, MatchMaking, Slots
<1>2. PeopleOK'
  BY <1>1 DEF LobbyInv, PeopleOK, control, history
<1>3. OthersOK'
  BY <1>1 DEF LobbyInv, OthersOK, clock, control, history
<1>4. Plain => PIDsDiffer' /\ ViewsTrue' /\ HostHasRoom' /\ RosterTrue' /\ leftSent' = {} /\ checks' = {}
  BY <1>1 DEF Plain, PIDsDiffer, ViewsTrue, HostHasRoom, RosterTrue, clock, control, history
<1> QED
  BY <1>1, <1>2, <1>3, <1>4 DEF LobbyInv, Plain

\* Players are about to be deleted, and their slots are opened.
LEMMA SeatsLost ==
  ASSUME PeopleOK, PIDsDiffer, NEW S \in SUBSET Present,
         UNCHANGED <<players, pid>>, deleteMe' = deleteMe \cup S
  PROVE  Seated' = Seated \ {pid[p] : p \in S}
<1>1. Present' = Present
  BY DEF Present
<1> QED
  BY <1>1 DEF Seated, PIDsDiffer, PeopleOK

\* The PIDs of players are numbers other than 0.
LEMMA PIDsAre ==
  ASSUME PeopleOK, NEW p \in Present PROVE p \in Clients /\ pid[p] \in Nat \ {0}
BY PresentIs DEF PeopleOK

\* !open, !close and !comp: the player on the slot is about to be deleted.
LEMMA SetSlotStep ==
  ASSUME LobbyInv, game' = game, NEW p \in Clients, NEW s \in Slots,
         NEW slot \in {Open, Closed, Computer}, SetSlot(p, s, slot)
  PROVE  LobbyInv'
<1>1. /\ slots' = [slots EXCEPT ![s] = slot] /\ deleteMe' = deleteMe \cup PlayerIn(s)
      /\ UNCHANGED <<players, pid, leftSent, vhost, fake, clock, control, history>>
      /\ slot.pid = 0 /\ slot \in [status : Status, pid : Nat]
  BY DEF SetSlot, Open, Closed, Computer, Status
<1>2. slots' \in [Slots -> [status : Status, pid : Nat]]
  BY <1>1 DEF LobbyInv, OthersOK
<1>3. deleteMe \subseteq deleteMe' /\ deleteMe' \subseteq Present /\ PlayerIn(s) \subseteq Present
  BY <1>1 DEF LobbyInv, PeopleOK, PlayerIn
<1>4. ASSUME ~MatchMaking PROVE SlotsTrue'
  <2> USE <1>4
  <2>1. PeopleOK /\ OthersOK /\ Plain
    BY DEF LobbyInv
  <2>2. /\ Seated' = Seated \ {slots[s].pid}
    <3>1. Seated' = Seated \ {pid[q] : q \in PlayerIn(s)}
      BY <1>1, <1>3, <2>1, SeatsLost DEF Plain
    <3>2. PlayerIn(s) = {q \in Present : pid[q] = slots[s].pid}
      BY <2>1 DEF PlayerIn, Plain
    <3> QED
      BY <3>1, <3>2 DEF Seated
  <2>3. /\ slots'[s].pid = 0
        /\ \A t \in Slots \ {s} : slots'[t] = slots[t]
    BY <1>1, <2>1 DEF OthersOK
  <2>4. Slots' = Slots /\ fake' = fake
    BY <1>1 DEF Slots, NumSlots
  <2>5. \A n \in Seated : n # 0
    BY <2>1, PIDsAre DEF Seated
  <2>6. \A t \in Slots : slots'[t].pid # 0 => t # s /\ slots[t].pid = slots'[t].pid
    BY <2>3
  <2>7. \A t \in Slots : slots'[t].pid # 0 => slots'[t].status = "occupied" /\ slots'[t].pid \in Seated' \cup {fake'}
    BY <2>1, <2>2, <2>3, <2>4, <2>6 DEF Plain, SlotsTrue
  <2>8. \A n \in Seated' : \E t \in Slots : slots'[t].pid = n
    BY <2>1, <2>2, <2>3, <2>5 DEF Plain, SlotsTrue
  <2>9. \A t, u \in Slots : slots'[t].pid = slots'[u].pid /\ slots'[t].pid # 0 => t = u
    BY <2>1, <2>3, <2>6 DEF Plain, SlotsTrue
  <2> QED
    BY <2>4, <2>7, <2>8, <2>9 DEF SlotsTrue
<1> QED
  BY <1>1, <1>2, <1>3, <1>4, TableStep

\* A player is about to be deleted, and its slot is open at once.
LEMMA FreeSlotStep ==
  ASSUME LobbyInv, game' = game, NEW q \in Present, FreeSlot(pid[q]), deleteMe' = deleteMe \cup {q},
         UNCHANGED <<players, pid, leftSent, vhost, fake, clock, control, history>>
  PROVE  LobbyInv'
<1>1. PeopleOK /\ OthersOK /\ pid[q] \in Nat \ {0}
  BY PIDsAre DEF LobbyInv
<1>2. slots' \in [Slots -> [status : Status, pid : Nat]]
  BY <1>1 DEF FreeSlot, OthersOK, Open, Status
<1>3. ASSUME ~MatchMaking PROVE SlotsTrue'
  <2>1. Plain
    BY <1>3 DEF LobbyInv
  <2>2. Seated' = Seated \ {pid[p] : p \in {q}}
    BY <1>1, <2>1, SeatsLost DEF Plain
  <2>3. slots' = Opened({pid[q]})
    BY <1>1, <2>1, FreeSlotOpens DEF Plain
  <2> QED
    BY <1>1, <2>1, <2>2, <2>3, OpenedTrue DEF Plain
<1>4. deleteMe \subseteq deleteMe' /\ deleteMe' \subseteq Present
  BY <1>1 DEF PeopleOK
<1> QED
  BY <1>2, <1>3, <1>4, TableStep


\* !kick.
LEMMA KickStep ==
  ASSUME LobbyInv, game' = game, NEW p \in Clients, NEW q \in Clients, Kick(p, q) PROVE LobbyInv'
BY FreeSlotStep DEF Kick

\* The player whose Update this is is the one at this place of m_Players.
LEMMA VisitingIs ==
  ASSUME PeopleOK, OthersOK, NEW p, Visiting(p)
  PROVE  p \in Present /\ todo \in 1..Len(players) /\ p = players[Len(players) - todo + 1]
         /\ Len(players) - todo + 1 \in 1..Len(players)
<1>1. todo \in 1..Len(players) /\ Len(players) - todo + 1 \in 1..Len(players)
  BY PresentIs DEF Visiting, OthersOK
<1> QED
  BY <1>1, PresentIs DEF Visiting

\* A player leaves.
LEMMA LeaveStep ==
  ASSUME LobbyInv, game' = game, NEW p \in Clients, Leave(p) PROVE LobbyInv'
<1>1. p \in Present
  BY VisitingIs DEF Leave, Acting, LobbyInv
<1> QED
  BY <1>1, FreeSlotStep DEF Leave

\* !swap moves two players, and says so to nobody who counts PIDs.
LEMMA SwapSlotsStep ==
  ASSUME LobbyInv, game' = game, NEW p \in Clients, NEW s \in Slots, NEW t \in Slots, SwapSlots(p, s, t)
  PROVE  LobbyInv'
<1>1. /\ slots' = [slots EXCEPT ![s] = slots[t], ![t] = slots[s]]
      /\ UNCHANGED <<players, pid, deleteMe, leftSent, vhost, fake, clock, control, history>>
  BY DEF SwapSlots, people
<1>2. /\ slots' \in [Slots -> [status : Status, pid : Nat]]
      /\ slots'[s] = slots[t] /\ slots'[t] = slots[s] /\ \A u \in Slots \ {s, t} : slots'[u] = slots[u]
  BY <1>1 DEF LobbyInv, OthersOK
<1>3. Seated' = Seated /\ Slots' = Slots
  BY <1>1 DEF Seated, Present, Slots, NumSlots
<1>4. ~MatchMaking => SlotsTrue'
  BY <1>1, <1>2, <1>3 DEF LobbyInv, Plain, SlotsTrue
<1>5. deleteMe' = deleteMe /\ deleteMe \subseteq Present
  BY <1>1 DEF LobbyInv, PeopleOK
<1> QED
  BY <1>1, <1>2, <1>4, <1>5, TableStep

\* !openall and !closeall touch no slot that is occupied.
LEMMA SetAllSlotsStep ==
  ASSUME LobbyInv, game' = game, NEW p \in Clients, NEW from \in {Open, Closed}, NEW to \in {Open, Closed},
         SetAllSlots(p, from, to)
  PROVE  LobbyInv'
<1>1. /\ slots' = [s \in Slots |-> IF slots[s] = from THEN to ELSE slots[s]]
      /\ UNCHANGED <<players, pid, deleteMe, leftSent, vhost, fake, clock, control, history>>
  BY DEF SetAllSlots, people
<1>2. from.pid = 0 /\ to.pid = 0 /\ to \in [status : Status, pid : Nat]
  BY DEF Open, Closed, Status
<1>3. /\ slots' \in [Slots -> [status : Status, pid : Nat]]
      /\ \A s \in Slots : slots'[s].pid = slots[s].pid /\ (slots[s].pid # 0 => slots'[s] = slots[s])
  BY <1>1, <1>2 DEF LobbyInv, OthersOK
<1>4. Seated' = Seated /\ Slots' = Slots
  BY <1>1 DEF Seated, Present, Slots, NumSlots
<1>5. ~MatchMaking => SlotsTrue'
  BY <1>1, <1>3, <1>4 DEF LobbyInv, Plain, SlotsTrue
<1>6. deleteMe' = deleteMe /\ deleteMe \subseteq Present
  BY <1>1 DEF LobbyInv, PeopleOK
<1> QED
  BY <1>1, <1>3, <1>5, <1>6, TableStep

\* Only the countdown changes, or what this Update is doing.
LEMMA ClockStep ==
  ASSUME LobbyInv, UNCHANGED <<game, people, table, arrived, view, garbled>>,
         checks' \subseteq checks, counting' \in BOOLEAN, count' \in 0..CountDown, started' \in BOOLEAN,
         stage' \in {"scores", "players"}, todo' \in 0..Len(players), roster' \subseteq Clients,
         RosterTrue => RosterTrue'
  PROVE  LobbyInv'
<1>1. Present' = Present /\ Playing' = Playing /\ Seated' = Seated /\ NumSlots' = NumSlots
      /\ MatchMaking' = MatchMaking /\ Slots' = Slots
  BY DEF Present, Playing, Seated, NumSlots, MatchMaking, Slots, people
<1>2. PeopleOK'
  BY <1>1 DEF LobbyInv, PeopleOK, people
<1>3. OthersOK'
  BY <1>1 DEF LobbyInv, OthersOK, people, table
<1>4. Plain => Plain'
  BY <1>1 DEF Plain, PIDsDiffer, ViewsTrue, HostHasRoom, SlotsTrue, people, table
<1> QED
  BY <1>1, <1>2, <1>3, <1>4 DEF LobbyInv

\* One who waits for its score gives up.
LEMMA GiveUpStep ==
  ASSUME LobbyInv, game' = game, NEW c \in Clients, GiveUp(c) PROVE LobbyInv'
<1>1. RosterTrue => RosterTrue'
  BY DEF GiveUp, RosterTrue, clock, history, people, table, Present
<1> QED
  BY <1>1, ClockStep DEF GiveUp, LobbyInv, OthersOK, clock, history

\* The scores are done, the players' turns come.
LEMMA BeginPlayersStep ==
  ASSUME LobbyInv, game' = game, BeginPlayers PROVE LobbyInv'
<1>1. RosterTrue => RosterTrue'
  BY DEF BeginPlayers, RosterTrue, clock, history, people, table, Present
<1>2. Len(players) \in 0..Len(players)
  BY PresentIs DEF LobbyInv
<1> QED
  BY <1>1, <1>2, ClockStep DEF BeginPlayers, LobbyInv, OthersOK, clock, history

\* The countdown starts with those who are there.
LEMMA StartCountDownStep ==
  ASSUME LobbyInv, ~started, game' = game, NEW p \in Clients, NEW from \in {0, CountDown}, StartCountDown(p, from)
  PROVE  LobbyInv'
<1>1. Present \subseteq Clients
  BY PresentIs DEF LobbyInv
<1>2. /\ counting' = TRUE /\ count' = from /\ roster' = Present \ leftSent
      /\ UNCHANGED <<people, table, started, control, arrived, view, garbled>>
  BY DEF StartCountDown
<1>3. count' \in 0..CountDown
  BY <1>2, LobbyAssumption
<1>4. Present' = Present
  BY <1>2 DEF Present, people
<1>5. OthersOK
  BY DEF LobbyInv
<1> QED
  <2>1. CASE MatchMaking
    <3>1. MatchMaking' = MatchMaking /\ Slots' = Slots
      BY DEF MatchMaking, Slots, NumSlots
    <3>2. PeopleOK' /\ OthersOK'
      BY <1>1, <1>2, <1>3, <1>4, <3>1 DEF LobbyInv, PeopleOK, OthersOK, people, table, control
    <3> QED
      BY <2>1, <3>1, <3>2 DEF LobbyInv
  <2>2. CASE ~MatchMaking
    <3>1. RosterTrue'
      BY <1>2, <1>4, <2>2 DEF LobbyInv, Plain, RosterTrue
    <3> QED
      BY <1>1, <1>2, <1>3, <1>5, <3>1, ClockStep DEF OthersOK, control
  <2> QED
    BY <2>1, <2>2

\* !abort.
LEMMA AbortStep ==
  ASSUME LobbyInv, ~started, game' = game, NEW p \in Clients, Abort(p) PROVE LobbyInv'
<1>1. RosterTrue'
  BY DEF Abort, RosterTrue
<1> QED
  BY <1>1, ClockStep DEF Abort, LobbyInv, OthersOK, control


-----------------------------------------------------------------------------
(* The steps that give out PIDs and take them back                         *)

\* A slot that was open is taken, by the fake player or by a player.
LEMMA TakenTrue ==
  ASSUME OthersOK, SlotsTrue, game' = game, NEW s \in Slots, slots[s].status = "open",
         NEW n \in Nat \ {0}, n \notin Seated, n # fake, 0 \notin Seated,
         slots' = [slots EXCEPT ![s] = Taken(n)],
         \/ Seated' = Seated /\ fake = 0 /\ fake' = n
         \/ Seated' = Seated \cup {n} /\ fake' = fake
  PROVE  SlotsTrue'
<1>1. Slots' = Slots
  BY DEF Slots, NumSlots
<1>2. slots'[s] = Taken(n) /\ \A t \in Slots \ {s} : slots'[t] = slots[t]
  BY DEF OthersOK
<1>3. slots[s].pid = 0 /\ \A t \in Slots : slots[t].pid # n
  BY DEF SlotsTrue
<1>4. Taken(n).pid = n /\ Taken(n).status = "occupied"
  BY DEF Taken
<1>5. \A t \in Slots : slots'[t].pid # 0 => slots'[t].status = "occupied" /\ slots'[t].pid \in Seated' \cup {fake'}
  BY <1>2, <1>4 DEF SlotsTrue
<1>6. ASSUME NEW m \in Seated' PROVE \E t \in Slots : slots'[t].pid = m
  <2>1. CASE m = n
    BY <1>2, <1>4, <2>1
  <2>2. CASE m # n
    <3>1. PICK t \in Slots : slots[t].pid = m
      BY <1>6, <2>2 DEF SlotsTrue
    <3>2. CASE t # s
      BY <1>2, <3>1, <3>2
    <3>3. t # s
      BY <1>3, <1>6, <2>2, <3>1
    <3> QED
      BY <3>2, <3>3
  <2> QED
    BY <2>1, <2>2
<1>7. \A t, u \in Slots : slots'[t].pid = slots'[u].pid /\ slots'[t].pid # 0 => t = u
  BY <1>2, <1>3, <1>4 DEF SlotsTrue
<1> QED
  BY <1>1, <1>5, <1>6, <1>7 DEF SlotsTrue

\* What the players know.
Known == ({vhost, fake} \cup Playing) \ {0}

\* Everybody is told the same, and it is true.
LEMMA TellTypes ==
  ASSUME OthersOK, NEW who \in SUBSET Clients, NEW leaves \in SUBSET Nat, NEW infos \in SUBSET Nat,
         Tell(who, leaves, infos)
  PROVE  view' \in [Clients -> SUBSET Nat] /\ garbled' \subseteq Clients
BY DEF OthersOK, Tell

\* Who is told what has changed knows what is there now.
LEMMA TellTrue ==
  ASSUME PeopleOK, ViewsTrue, NEW who \in SUBSET Present, NEW leaves, NEW infos, Tell(who, leaves, infos),
         leaves \subseteq Known, infos \cap (Known \ leaves) = {}
  PROVE  garbled' = {} /\ \A c \in who : view'[c] = (Known \ leaves) \cup infos
<1>1. who \subseteq Clients
  BY PresentIs
<1> QED
  BY <1>1 DEF Tell, ViewsTrue, Known

\* The virtual host stays, or makes room.
LEMMA RoomyHostIs ==
  ASSUME PeopleOK, OthersOK, leftSent = {}
  PROVE  /\ RoomyHost(leftSent) \in {0, vhost} /\ NumSlots \in Nat
         /\ NumPlayers(leftSent) = Len(players) + (IF fake # 0 THEN 1 ELSE 0)
         /\ RoomyHost(leftSent) # 0 => Len(players) + (IF fake # 0 THEN 1 ELSE 0) < NumSlots - 1
<1>1. Present \ leftSent = Present /\ Cardinality(Present) = Len(players) /\ Len(players) \in Nat
  BY PresentIs
<1>2. NumSlots \in Nat
  BY LobbyAssumption DEF OthersOK, NumSlots
<1>3. NumPlayers(leftSent) = Len(players) + (IF fake # 0 THEN 1 ELSE 0)
  BY <1>1 DEF NumPlayers
<1> QED
  BY <1>1, <1>2, <1>3 DEF RoomyHost

\* In a game without matchmaking all PIDs are in use.
LEMMA UsedIs ==
  ASSUME leftSent = {}, NEW vh
  PROVE  Used(leftSent, vh) = ({vh, fake} \cup Playing) \ {0}
BY DEF Used, Playing

\* The PIDs of players are positive, and those of who stays are among them.
LEMMA PlayingIs ==
  ASSUME PeopleOK
  PROVE  Playing \subseteq Nat \ {0} /\ Seated \subseteq Playing
BY PIDsAre DEF Playing, Seated

\* CreateFakePlayer: the virtual host goes when the game would be full.
LEMMA CreateFakePlayerStep ==
  ASSUME LobbyInv, game' = game, NEW p \in Clients, CreateFakePlayer(p) PROVE LobbyInv'
<1> DEFINE n == NewPID(Used(leftSent, vhost'))
<1>1. /\ fake = 0 /\ fake' = n /\ EmptySlot # 0 /\ slots' = [slots EXCEPT ![EmptySlot] = Taken(n)]
      /\ vhost' = RoomyHost(leftSent)
      /\ Tell(Present \ leftSent, {vhost} \ {vhost'}, {n})
      /\ UNCHANGED <<people, clock, control, arrived, roster>>
  BY DEF CreateFakePlayer
<1>2. PeopleOK /\ OthersOK
  BY DEF LobbyInv
<1>3. vhost' \in Nat
  BY <1>1, <1>2 DEF RoomyHost, OthersOK
<1>4. n \in Nat \ {0} /\ n \notin Used(leftSent, vhost')
  <2>1. IsFiniteSet(Used(leftSent, vhost'))
    BY <1>2, <1>3, UsedFinite DEF OthersOK
  <2> QED
    BY <2>1, NewPIDIs
<1> HIDE DEF n
<1>5. EmptySlot \in Slots /\ slots[EmptySlot].status = "open"
  BY <1>1, <1>2, EmptySlotIs
<1>6. slots' \in [Slots -> [status : Status, pid : Nat]]
  BY <1>1, <1>2, <1>4 DEF OthersOK, Taken, Status
<1>7. Present' = Present /\ Playing' = Playing /\ Seated' = Seated /\ NumSlots' = NumSlots
      /\ MatchMaking' = MatchMaking /\ Slots' = Slots
  BY <1>1 DEF Present, Playing, Seated, NumSlots, MatchMaking, Slots, people
<1>8. PeopleOK'
  BY <1>1, <1>2, <1>7 DEF PeopleOK, people, control
<1>9. OthersOK'
  <2> DEFINE who == Present \ leftSent  leaves == {vhost} \ {vhost'}  infos == {n}
  <2>1. who \subseteq Clients /\ leaves \subseteq Nat /\ infos \subseteq Nat /\ Tell(who, leaves, infos)
    BY <1>1, <1>2, <1>4, PresentIs DEF OthersOK
  <2> HIDE DEF who, leaves, infos
  <2>2. view' \in [Clients -> SUBSET Nat] /\ garbled' \subseteq Clients
    BY <1>2, <2>1, TellTypes
  <2> QED
    BY <1>1, <1>2, <1>3, <1>4, <1>6, <1>7, <2>2 DEF OthersOK, people, clock, control
<1>10. ASSUME ~MatchMaking PROVE Plain'
  <2>1. Plain
    BY <1>10 DEF LobbyInv
  <2>2. leftSent = {} /\ checks = {} /\ leftSent' = {} /\ checks' = {}
    BY <1>1, <2>1 DEF Plain, people, control
  <2>3. /\ vhost' \in {0, vhost} /\ NumSlots \in Nat
        /\ vhost' # 0 => Len(players) < NumSlots - 1
    BY <1>1, <1>2, <2>2, RoomyHostIs, PresentIs
  <2>4. n \notin Playing /\ n # vhost'
    BY <1>4, <2>2, UsedIs
  <2>5. Playing \subseteq Nat \ {0} /\ Seated \subseteq Playing
    BY <1>2, PlayingIs
  <2>6. PIDsDiffer'
    BY <1>1, <1>7, <2>1, <2>3, <2>4, <2>5 DEF Plain, PIDsDiffer, people
  <2>7. SlotsTrue'
    BY <1>1, <1>2, <1>4, <1>5, <1>7, <2>1, <2>4, <2>5, TakenTrue DEF Plain
  <2>8. ViewsTrue'
    <3>1. {vhost} \ {vhost'} \subseteq Known /\ {n} \cap (Known \ ({vhost} \ {vhost'})) = {}
      BY <1>1, <1>4, <2>1, <2>3, <2>4 DEF Known, Plain, PIDsDiffer
    <3>2. garbled' = {} /\ \A c \in Present : view'[c] = (Known \ ({vhost} \ {vhost'})) \cup {n}
      <4> DEFINE leaves == {vhost} \ {vhost'}  infos == {n}
      <4>1. /\ Tell(Present, leaves, infos) /\ leaves \subseteq Known /\ infos \cap (Known \ leaves) = {}
            /\ ViewsTrue /\ Present \subseteq Present
        BY <1>1, <2>1, <2>2, <3>1 DEF Plain
      <4> HIDE DEF leaves, infos
      <4>2. garbled' = {} /\ \A c \in Present : view'[c] = (Known \ leaves) \cup infos
        BY <1>2, <4>1, TellTrue
      <4> QED
        BY <4>2 DEF leaves, infos
    <3>3. (Known \ ({vhost} \ {vhost'})) \cup {n} = ({vhost', fake'} \cup Playing') \ {0}
      BY <1>1, <1>4, <1>7, <2>1, <2>3 DEF Known, Plain, PIDsDiffer
    <3> QED
      BY <1>7, <3>2, <3>3 DEF ViewsTrue
  <2>9. HostHasRoom'
    <3>1. Len(players) \in Nat /\ players' = players
      BY <1>1, <1>2, PresentIs DEF people
    <3> QED
      BY <1>1, <1>7, <2>3, <3>1 DEF HostHasRoom
  <2>10. RosterTrue'
    BY <1>1, <1>7, <2>1, <2>3 DEF Plain, RosterTrue, clock
  <2> QED
    BY <2>2, <2>6, <2>7, <2>8, <2>9, <2>10 DEF Plain
<1> QED
  BY <1>7, <1>8, <1>9, <1>10 DEF LobbyInv

\* DeleteFakePlayer: its slot is open and everybody has been told.
LEMMA DeleteFakePlayerStep ==
  ASSUME LobbyInv, game' = game, NEW p \in Clients, DeleteFakePlayer(p) PROVE LobbyInv'
<1>1. /\ fake # 0 /\ fake' = 0 /\ FreeSlot(fake)
      /\ Tell(Present \ leftSent, {fake}, {})
      /\ UNCHANGED <<people, vhost, clock, control, arrived, roster>>
  BY DEF DeleteFakePlayer
<1>2. PeopleOK /\ OthersOK /\ fake \in Nat \ {0}
  BY <1>1 DEF LobbyInv, OthersOK
<1>3. slots' \in [Slots -> [status : Status, pid : Nat]]
  BY <1>1, <1>2 DEF FreeSlot, OthersOK, Open, Status
<1>4. Present' = Present /\ Playing' = Playing /\ Seated' = Seated /\ NumSlots' = NumSlots
      /\ MatchMaking' = MatchMaking /\ Slots' = Slots
  BY <1>1 DEF Present, Playing, Seated, NumSlots, MatchMaking, Slots, people
<1>5. PeopleOK'
  BY <1>1, <1>2, <1>4 DEF PeopleOK, people, control
<1>6. OthersOK'
  <2> DEFINE who == Present \ leftSent  leaves == {fake}
  <2>1. who \subseteq Clients /\ leaves \subseteq Nat /\ Tell(who, leaves, {})
    BY <1>1, <1>2, PresentIs
  <2> HIDE DEF who, leaves
  <2>2. view' \in [Clients -> SUBSET Nat] /\ garbled' \subseteq Clients
    BY <1>2, <2>1, TellTypes
  <2> QED
    BY <1>1, <1>2, <1>3, <1>4, <2>2 DEF OthersOK, people, clock, control
<1>7. ASSUME ~MatchMaking PROVE Plain'
  <2>1. Plain
    BY <1>7 DEF LobbyInv
  <2>2. leftSent = {} /\ checks = {} /\ leftSent' = {} /\ checks' = {}
    BY <1>1, <2>1 DEF Plain, people, control
  <2>3. Playing \subseteq Nat \ {0} /\ Seated \subseteq Playing
    BY <1>2, PlayingIs
  <2>4. PIDsDiffer'
    BY <1>1, <1>4, <2>1, <2>3 DEF Plain, PIDsDiffer, people
  <2>5. SlotsTrue'
    <3>1. slots' = Opened({fake})
      BY <1>1, <1>2, <2>1, FreeSlotOpens DEF Plain
    <3>2. Seated' = Seated \ {fake}
      BY <1>4, <2>1, <2>3 DEF Plain, PIDsDiffer
    <3> QED
      BY <1>1, <1>2, <2>1, <3>1, <3>2, OpenedTrue DEF Plain
  <2>6. ViewsTrue'
    <3>1. {fake} \subseteq Known
      BY <1>1 DEF Known
    <3>2. garbled' = {} /\ \A c \in Present : view'[c] = (Known \ {fake}) \cup {}
      <4> DEFINE leaves == {fake}
      <4>1. /\ Tell(Present, leaves, {}) /\ leaves \subseteq Known /\ {} \cap (Known \ leaves) = {}
            /\ ViewsTrue /\ Present \subseteq Present
        BY <1>1, <2>1, <2>2, <3>1 DEF Plain
      <4> HIDE DEF leaves
      <4>2. garbled' = {} /\ \A c \in Present : view'[c] = (Known \ leaves) \cup {}
        BY <1>2, <4>1, TellTrue
      <4> QED
        BY <4>2 DEF leaves
    <3>3. (Known \ {fake}) \cup {} = ({vhost', fake'} \cup Playing') \ {0}
      BY <1>1, <1>4, <2>1 DEF Known, Plain, PIDsDiffer
    <3> QED
      BY <1>4, <3>2, <3>3 DEF ViewsTrue
  <2>7. HostHasRoom'
    <3>1. Len(players) \in Nat /\ players' = players /\ vhost' = vhost /\ NumSlots \in Nat
      BY <1>1, <1>2, <2>2, PresentIs, RoomyHostIs DEF people
    <3> QED
      BY <1>1, <1>4, <2>1, <3>1 DEF HostHasRoom, Plain
  <2>8. RosterTrue'
    BY <1>1, <1>4, <2>1 DEF Plain, RosterTrue, clock
  <2> QED
    BY <2>2, <2>4, <2>5, <2>6, <2>7, <2>8 DEF Plain
<1> QED
  BY <1>4, <1>5, <1>6, <1>7 DEF LobbyInv


\* A client becomes a player: without matchmaking in an open slot, and nobody is kicked.
LEMMA AdmitStep ==
  ASSUME LobbyInv, ~started, game' = game, NEW c \in Clients, NEW s \in Slots, NEW kicked \in SUBSET Present,
         c \notin Present, Admit(c, s, kicked),
         arrived' = arrived \cup {c}, checks' \subseteq checks \ {c}, UNCHANGED <<stage, todo>>,
         ~MatchMaking => kicked = {} /\ slots[s].status = "open"
  PROVE  LobbyInv'
<1> DEFINE gone == leftSent \cup kicked
           vh   == RoomyHost(gone)
           n    == NewPID(Used(gone, vh))
           leaves == {pid[p] : p \in kicked} \cup ({vhost} \ {vh})
<1>1. /\ players' = Append(players, c)
      /\ deleteMe' = deleteMe \cup kicked /\ leftSent' = gone
      /\ pid' = [pid EXCEPT ![c] = n]
      /\ slots' = [slots EXCEPT ![s] = Taken(n)]
      /\ vhost' = vh
      /\ counting' = FALSE /\ roster' = {}
      /\ UNCHANGED <<fake, count, started>>
  BY DEF Admit
<1>2. /\ view' = [d \in Clients |->
                    IF d = c THEN Used(gone, vh) \cup {n}
                    ELSE IF d \in Present \ gone THEN (view[d] \ leaves) \cup {n} ELSE view[d]]
      /\ garbled' = garbled \cup {d \in Present \ gone : \/ ~(leaves \subseteq view[d])
                                                         \/ n \in view[d] \ leaves}
  BY DEF Admit
<1>3. PeopleOK /\ OthersOK
  BY DEF LobbyInv
<1>4. vh \in Nat
  BY <1>3 DEF RoomyHost, OthersOK
<1>5. n \in Nat \ {0} /\ n \notin Used(gone, vh) /\ Used(gone, vh) \subseteq Nat
  <2> HIDE DEF gone, vh
  <2>1. IsFiniteSet(Used(gone, vh)) /\ Used(gone, vh) \subseteq Nat
    BY <1>3, <1>4, UsedFinite DEF OthersOK
  <2> QED
    BY <2>1, NewPIDIs
<1> HIDE DEF n, vh
<1>6. Present \subseteq Clients /\ Len(players) \in Nat /\ Present = {players[i] : i \in 1..Len(players)}
  BY <1>3, PresentIs
<1>7. /\ players' \in Seq(Clients) /\ Len(players') = Len(players) + 1
      /\ players'[Len(players) + 1] = c /\ \A i \in 1..Len(players) : players'[i] = players[i]
  BY <1>1, <1>3 DEF PeopleOK
<1>8. \A i \in 1..Len(players') : i \in 1..Len(players) \/ i = Len(players) + 1
  BY <1>6, <1>7
<1>9. Present' = Present \cup {c}
  <2>1. Present' = {players'[i] : i \in 1..Len(players')}
    BY <1>7 DEF Present, ToSet
  <2>2. \A i \in 1..Len(players) : i \in 1..Len(players')
    BY <1>6, <1>7
  <2>3. Len(players) + 1 \in 1..Len(players')
    BY <1>6, <1>7
  <2> QED
    BY <1>6, <1>7, <1>8, <2>1, <2>2, <2>3
<1>10. NumSlots' = NumSlots /\ MatchMaking' = MatchMaking /\ Slots' = Slots
  BY DEF NumSlots, MatchMaking, Slots
<1>11. pid' \in [Clients -> Nat] /\ pid'[c] = n /\ \A d \in Clients \ {c} : pid'[d] = pid[d]
  BY <1>1, <1>3, <1>5 DEF PeopleOK
<1>12. PeopleOK'
  <2>1. \A i, j \in 1..Len(players') : players'[i] = players'[j] => i = j
    <3>1. \A i, j \in 1..Len(players) : players[i] = players[j] => i = j
      BY <1>3 DEF PeopleOK
    <3>2. \A i \in 1..Len(players) : players[i] # c
      BY <1>6
    <3> SUFFICES ASSUME NEW i \in 1..Len(players'), NEW j \in 1..Len(players'), players'[i] = players'[j]
                 PROVE  i = j
      OBVIOUS
    <3>3. CASE i \in 1..Len(players) /\ j \in 1..Len(players)
      BY <1>7, <3>1, <3>3
    <3>4. CASE i = Len(players) + 1 /\ j \in 1..Len(players)
      BY <1>7, <3>2, <3>4
    <3>5. CASE i \in 1..Len(players) /\ j = Len(players) + 1
      BY <1>7, <3>2, <3>5
    <3> QED
      BY <1>8, <3>3, <3>4, <3>5
  <2>2. \A d \in Clients : pid'[d] # 0 <=> d \in Present'
    BY <1>3, <1>5, <1>9, <1>11 DEF PeopleOK
  <2>3. deleteMe' \subseteq Present' /\ leftSent' \subseteq deleteMe'
    BY <1>1, <1>3, <1>9 DEF PeopleOK
  <2>4. Present' \subseteq arrived' /\ checks' \subseteq arrived' /\ checks' \cap Present' = {}
    BY <1>3, <1>9 DEF PeopleOK
  <2> QED
    BY <1>7, <1>11, <2>1, <2>2, <2>3, <2>4 DEF PeopleOK
<1>13. OthersOK'
  <2>1. slots' \in [Slots -> [status : Status, pid : Nat]]
    BY <1>1, <1>3, <1>5 DEF OthersOK, Taken, Status
  <2>2. view' \in [Clients -> SUBSET Nat] /\ garbled' \subseteq Clients
    BY <1>2, <1>3, <1>5, <1>6 DEF OthersOK
  <2>3. arrived' \subseteq Clients /\ roster' \subseteq Clients
    BY <1>1, <1>3 DEF OthersOK
  <2>4. todo' \in 0..Len(players')
    BY <1>3, <1>6, <1>7 DEF OthersOK
  <2> QED
    BY <1>1, <1>3, <1>4, <1>10, <2>1, <2>2, <2>3, <2>4 DEF OthersOK
<1>14. ASSUME ~MatchMaking PROVE Plain'
  <2>1. Plain /\ kicked = {} /\ slots[s].status = "open"
    BY <1>14 DEF LobbyInv
  <2>2. leftSent = {} /\ checks = {} /\ leftSent' = {} /\ checks' = {} /\ gone = leftSent /\ deleteMe' = deleteMe
    BY <1>1, <2>1 DEF Plain
  <2>3. /\ vh \in {0, vhost} /\ NumSlots \in Nat
        /\ vh # 0 => Len(players) + (IF fake # 0 THEN 1 ELSE 0) < NumSlots - 1
    <3>1. vh = RoomyHost(leftSent)
      BY <2>2 DEF vh
    <3> QED
      BY <1>3, <2>2, <3>1, RoomyHostIs
  <2>4. Used(gone, vh) = ({vh, fake} \cup Playing) \ {0}
    BY <2>2, UsedIs
  <2>5. n \notin Playing /\ n # vh /\ n # fake
    BY <1>5, <2>4
  <2>6. Playing \subseteq Nat \ {0} /\ Seated \subseteq Playing
    BY <1>3, PlayingIs
  <2>7. Playing' = Playing \cup {n}
    <3>1. \A p \in Present : pid'[p] = pid[p]
      BY <1>6, <1>11
    <3>2. Playing' = {pid'[p] : p \in Present \cup {c}}
      BY <1>9 DEF Playing
    <3>3. {pid'[p] : p \in Present} = Playing
      BY <3>1 DEF Playing
    <3> QED
      BY <1>11, <3>2, <3>3
  <2>8. Seated' = Seated \cup {n}
    <3>1. \A p \in Present : pid'[p] = pid[p]
      BY <1>6, <1>11
    <3>2. Seated' = {pid'[p] : p \in (Present \ deleteMe) \cup {c}}
      BY <1>3, <1>9, <2>2 DEF Seated, PeopleOK
    <3>3. {pid'[p] : p \in Present \ deleteMe} = Seated
      BY <3>1 DEF Seated
    <3> QED
      BY <1>11, <3>2, <3>3
  <2>9. PIDsDiffer'
    <3>1. \A p, q \in Present' : pid'[p] = pid'[q] => p = q
      BY <1>6, <1>9, <1>11, <2>1, <2>5 DEF Plain, PIDsDiffer, Playing
    <3> QED
      BY <1>1, <2>1, <2>3, <2>5, <2>6, <2>7, <3>1 DEF Plain, PIDsDiffer
  <2>10. SlotsTrue'
    BY <1>1, <1>3, <1>5, <2>1, <2>5, <2>6, <2>8, TakenTrue DEF Plain
  <2>11. leaves = {vhost} \ {vh} /\ \A d \in Present : view[d] = Known
    BY <2>1 DEF Plain, ViewsTrue, Known
  <2>12. leaves \subseteq Known \cup {0} /\ n \notin Known \ leaves /\ (Present # {} => leaves \subseteq Known)
    BY <1>5, <2>1, <2>3, <2>5, <2>11 DEF Known, Plain, PIDsDiffer
  <2>13. (Known \ leaves) \cup {n} = ({vhost', fake'} \cup Playing') \ {0}
    BY <1>1, <1>5, <2>1, <2>3, <2>6, <2>7, <2>11 DEF Known, Plain, PIDsDiffer
  <2>14. Used(gone, vh) \cup {n} = ({vhost', fake'} \cup Playing') \ {0}
    BY <1>1, <1>5, <2>4, <2>7
  <2>15. ViewsTrue'
    BY <1>2, <1>6, <1>9, <2>1, <2>2, <2>11, <2>12, <2>13, <2>14 DEF ViewsTrue, Plain
  <2>16. HostHasRoom'
    BY <1>1, <1>6, <1>7, <1>10, <2>3 DEF HostHasRoom
  <2>17. RosterTrue'
    BY <1>1 DEF RosterTrue
  <2> QED
    BY <2>2, <2>9, <2>10, <2>15, <2>16, <2>17 DEF Plain
<1> QED
  BY <1>10, <1>12, <1>13, <1>14 DEF LobbyInv


\* EventPlayerJoined: a player is admitted, turned away or has to wait for its score.
LEMMA JoinStep ==
  ASSUME LobbyInv, ~started, game' = game, NEW c \in Clients, Join(c) PROVE LobbyInv'
<1>1. PeopleOK /\ OthersOK /\ c \notin arrived /\ arrived' = arrived \cup {c} /\ UNCHANGED <<stage, todo>>
  BY DEF Join, LobbyInv
<1>2. c \notin Present /\ c \notin checks
  BY <1>1 DEF PeopleOK
<1>3. ASSUME UNCHANGED <<people, table, clock, view, garbled, roster>>, checks' \subseteq checks \cup {c},
             ~MatchMaking => checks' = checks
      PROVE  LobbyInv'
  <2>1. Present' = Present /\ Playing' = Playing /\ Seated' = Seated /\ NumSlots' = NumSlots
        /\ MatchMaking' = MatchMaking /\ Slots' = Slots
    BY <1>3 DEF Present, Playing, Seated, NumSlots, MatchMaking, Slots, people
  <2>2. PeopleOK'
    BY <1>1, <1>2, <1>3, <2>1 DEF PeopleOK, people
  <2>3. OthersOK'
    BY <1>1, <1>3, <2>1 DEF OthersOK, people, table, clock
  <2>4. ~MatchMaking => Plain'
    BY <1>1, <1>3, <2>1
    DEF LobbyInv, Plain, PIDsDiffer, ViewsTrue, HostHasRoom, SlotsTrue, RosterTrue, people, table, clock
  <2> QED
    BY <2>1, <2>2, <2>3, <2>4 DEF LobbyInv
<1>4. CASE EmptySlot = 0
  BY <1>3, <1>4 DEF Join
<1>5. CASE EmptySlot # 0 /\ MatchMaking
  BY <1>3, <1>5 DEF Join
<1>6. CASE EmptySlot # 0 /\ ~MatchMaking
  <2>1. Admit(c, EmptySlot, {}) /\ checks' = checks
    BY <1>6 DEF Join
  <2>2. EmptySlot \in Slots /\ slots[EmptySlot].status = "open"
    BY <1>1, <1>6, EmptySlotIs
  <2> QED
    BY <1>1, <1>2, <2>1, <2>2, AdmitStep
<1> QED
  BY <1>4, <1>5, <1>6

\* The score of one who waits is there: it is admitted, or not, or takes the place of the
\* lowest.
LEMMA ScoreReadyStep ==
  ASSUME LobbyInv, ~started, game' = game, NEW c \in Clients, ScoreReady(c) PROVE LobbyInv'
<1> DEFINE low == Lowest(Present)
           s   == SIDOf(pid[low])
<1>1. /\ c \in checks /\ checks' = checks \ {c} /\ UNCHANGED <<stage, todo, arrived>>
      /\ IF EmptySlot # 0 THEN Admit(c, EmptySlot, {})
         ELSE IF low = 0 \/ TooLow(c, low)
         THEN UNCHANGED <<people, table, clock, view, garbled, roster>>
         ELSE IF s # 0 THEN Admit(c, s, {low})
         ELSE /\ deleteMe' = deleteMe \cup {low} /\ leftSent' = leftSent \cup {low}
              /\ Tell(Present \ leftSent', {pid[low]}, {})
              /\ UNCHANGED <<players, pid, table, clock, roster>>
  BY DEF ScoreReady
<1>2. PeopleOK /\ OthersOK /\ MatchMaking
  BY <1>1 DEF LobbyInv, Plain
<1>3. c \notin Present /\ arrived' = arrived \cup {c} /\ checks' \subseteq checks \ {c}
  BY <1>1, <1>2 DEF PeopleOK
<1>4. low # 0 => low \in Present
  <2>1. Present \in SUBSET Nat
    BY <1>2, PresentIs, LobbyAssumption
  <2>2. CASE Present # {}
    BY <2>1, <2>2, LowestIs
  <2>3. CASE Present = {}
    BY <2>3 DEF Lowest
  <2> QED
    BY <2>2, <2>3
<1>5. low # 0 /\ s # 0 => s \in Slots
  <2> SUFFICES ASSUME low # 0, s # 0 PROVE s \in Slots
    OBVIOUS
  <2>1. pid[low] \in Nat
    BY <1>2, <1>4, PIDsAre
  <2> DEFINE S == {t \in Slots : slots[t].pid = pid[low]}
  <2>2. S \in SUBSET Nat /\ s = Lowest(S) /\ S # {}
    BY DEF Slots, SIDOf, Lowest
  <2> HIDE DEF S, s
  <2>3. s \in S
    BY <2>2, LowestIs
  <2> QED
    BY <2>3 DEF S
<1> HIDE DEF low, s
<1>6. CASE EmptySlot # 0
  <2>1. EmptySlot \in Slots
    BY <1>2, <1>6, EmptySlotIs
  <2> QED
    BY <1>1, <1>2, <1>3, <1>6, <2>1, AdmitStep
<1>7. CASE EmptySlot = 0 /\ (low = 0 \/ TooLow(c, low))
  <2>1. UNCHANGED <<people, table, clock, view, garbled, roster>>
    BY <1>1, <1>7
  <2>2. RosterTrue => RosterTrue'
    BY <2>1 DEF RosterTrue, clock, table, people, Present
  <2> QED
    BY <1>1, <1>2, <2>1, <2>2, ClockStep DEF OthersOK, clock
<1>8. CASE EmptySlot = 0 /\ ~(low = 0 \/ TooLow(c, low)) /\ s # 0
  <2>1. Admit(c, s, {low}) /\ {low} \subseteq Present /\ s \in Slots
    BY <1>1, <1>4, <1>5, <1>8
  <2> QED
    BY <1>1, <1>2, <1>3, <2>1, AdmitStep
<1>9. CASE EmptySlot = 0 /\ ~(low = 0 \/ TooLow(c, low)) /\ s = 0
  <2>1. /\ deleteMe' = deleteMe \cup {low} /\ leftSent' = leftSent \cup {low}
        /\ Tell(Present \ leftSent', {pid[low]}, {})
        /\ UNCHANGED <<players, pid, table, clock, roster>> /\ low \in Present
    BY <1>1, <1>4, <1>9
  <2>2. Present' = Present /\ MatchMaking' = MatchMaking /\ Slots' = Slots
    BY <2>1 DEF Present, MatchMaking, Slots, NumSlots
  <2>3. PeopleOK'
    BY <1>1, <1>2, <2>1, <2>2 DEF PeopleOK
  <2>4. view' \in [Clients -> SUBSET Nat] /\ garbled' \subseteq Clients
    <3> DEFINE who == Present \ leftSent'  leaves == {pid[low]}
    <3>1. who \subseteq Clients /\ leaves \subseteq Nat /\ Tell(who, leaves, {})
      BY <1>2, <2>1, PresentIs, PIDsAre
    <3> HIDE DEF who, leaves
    <3> QED
      BY <1>2, <3>1, TellTypes
  <2>5. OthersOK'
    BY <1>1, <1>2, <2>1, <2>2, <2>4 DEF OthersOK, table, clock
  <2> QED
    BY <1>2, <2>2, <2>3, <2>5 DEF LobbyInv
<1> QED
  BY <1>6, <1>7, <1>8, <1>9


\* Who is deleted is not in m_Players any more, and the others stay.
LEMMA RemovedIs ==
  ASSUME PeopleOK, NEW k \in 1..Len(players), players' = RemoveAt(players, k)
  PROVE  /\ players' \in Seq(Clients) /\ Len(players') = Len(players) - 1
         /\ \A i, j \in 1..Len(players') : players'[i] = players'[j] => i = j
         /\ Present' = Present \ {players[k]}
<1> DEFINE n == Len(players)
           a == SubSeq(players, 1, k - 1)
           b == SubSeq(players, k + 1, n)
<1>1. players \in Seq(Clients) /\ n \in Nat /\ k \in 1..n
  BY DEF PeopleOK
<1>2. a \in Seq(Clients) /\ Len(a) = k - 1 /\ \A i \in 1..(k - 1) : a[i] = players[i]
  <2>1. \A i \in 1..Len(players) : players[i] \in Clients
    BY <1>1
  <2> QED
    BY <1>1, <2>1, SubSeqProperties
<1>3. b \in Seq(Clients) /\ Len(b) = n - k /\ \A i \in 1..(n - k) : b[i] = players[k + i]
  <2>1. \A i \in 1..Len(players) : players[i] \in Clients
    BY <1>1
  <2> QED
    BY <1>1, <2>1, SubSeqProperties
<1>4. players' = a \o b
  BY DEF RemoveAt
<1> HIDE DEF a, b
<1>5. /\ players' \in Seq(Clients) /\ Len(players') = n - 1
      /\ \A i \in 1..(n - 1) : players'[i] = IF i < k THEN players[i] ELSE players[i + 1]
  <2>1. /\ a \o b \in Seq(Clients) /\ Len(a \o b) = Len(a) + Len(b)
        /\ \A i \in 1..(Len(a) + Len(b)) : (a \o b)[i] = IF i <= Len(a) THEN a[i] ELSE b[i - Len(a)]
    BY <1>2, <1>3, ConcatProperties
  <2>2. Len(a) + Len(b) = n - 1
    BY <1>1, <1>2, <1>3
  <2>3. ASSUME NEW i \in 1..(n - 1) PROVE (a \o b)[i] = IF i < k THEN players[i] ELSE players[i + 1]
    <3>1. CASE i < k
      BY <1>1, <1>2, <2>1, <2>2, <3>1
    <3>2. CASE ~(i < k)
      <4>1. i - Len(a) \in 1..(n - k) /\ k + (i - Len(a)) = i + 1
        BY <1>1, <1>2, <3>2
      <4> QED
        BY <1>1, <1>2, <1>3, <2>1, <2>2, <3>2, <4>1
    <3> QED
      BY <3>1, <3>2
  <2> QED
    BY <1>4, <2>1, <2>2, <2>3
<1>6. \A i, j \in 1..n : players[i] = players[j] => i = j
  BY DEF PeopleOK
<1>7. \A i, j \in 1..(n - 1) : players'[i] = players'[j] => i = j
  BY <1>1, <1>5, <1>6
<1>8. Present = {players[i] : i \in 1..n} /\ Present' = {players'[i] : i \in 1..(n - 1)}
  BY <1>1, <1>5 DEF Present, ToSet
<1>9. \A i \in 1..(n - 1) : \E j \in 1..n : players'[i] = players[j] /\ players[j] # players[k]
  <2> SUFFICES ASSUME NEW i \in 1..(n - 1)
               PROVE  \E j \in 1..n : players'[i] = players[j] /\ players[j] # players[k]
    OBVIOUS
  <2>1. i \in 1..n /\ i + 1 \in 1..n
    BY <1>1
  <2> QED
    BY <1>1, <1>5, <1>6, <2>1
<1>10. \A j \in 1..n : players[j] # players[k] => \E i \in 1..(n - 1) : players'[i] = players[j]
  <2> SUFFICES ASSUME NEW j \in 1..n, players[j] # players[k]
               PROVE  \E i \in 1..(n - 1) : players'[i] = players[j]
    OBVIOUS
  <2>1. CASE j < k
    <3>1. j \in 1..(n - 1)
      BY <1>1, <2>1
    <3> QED
      BY <1>5, <2>1, <3>1
  <2>2. CASE j > k
    <3>1. j - 1 \in 1..(n - 1) /\ ~(j - 1 < k) /\ (j - 1) + 1 = j
      BY <1>1, <2>2
    <3> QED
      BY <1>5, <3>1
  <2> QED
    BY <1>1, <2>1, <2>2
<1>11. Present' = Present \ {players[k]}
  <2>1. ASSUME NEW x \in Present' PROVE x \in Present \ {players[k]}
    <3>1. PICK i \in 1..(n - 1) : x = players'[i]
      BY <1>8, <2>1
    <3> QED
      BY <1>8, <1>9, <3>1
  <2>2. ASSUME NEW x \in Present, x # players[k] PROVE x \in Present'
    <3>1. PICK j \in 1..n : x = players[j]
      BY <1>8, <2>2
    <3> QED
      BY <1>8, <1>10, <2>2, <3>1
  <2> QED
    BY <2>1, <2>2
<1> QED
  BY <1>5, <1>7, <1>11

\* The end of a player's turn: it is deleted if it is marked, and everybody is told.
LEMMA EndVisitStep ==
  ASSUME LobbyInv, ~started, game' = game, NEW p \in Clients, EndVisit(p) PROVE LobbyInv'
<1>1. PICK lost \in BOOLEAN :
        /\ Visiting(p)
        /\ todo' = todo - 1
        /\ IF lost THEN FreeSlot(pid[p]) ELSE UNCHANGED slots
        /\ IF ~lost /\ p \notin deleteMe
           THEN UNCHANGED <<people, counting, view, garbled, roster>>
           ELSE /\ players' = RemoveAt(players, Len(players) - todo + 1)
                /\ pid' = [pid EXCEPT ![p] = 0]
                /\ deleteMe' = deleteMe \ {p} /\ leftSent' = leftSent \ {p}
                /\ counting' = CountsWithout(p)
                /\ roster' = IF counting' THEN roster ELSE {}
                /\ Tell(Present \ (leftSent \cup {p}), IF p \in leftSent THEN {} ELSE {pid[p]}, {})
        /\ UNCHANGED <<vhost, fake, count, started, checks, stage, arrived>>
  BY DEF EndVisit
<1> DEFINE k == Len(players) - todo + 1
<1>2. PeopleOK /\ OthersOK
  BY DEF LobbyInv
<1>3. p \in Present /\ todo \in 1..Len(players) /\ p = players[k] /\ k \in 1..Len(players) /\ Len(players) \in Nat
  BY <1>1, <1>2, VisitingIs, PresentIs
<1>4. CASE ~lost /\ p \notin deleteMe
  <2>1. UNCHANGED <<people, table, counting, view, garbled, roster>>
    BY <1>1, <1>4 DEF table
  <2>2. RosterTrue => RosterTrue'
    BY <1>1, <2>1 DEF RosterTrue, people, table, Present
  <2>3. todo' \in 0..Len(players)
    BY <1>1, <1>3
  <2> QED
    BY <1>1, <1>2, <2>1, <2>2, <2>3, ClockStep DEF OthersOK
<1>5. CASE lost \/ p \in deleteMe
  <2>1. /\ players' = RemoveAt(players, k)
        /\ pid' = [pid EXCEPT ![p] = 0]
        /\ deleteMe' = deleteMe \ {p} /\ leftSent' = leftSent \ {p}
        /\ counting' = CountsWithout(p)
        /\ roster' = IF counting' THEN roster ELSE {}
        /\ Tell(Present \ (leftSent \cup {p}), IF p \in leftSent THEN {} ELSE {pid[p]}, {})
    BY <1>1, <1>5
  <2>2. /\ players' \in Seq(Clients) /\ Len(players') = Len(players) - 1
        /\ \A i, j \in 1..Len(players') : players'[i] = players'[j] => i = j
        /\ Present' = Present \ {p}
    <3> HIDE DEF k
    <3> QED
      BY <1>2, <1>3, <2>1, RemovedIs
  <2>3. NumSlots' = NumSlots /\ MatchMaking' = MatchMaking /\ Slots' = Slots
    BY DEF NumSlots, MatchMaking, Slots
  <2>4. pid' \in [Clients -> Nat] /\ pid'[p] = 0 /\ \A q \in Clients \ {p} : pid'[q] = pid[q]
    BY <1>2, <2>1 DEF PeopleOK
  <2>5. PeopleOK'
    <3>1. \A c \in Clients : pid'[c] # 0 <=> c \in Present'
      BY <1>2, <2>2, <2>4 DEF PeopleOK
    <3>2. deleteMe' \subseteq Present' /\ leftSent' \subseteq deleteMe'
      BY <1>2, <2>1, <2>2 DEF PeopleOK
    <3>3. Present' \subseteq arrived' /\ checks' \subseteq arrived' /\ checks' \cap Present' = {}
      BY <1>1, <1>2, <2>2 DEF PeopleOK
    <3> QED
      BY <2>2, <2>4, <3>1, <3>2, <3>3 DEF PeopleOK
  <2>6. OthersOK'
    <3>1. slots' \in [Slots -> [status : Status, pid : Nat]]
      BY <1>1, <1>2 DEF FreeSlot, OthersOK, Open, Status
    <3>2. view' \in [Clients -> SUBSET Nat] /\ garbled' \subseteq Clients
      <4> DEFINE who == Present \ (leftSent \cup {p})  leaves == IF p \in leftSent THEN {} ELSE {pid[p]}
      <4>1. who \subseteq Clients /\ leaves \subseteq Nat /\ Tell(who, leaves, {})
        BY <1>2, <1>3, <2>1, PresentIs, PIDsAre
      <4> HIDE DEF who, leaves
      <4> QED
        BY <1>2, <4>1, TellTypes
    <3>3. counting' \in BOOLEAN /\ roster' \subseteq Clients
      BY <1>2, <2>1 DEF OthersOK, CountsWithout
    <3>4. todo' \in 0..Len(players')
      BY <1>1, <1>3, <2>2
    <3> QED
      BY <1>1, <1>2, <2>3, <3>1, <3>2, <3>3, <3>4 DEF OthersOK
  <2>7. ASSUME ~MatchMaking PROVE Plain'
    <3>1. Plain
      BY <2>7 DEF LobbyInv
    <3>2. leftSent = {} /\ checks = {} /\ leftSent' = {} /\ checks' = {}
      BY <1>1, <2>1, <3>1 DEF Plain
    <3>3. Playing \subseteq Nat \ {0} /\ Seated \subseteq Playing
      BY <1>2, PlayingIs
    <3>4. \A q \in Present \ {p} : pid'[q] = pid[q] /\ pid[q] # pid[p]
      BY <1>2, <1>3, <2>4, <3>1, PresentIs DEF Plain, PIDsDiffer
    <3>5. Playing' = Playing \ {pid[p]}
      <4>1. Playing' = {pid'[q] : q \in Present \ {p}}
        BY <2>2 DEF Playing
      <4> QED
        BY <3>4, <4>1 DEF Playing
    <3>6. Seated' = Seated \ {pid[p]}
      <4>1. Seated' = {pid'[q] : q \in (Present \ deleteMe) \ {p}}
        BY <2>1, <2>2 DEF Seated
      <4> QED
        BY <3>4, <4>1 DEF Seated
    <3>7. PIDsDiffer'
      <4>1. \A q, r \in Present' : pid'[q] = pid'[r] => q = r
        BY <2>2, <3>1, <3>4 DEF Plain, PIDsDiffer
      <4> QED
        BY <1>1, <3>1, <3>5, <4>1 DEF Plain, PIDsDiffer
    <3>8. SlotsTrue'
      <4>1. pid[p] \in Nat \ {0}
        BY <1>2, <1>3, PIDsAre
      <4>2. CASE lost
        <5>1. slots' = Opened({pid[p]})
          BY <1>1, <1>2, <3>1, <4>1, <4>2, FreeSlotOpens DEF Plain
        <5> QED
          BY <1>1, <3>1, <3>6, <4>1, <5>1, OpenedTrue DEF Plain
      <4>3. CASE ~lost
        <5>1. p \in deleteMe /\ slots' = slots
          BY <1>1, <1>5, <4>3
        <5>2. pid[p] \notin Seated
          BY <3>4, <5>1 DEF Seated
        <5> QED
          BY <1>1, <2>3, <3>1, <3>6, <5>1, <5>2 DEF Plain, SlotsTrue
      <4> QED
        BY <4>2, <4>3
    <3>9. ViewsTrue'
      <4> DEFINE who == Present \ {p}  leaves == {pid[p]}  infos == {}
      <4>1. /\ Tell(who, leaves, infos) /\ who \in SUBSET Present /\ leaves \subseteq Known
            /\ infos \cap (Known \ leaves) = {} /\ ViewsTrue
        BY <1>2, <1>3, <2>1, <3>1, <3>2, PIDsAre DEF Plain, Known, Playing
      <4> HIDE DEF who, leaves, infos
      <4>2. garbled' = {} /\ \A c \in who : view'[c] = (Known \ leaves) \cup infos
        BY <1>2, <4>1, TellTrue
      <4> USE DEF who, leaves, infos
      <4>3. Known \ leaves = ({vhost', fake'} \cup Playing') \ {0}
        <5>1. pid[p] \in Playing
          BY <1>3 DEF Playing
        <5> QED
          BY <1>1, <3>1, <3>5, <5>1 DEF Known, Plain, PIDsDiffer
      <4> QED
        BY <2>2, <4>2, <4>3 DEF ViewsTrue
    <3>10. HostHasRoom'
      <4>1. NumSlots \in Nat
        BY <1>2, <3>2, RoomyHostIs
      <4> QED
        BY <1>1, <1>3, <2>2, <2>3, <3>1, <4>1 DEF HostHasRoom, Plain
    <3>11. RosterTrue'
      BY <1>1, <2>1, <3>2 DEF RosterTrue, CountsWithout
    <3> QED
      BY <3>2, <3>7, <3>8, <3>9, <3>10, <3>11 DEF Plain
  <2> QED
    BY <2>3, <2>5, <2>6, <2>7 DEF LobbyInv
<1> QED
  BY <1>4, <1>5


\* Who is late loses its slot, a virtual host is made while there is room for one, and
\* leaves when the game starts.
LEMMA RestStep ==
  ASSUME LobbyInv, ~started, game' = game, Rest PROVE LobbyInv'
<1> DEFINE host == IF vhost = 0 /\ NumPlayers(leftSent) < NumSlots
                   THEN NewPID(Used(leftSent, 0)) ELSE vhost
<1>1. PICK late \in SUBSET (IF counting THEN {} ELSE Present), auto \in BOOLEAN, due \in BOOLEAN :
        LET begin == auto /\ ~counting
            start == counting /\ due /\ count = 0
        IN  /\ deleteMe' = deleteMe \cup late
            /\ slots' = [s \in Slots |-> IF \E p \in late : s = SIDOf(pid[p]) THEN Open ELSE slots[s]]
            /\ counting' = (counting \/ begin)
            /\ roster' = IF begin THEN Present \ leftSent ELSE roster
            /\ count' = IF begin THEN CountDown
                        ELSE IF counting /\ due THEN Tick(count) ELSE count
            /\ started' = start
            /\ vhost' = IF start THEN 0 ELSE host
            /\ IF start THEN Tell(Present \ leftSent, {vhost} \ {0}, {})
               ELSE Tell(Present \ leftSent, {}, {host} \ {0, vhost})
  BY DEF Rest
<1> DEFINE begin == auto /\ ~counting
           start == counting /\ due /\ count = 0
           leaves == IF start THEN {vhost} \ {0} ELSE {}
           infos  == IF start THEN {} ELSE {host} \ {0, vhost}
           who    == Present \ leftSent
<1>2. /\ deleteMe' = deleteMe \cup late
      /\ slots' = [s \in Slots |-> IF \E p \in late : s = SIDOf(pid[p]) THEN Open ELSE slots[s]]
      /\ counting' = (counting \/ begin)
      /\ roster' = IF begin THEN Present \ leftSent ELSE roster
      /\ count' = IF begin THEN CountDown
                  ELSE IF counting /\ due THEN Tick(count) ELSE count
      /\ started' = start
      /\ vhost' = IF start THEN 0 ELSE host
      /\ Tell(who, leaves, infos)
      /\ UNCHANGED <<players, pid, leftSent, fake, checks, todo, arrived>> /\ stage' = "scores"
  BY <1>1 DEF Rest
<1>3. PeopleOK /\ OthersOK /\ late \subseteq Present
  BY DEF LobbyInv
<1>4. /\ host \in Nat /\ (host # vhost => vhost = 0 /\ NumPlayers(leftSent) < NumSlots
                                           /\ host # 0 /\ host \notin Used(leftSent, 0))
  <2>1. IsFiniteSet(Used(leftSent, 0))
    BY <1>3, UsedFinite DEF OthersOK
  <2> QED
    BY <1>3, <2>1, NewPIDIs DEF OthersOK
<1> HIDE DEF host
<1>5. Present' = Present /\ Playing' = Playing /\ NumSlots' = NumSlots /\ MatchMaking' = MatchMaking /\ Slots' = Slots
  BY <1>2 DEF Present, Playing, NumSlots, MatchMaking, Slots
<1>6. PeopleOK'
  BY <1>2, <1>3, <1>5 DEF PeopleOK
<1>7. OthersOK'
  <2>1. slots' \in [Slots -> [status : Status, pid : Nat]]
    BY <1>2, <1>3 DEF OthersOK, Open, Status
  <2>2. view' \in [Clients -> SUBSET Nat] /\ garbled' \subseteq Clients
    <3>1. who \subseteq Clients /\ leaves \subseteq Nat /\ infos \subseteq Nat
      BY <1>3, <1>4, PresentIs DEF OthersOK
    <3> HIDE DEF who, leaves, infos
    <3> QED
      BY <1>2, <1>3, <3>1, TellTypes
  <2>3. count' \in 0..CountDown
    BY <1>2, <1>3, LobbyAssumption DEF OthersOK, Tick
  <2>4. roster' \subseteq Clients
    BY <1>2, <1>3, PresentIs DEF OthersOK
  <2> QED
    BY <1>2, <1>3, <1>4, <1>5, <2>1, <2>2, <2>3, <2>4 DEF OthersOK
<1>8. ASSUME ~MatchMaking PROVE Plain'
  <2>1. Plain
    BY <1>8 DEF LobbyInv
  <2>2. leftSent = {} /\ checks = {} /\ leftSent' = {} /\ checks' = {}
    BY <1>2, <2>1 DEF Plain
  <2>3. Playing \subseteq Nat \ {0} /\ Seated \subseteq Playing
    BY <1>3, PlayingIs
  <2>4. host = vhost \/ (vhost = 0 /\ host # 0 /\ host \notin Playing /\ host # fake)
    BY <1>4, <2>2, UsedIs
  <2>5. PIDsDiffer'
    BY <1>2, <1>5, <2>1, <2>3, <2>4 DEF Plain, PIDsDiffer
  <2>6. SlotsTrue'
    <3> DEFINE N == {pid[p] : p \in late}
    <3>1. Seated' = Seated \ N
      BY <1>2, <1>3, <2>1, SeatsLost DEF Plain
    <3>2. N \subseteq Nat \ {0}
      BY <1>3, PIDsAre
    <3>3. \A s \in Slots : (\E p \in late : s = SIDOf(pid[p])) <=> slots[s].pid \in N
      <4>1. \A m \in N, s \in Slots : s = SIDOf(m) <=> slots[s].pid = m
        BY <1>3, <2>1, <3>2, SIDOfIs DEF Plain, SlotsTrue
      <4> QED
        BY <4>1
    <3>4. slots' = Opened(N)
      BY <1>2, <3>3 DEF Opened
    <3> HIDE DEF N
    <3> QED
      BY <1>2, <2>1, <3>1, <3>2, <3>4, OpenedTrue DEF Plain
  <2>7. ViewsTrue'
    <3>1. leaves \subseteq Known /\ infos \cap (Known \ leaves) = {} /\ who \in SUBSET Present /\ who = Present
      BY <1>3, <2>1, <2>2, <2>4 DEF Known, OthersOK
    <3>2. garbled' = {} /\ \A c \in Present : view'[c] = (Known \ leaves) \cup infos
      <4> HIDE DEF who, leaves, infos
      <4> QED
        BY <1>2, <1>3, <2>1, <3>1, TellTrue DEF Plain
    <3>3. (Known \ leaves) \cup infos = ({vhost', fake'} \cup Playing') \ {0}
      BY <1>2, <1>5, <2>1, <2>3, <2>4 DEF Known, Plain, PIDsDiffer
    <3> QED
      BY <1>5, <3>2, <3>3 DEF ViewsTrue
  <2>8. HostHasRoom'
    <3>1. NumPlayers(leftSent) = Len(players) + (IF fake # 0 THEN 1 ELSE 0)
      BY <1>3, <2>2, RoomyHostIs
    <3> QED
      BY <1>2, <1>4, <1>5, <2>1, <3>1 DEF HostHasRoom, Plain
  <2>9. RosterTrue'
    BY <1>2, <1>5, <2>1, <2>2 DEF RosterTrue, Plain
  <2> QED
    BY <2>2, <2>5, <2>6, <2>7, <2>8, <2>9 DEF Plain
<1> QED
  BY <1>5, <1>6, <1>7, <1>8 DEF LobbyInv

-----------------------------------------------------------------------------
(* The theorems                                                            *)

\* LobbyInv holds initially.
LEMMA LobbyInit == Init => LobbyInv
<1> SUFFICES ASSUME Init PROVE LobbyInv
  OBVIOUS
<1>1. Present = {} /\ Len(players) = 0 /\ players \in Seq(Clients)
  BY DEF Init, Present, ToSet
<1>2. Playing = {} /\ Seated = {}
  BY <1>1 DEF Playing, Seated
<1>3. PeopleOK
  BY <1>1 DEF Init, PeopleOK
<1>4. OthersOK
  <2>1. Open \in [status : Status, pid : Nat]
    BY DEF Open, Status
  <2>2. slots \in [Slots -> [status : Status, pid : Nat]] /\ view \in [Clients -> SUBSET Nat]
    BY <2>1 DEF Init
  <2>3. count \in 0..CountDown /\ todo \in 0..Len(players)
    BY <1>1, LobbyAssumption DEF Init
  <2> QED
    BY <2>2, <2>3 DEF Init, OthersOK
<1>5. NumSlots \in Nat \ {0}
  BY LobbyAssumption DEF Init, NumSlots
<1>6. Plain
  <2>1. \A s \in Slots : slots[s].pid = 0
    BY DEF Init, Open
  <2>2. SlotsTrue
    BY <1>2, <2>1 DEF SlotsTrue
  <2> QED
    BY <1>1, <1>2, <1>5, <2>2 DEF Init, Plain, PIDsDiffer, ViewsTrue, HostHasRoom, RosterTrue
<1> QED
  BY <1>3, <1>4, <1>6 DEF LobbyInv

\* LobbyInv is about the variables only.
LEMMA LobbyUnchanged == ASSUME LobbyInv, UNCHANGED vars PROVE LobbyInv'
<1>1. Present' = Present /\ Playing' = Playing /\ Seated' = Seated /\ NumSlots' = NumSlots
      /\ MatchMaking' = MatchMaking /\ Slots' = Slots
  BY DEF Present, Playing, Seated, NumSlots, MatchMaking, Slots, vars, people
<1>2. PeopleOK' /\ OthersOK'
  BY <1>1 DEF LobbyInv, PeopleOK, OthersOK, vars, people, table, clock, control, history
<1>3. Plain => Plain'
  BY <1>1 DEF Plain, PIDsDiffer, ViewsTrue, HostHasRoom, SlotsTrue, RosterTrue, vars, people, table, clock, control, history
<1> QED
  BY <1>1, <1>2, <1>3 DEF LobbyInv

\* LobbyInv is inductive.
LEMMA LobbyStep == LobbyInv /\ [Next]_vars => LobbyInv'
<1> SUFFICES ASSUME LobbyInv, [Next]_vars PROVE LobbyInv'
  OBVIOUS
<1>1. CASE UNCHANGED vars
  BY <1>1, LobbyUnchanged
<1>2. CASE Next
  <2>1. ~started /\ game' = game
    BY <1>2 DEF Next
  <2>2. ASSUME NEW c \in Clients, Join(c) \/ ScoreReady(c) \/ GiveUp(c) PROVE LobbyInv'
    BY <2>1, <2>2, JoinStep, ScoreReadyStep, GiveUpStep
  <2>3. ASSUME BeginPlayers \/ Rest PROVE LobbyInv'
    BY <2>1, <2>3, BeginPlayersStep, RestStep
  <2>4. ASSUME NEW p \in Clients, \E s \in Slots, slot \in {Open, Closed, Computer} : SetSlot(p, s, slot)
        PROVE  LobbyInv'
    BY <2>1, <2>4, SetSlotStep
  <2>5. ASSUME NEW p \in Clients, (\E q \in Clients : Kick(p, q)) \/ \E s, t \in Slots : SwapSlots(p, s, t)
        PROVE  LobbyInv'
    BY <2>1, <2>5, KickStep, SwapSlotsStep
  <2>6. ASSUME NEW p \in Clients, SetAllSlots(p, Closed, Open) \/ SetAllSlots(p, Open, Closed) PROVE LobbyInv'
    BY <2>1, <2>6, SetAllSlotsStep
  <2>7. ASSUME NEW p \in Clients, CreateFakePlayer(p) \/ DeleteFakePlayer(p) PROVE LobbyInv'
    BY <2>1, <2>7, CreateFakePlayerStep, DeleteFakePlayerStep
  <2>8. ASSUME NEW p \in Clients, (\E from \in {0, CountDown} : StartCountDown(p, from)) \/ Abort(p) PROVE LobbyInv'
    BY <2>1, <2>8, StartCountDownStep, AbortStep
  <2>9. ASSUME NEW p \in Clients, Leave(p) \/ EndVisit(p) PROVE LobbyInv'
    BY <2>1, <2>9, LeaveStep, EndVisitStep
  <2> QED
    BY <1>2, <2>2, <2>3, <2>4, <2>5, <2>6, <2>7, <2>8, <2>9 DEF Next
<1> QED
  BY <1>1, <1>2


\* As many PIDs are in use as there are players, with the fake player and the virtual host.
LEMMA UsedCount ==
  ASSUME PeopleOK, OthersOK, leftSent = {}, PIDsDiffer
  PROVE  /\ IsFiniteSet(Used(leftSent, vhost)) /\ NumPlayers(leftSent) \in Nat
         /\ Cardinality(Used(leftSent, vhost)) = NumPlayers(leftSent) + (IF vhost # 0 THEN 1 ELSE 0)
<1> DEFINE f == [p \in Present |-> pid[p]]
           F == IF fake # 0 THEN Playing \cup {fake} ELSE Playing
           U == IF vhost # 0 THEN F \cup {vhost} ELSE F
<1>1. IsFiniteSet(Present) /\ Cardinality(Present) = Len(players) /\ Len(players) \in Nat
  BY PresentIs
<1>2. f \in Surjection(Present, Playing) /\ f \in Injection(Present, Playing)
  BY DEF Surjection, Injection, IsInjective, Playing, PIDsDiffer
<1>3. IsFiniteSet(Playing) /\ Cardinality(Playing) = Len(players)
  <2> HIDE DEF f
  <2> QED
    BY <1>1, <1>2, FS_Surjection
<1>4. Playing \subseteq Nat \ {0}
  BY PlayingIs
<1>5. IsFiniteSet(F) /\ Cardinality(F) = Len(players) + (IF fake # 0 THEN 1 ELSE 0)
  <2>1. IsFiniteSet(Playing \cup {fake}) /\ Cardinality(Playing \cup {fake}) = Len(players) + 1
    BY <1>3, FS_AddElement DEF PIDsDiffer
  <2>2. CASE fake # 0
    BY <2>1, <2>2
  <2>3. CASE fake = 0
    BY <1>1, <1>3, <2>3
  <2> QED
    BY <2>2, <2>3
<1>6. vhost # 0 => vhost \notin F
  BY DEF PIDsDiffer
<1>7. U = Used(leftSent, vhost)
  <2>1. Used(leftSent, vhost) = ({vhost, fake} \cup Playing) \ {0}
    BY UsedIs
  <2> QED
    BY <1>4, <2>1
<1> HIDE DEF F
<1>8. IsFiniteSet(U) /\ Cardinality(U) = Len(players) + (IF fake # 0 THEN 1 ELSE 0) + (IF vhost # 0 THEN 1 ELSE 0)
  <2>1. vhost # 0 => IsFiniteSet(F \cup {vhost}) /\ Cardinality(F \cup {vhost}) = Cardinality(F) + 1
    BY <1>5, <1>6, FS_AddElement
  <2>2. CASE vhost # 0
    BY <1>5, <2>1, <2>2
  <2>3. CASE vhost = 0
    BY <1>1, <1>5, <2>3
  <2> QED
    BY <2>2, <2>3
<1>9. NumPlayers(leftSent) = Len(players) + (IF fake # 0 THEN 1 ELSE 0)
  BY RoomyHostIs
<1>10. NumPlayers(leftSent) \in Nat
  BY <1>1, <1>9
<1> HIDE DEF U
<1>11. Cardinality(U) = NumPlayers(leftSent) + (IF vhost # 0 THEN 1 ELSE 0)
  BY <1>8, <1>9
<1> QED
  BY <1>7, <1>8, <1>10, <1>11

\* What a client has been told with PLAYERINFO and PLAYERLEAVE is who is in the game,
\* however PIDs are given out and taken back (without matchmaking).
THEOREM ClientsKnowTheGame == Spec => []ViewsAgree
<1>1. LobbyInv => ViewsAgree
  <2> SUFFICES ASSUME LobbyInv, ~MatchMaking PROVE ViewsAgree
    BY DEF ViewsAgree
  <2>1. PeopleOK /\ OthersOK /\ Plain /\ leftSent = {}
    BY DEF LobbyInv, Plain
  <2>2. Cardinality(Used(leftSent, vhost)) = NumPlayers(leftSent) + (IF vhost # 0 THEN 1 ELSE 0)
    BY <2>1, UsedCount DEF Plain
  <2>3. garbled = {} /\ \A c \in Present \ leftSent : view[c] = Used(leftSent, vhost)
    BY <2>1, UsedIs DEF Plain, ViewsTrue
  <2> QED
    BY <2>2, <2>3 DEF ViewsAgree
<1> QED
  BY LobbyInit, LobbyStep, <1>1, PTL DEF Spec

\* The game starts with the players for whom the countdown was started, and without the
\* virtual host (without matchmaking).
THEOREM StartsWithRoster == Spec => []GameStartsWithRoster
<1>1. LobbyInv => GameStartsWithRoster
  BY DEF LobbyInv, Plain, RosterTrue, GameStartsWithRoster
<1> QED
  BY LobbyInit, LobbyStep, <1>1, PTL DEF Spec

\* There are at most as many PIDs in slots as there are slots.
LEMMA HousedCount ==
  ASSUME OthersOK, SlotsTrue, NEW A, \A n \in A : n # 0 /\ \E s \in Slots : slots[s].pid = n
  PROVE  IsFiniteSet(A) /\ Cardinality(A) <= NumSlots
<1> DEFINE S == {s \in Slots : slots[s].pid \in A}
           f == [s \in S |-> slots[s].pid]
<1>1. NumSlots \in Nat
  BY LobbyAssumption DEF OthersOK, NumSlots
<1>2. IsFiniteSet(Slots) /\ Cardinality(Slots) = NumSlots
  <2>1. Slots = 1..NumSlots /\ 1 \in Int /\ NumSlots \in Int
    BY <1>1 DEF Slots
  <2>2. IsFiniteSet(1..NumSlots) /\ Cardinality(1..NumSlots) = IF 1 > NumSlots THEN 0 ELSE NumSlots - 1 + 1
    BY <2>1, FS_Interval
  <2> QED
    BY <1>1, <2>1, <2>2
<1>3. IsFiniteSet(S) /\ Cardinality(S) <= NumSlots /\ Cardinality(S) \in Nat
  <2>1. S \in SUBSET Slots
    OBVIOUS
  <2> HIDE DEF S
  <2> QED
    BY <1>2, <2>1, FS_Subset, FS_CardinalityType
<1>4. f \in Surjection(S, A)
  BY DEF Surjection
<1> HIDE DEF S, f
<1>5. IsFiniteSet(A) /\ Cardinality(A) <= Cardinality(S) /\ Cardinality(A) \in Nat
  BY <1>3, <1>4, FS_Surjection, FS_CardinalityType
<1> QED
  BY <1>1, <1>3, <1>5

\* The PIDs suffice: those that are in slots, those of players who are about to be deleted,
\* and a fake player without a slot.
LEMMA PIDsSufficeThen ==
  ASSUME PeopleOK, OthersOK, Plain
  PROVE  LET homeless == {n \in {fake} \ {0} : SIDOf(n) = 0}
         IN  Cardinality(Used(leftSent, vhost)) <= NumSlots + Cardinality(deleteMe) + Cardinality(homeless)
<1> DEFINE homeless == {n \in {fake} \ {0} : SIDOf(n) = 0}
           U == Used(leftSent, vhost)
           A == Seated \cup ({fake} \ ({0} \cup homeless))
           B == {pid[p] : p \in deleteMe}
<1>1. leftSent = {} /\ NumSlots \in Nat
  BY RoomyHostIs DEF Plain
<1>2. /\ IsFiniteSet(U) /\ NumPlayers(leftSent) \in Nat
      /\ Cardinality(U) = NumPlayers(leftSent) + (IF vhost # 0 THEN 1 ELSE 0)
  BY <1>1, UsedCount DEF Plain
<1>3. IsFiniteSet(deleteMe) /\ Cardinality(deleteMe) \in Nat
  BY PresentIs, FS_Subset, FS_CardinalityType DEF PeopleOK
<1>4. IsFiniteSet(homeless) /\ Cardinality(homeless) \in Nat
  <2>1. IsFiniteSet({fake}) /\ homeless \in SUBSET {fake}
    BY FS_Singleton
  <2> HIDE DEF homeless
  <2> QED
    BY <2>1, FS_Subset, FS_CardinalityType
<1>5. CASE vhost # 0
  <2>1. NumPlayers(leftSent) < NumSlots
    BY <1>1, <1>5, RoomyHostIs DEF Plain, HostHasRoom
  <2> HIDE DEF U, homeless
  <2> QED
    BY <1>1, <1>2, <1>3, <1>4, <1>5, <2>1 DEF U, homeless
<1>6. CASE vhost = 0
  <2>1. IsFiniteSet(A) /\ Cardinality(A) <= NumSlots /\ Cardinality(A) \in Nat
    <3>1. \A n \in A : n # 0 /\ \E s \in Slots : slots[s].pid = n
      <4>1. \A n \in Seated : n # 0 /\ \E s \in Slots : slots[s].pid = n
        BY PlayingIs DEF Plain, SlotsTrue
      <4>2. ASSUME fake # 0, SIDOf(fake) # 0 PROVE \E s \in Slots : slots[s].pid = fake
        <5>1. {s \in Slots : slots[s].pid = fake} # {}
          BY <4>2 DEF SIDOf, Lowest
        <5> QED
          BY <5>1
      <4> QED
        BY <4>1, <4>2
    <3> HIDE DEF A
    <3> QED
      BY <3>1, HousedCount, FS_CardinalityType DEF Plain
  <2>2. IsFiniteSet(B) /\ Cardinality(B) <= Cardinality(deleteMe) /\ Cardinality(B) \in Nat
    <3> DEFINE f == [p \in deleteMe |-> pid[p]]
    <3>1. f \in Surjection(deleteMe, B)
      BY DEF Surjection
    <3> HIDE DEF f, B
    <3> QED
      BY <1>3, <3>1, FS_Surjection, FS_CardinalityType
  <2>3. U \subseteq A \cup (B \cup homeless)
    BY <1>1, <1>6 DEF Used, Seated
  <2> HIDE DEF A, B, homeless, U
  <2>4. /\ IsFiniteSet(B \cup homeless) /\ Cardinality(B \cup homeless) \in Nat
        /\ Cardinality(B \cup homeless) <= Cardinality(B) + Cardinality(homeless)
    <3>1. /\ IsFiniteSet(B \cup homeless)
          /\ Cardinality(B \cup homeless) = Cardinality(B) + Cardinality(homeless) - Cardinality(B \cap homeless)
      BY <1>4, <2>2, FS_Union
    <3>2. Cardinality(B \cap homeless) \in Nat
      BY <2>2, FS_Subset, FS_CardinalityType
    <3>3. Cardinality(B \cup homeless) \in Nat
      BY <3>1, FS_CardinalityType
    <3> QED
      BY <1>4, <2>2, <3>1, <3>2, <3>3
  <2>5. /\ IsFiniteSet(A \cup (B \cup homeless)) /\ Cardinality(A \cup (B \cup homeless)) \in Nat
        /\ Cardinality(A \cup (B \cup homeless)) <= Cardinality(A) + Cardinality(B \cup homeless)
    <3> DEFINE C == B \cup homeless
    <3>0. IsFiniteSet(C)
      BY <2>4
    <3>a. Cardinality(C) \in Nat
      BY <2>4
    <3> HIDE DEF C
    <3>1. IsFiniteSet(A \cup C) /\ Cardinality(A \cup C) = Cardinality(A) + Cardinality(C) - Cardinality(A \cap C)
      BY <2>1, <3>0, FS_Union
    <3>2. Cardinality(A \cap C) \in Nat
      BY <2>1, FS_Subset, FS_CardinalityType
    <3>3. Cardinality(A \cup C) \in Nat
      BY <3>1, FS_CardinalityType
    <3>4. Cardinality(A \cup C) <= Cardinality(A) + Cardinality(C)
      BY <2>1, <3>a, <3>1, <3>2, <3>3
    <3> QED
      BY <3>1, <3>3, <3>4 DEF C
  <2>6. Cardinality(U) <= Cardinality(A \cup (B \cup homeless)) /\ Cardinality(U) \in Nat
    BY <1>2, <2>3, <2>5, FS_Subset, FS_CardinalityType
  <2>7. Cardinality(U) <= NumSlots + Cardinality(deleteMe) + Cardinality(homeless)
    BY <1>1, <1>3, <1>4, <2>1, <2>2, <2>4, <2>5, <2>6
  <2> QED
    BY <2>7 DEF U, homeless
<1> QED
  BY <1>5, <1>6


\* Every player who stays has a slot of its own and every PID in a slot is somebody's, and
\* the PIDs of Warcraft III suffice (without matchmaking).
THEOREM SlotsAndPIDsSuffice == Spec => []SlotsAndPIDs
<1>1. LobbyInv => SlotsAndPIDs
  <2> SUFFICES ASSUME LobbyInv PROVE SlotsAndPIDs
    OBVIOUS
  <2>1. PeopleOK /\ OthersOK
    BY DEF LobbyInv
  <2>2. TypeOK
    BY <2>1, PresentIs DEF TypeOK, PeopleOK, OthersOK, Status
  <2>3. SlotForEveryPlayer
    <3> SUFFICES ASSUME ~MatchMaking PROVE EachHasASlot
      BY DEF SlotForEveryPlayer
    <3>1. SlotsTrue /\ Seated \subseteq Nat \ {0}
      BY <2>1, PlayingIs DEF LobbyInv, Plain
    <3>2. ASSUME NEW p \in Present \ deleteMe
          PROVE  Cardinality({s \in Slots : slots[s].pid = pid[p]}) = 1
      <4>1. pid[p] \in Seated
        BY DEF Seated
      <4>2. PICK s \in Slots : slots[s].pid = pid[p]
        BY <3>1, <4>1 DEF SlotsTrue
      <4>3. {t \in Slots : slots[t].pid = pid[p]} = {s}
        BY <3>1, <4>1, <4>2 DEF SlotsTrue
      <4> QED
        BY <4>3, FS_Singleton
    <3>3. \A s \in Slots : slots[s].pid # 0 =>
            /\ slots[s].status = "occupied"
            /\ slots[s].pid = fake \/ \E p \in Present \ deleteMe : pid[p] = slots[s].pid
      BY <3>1 DEF SlotsTrue, Seated
    <3> QED
      BY <3>2, <3>3 DEF EachHasASlot
  <2>4. PIDsSuffice
    BY <2>1, PIDsSufficeThen DEF PIDsSuffice, LobbyInv
  <2> QED
    BY <2>2, <2>3, <2>4 DEF SlotsAndPIDs
<1> QED
  BY LobbyInit, LobbyStep, <1>1, PTL DEF Spec

\* A player is announced to leave, before it is deleted, only if nobody has a lower score,
\* not even who takes its place, however late that score was known.
THEOREM LowestIsKicked == Spec => KicksTheLowest
<1> DEFINE A == \A p \in Present : p \in leftSent' \ leftSent => \A q \in ToSet(players') : p <= q
<1>1. LobbyInv /\ [Next]_vars => [A]_vars
  <2> SUFFICES ASSUME LobbyInv, Next PROVE A
    OBVIOUS
  <2>1. PeopleOK /\ OthersOK /\ Present \subseteq Clients /\ Clients \subseteq Nat
    BY PresentIs, LobbyAssumption DEF LobbyInv
  <2>2. leftSent' \subseteq leftSent => A
    OBVIOUS
  <2>3. ASSUME NEW c \in Clients, Join(c) PROVE A
    <3>1. CASE EmptySlot = 0 \/ MatchMaking
      BY <2>2, <2>3, <3>1 DEF Join, people
    <3>2. CASE ~(EmptySlot = 0 \/ MatchMaking)
      <4>1. Admit(c, EmptySlot, {})
        BY <2>3, <3>2 DEF Join
      <4>2. leftSent' = leftSent \cup {}
        BY <4>1 DEF Admit
      <4> QED
        BY <2>2, <4>2
    <3> QED
      BY <3>1, <3>2
  <2>4. ASSUME NEW c \in Clients, ScoreReady(c) PROVE A
    <3> DEFINE low == Lowest(Present)
               s   == SIDOf(pid[low])
    <3>1. IF EmptySlot # 0 THEN Admit(c, EmptySlot, {})
          ELSE IF low = 0 \/ TooLow(c, low)
          THEN UNCHANGED <<people, table, clock, view, garbled, roster>>
          ELSE IF s # 0 THEN Admit(c, s, {low})
          ELSE /\ deleteMe' = deleteMe \cup {low} /\ leftSent' = leftSent \cup {low}
               /\ Tell(Present \ leftSent', {pid[low]}, {})
               /\ UNCHANGED <<players, pid, table, clock, roster>>
      BY <2>4 DEF ScoreReady
    <3>2. CASE EmptySlot # 0
      <4>1. leftSent' = leftSent \cup {}
        BY <3>1, <3>2 DEF Admit
      <4> QED
        BY <2>2, <4>1
    <3>3. CASE EmptySlot = 0 /\ (low = 0 \/ TooLow(c, low))
      BY <2>2, <3>1, <3>3 DEF people
    <3>4. CASE EmptySlot = 0 /\ ~(low = 0 \/ TooLow(c, low))
      <4>1. Present # {} => low \in Present /\ \A q \in Present : low <= q
        BY <2>1, LowestIs
      <4>2. ~(c < low) /\ c \in Nat
        BY <2>1, <3>4 DEF TooLow
      <4>3. /\ leftSent' = leftSent \cup {low}
            /\ ToSet(players') \subseteq Present \cup {c}
        <5>1. CASE s # 0
          <6>1. Admit(c, s, {low})
            BY <3>1, <3>4, <5>1
          <6> HIDE DEF low, s
          <6>2. players' = Append(players, c) /\ leftSent' = leftSent \cup {low}
            BY <6>1 DEF Admit
          <6>3. players \in Seq(Clients) /\ Len(players) \in Nat /\ Present = {players[i] : i \in 1..Len(players)}
            BY <2>1, PresentIs DEF PeopleOK
          <6>4. /\ players' \in Seq(Clients) /\ Len(players') = Len(players) + 1
                /\ players'[Len(players) + 1] = c /\ \A i \in 1..Len(players) : players'[i] = players[i]
            BY <6>2, <6>3
          <6>5. DOMAIN players' = 1..Len(players')
            BY <6>4
          <6>6. \A i \in 1..Len(players') : i \in 1..Len(players) \/ i = Len(players) + 1
            BY <6>3, <6>4
          <6>7. \A i \in DOMAIN players' : players'[i] \in Present \cup {c}
            BY <6>3, <6>4, <6>5, <6>6
          <6> QED
            BY <6>2, <6>7 DEF ToSet
        <5>2. CASE s = 0
          BY <3>1, <3>4, <5>2 DEF Present
        <5> QED
          BY <5>1, <5>2
      <4> HIDE DEF low
      <4>4. ASSUME NEW p \in Present, p \in leftSent' \ leftSent, NEW q \in ToSet(players') PROVE p <= q
        <5>1. p = low /\ low \in Present /\ \A r \in Present : low <= r
          BY <4>1, <4>3, <4>4
        <5>2. CASE q \in Present
          BY <5>1, <5>2
        <5>3. CASE q = c
          BY <2>1, <4>2, <5>1, <5>3
        <5> QED
          BY <4>3, <5>2, <5>3
      <4> QED
        BY <4>4
    <3> QED
      BY <3>2, <3>3, <3>4
  <2>5. ASSUME NEW p \in Clients, EndVisit(p) PROVE A
    <3>1. leftSent' \subseteq leftSent
      BY <2>5 DEF EndVisit, people
    <3> QED
      BY <2>2, <3>1
  <2>6. ASSUME (\E c \in Clients : GiveUp(c)) \/ BeginPlayers \/ Rest PROVE A
    BY <2>2, <2>6 DEF GiveUp, BeginPlayers, Rest, people
  <2>7. ASSUME NEW p \in Clients,
               \/ \E s \in Slots, slot \in {Open, Closed, Computer} : SetSlot(p, s, slot)
               \/ \E q \in Clients : Kick(p, q)
               \/ \E s, t \in Slots : SwapSlots(p, s, t)
               \/ SetAllSlots(p, Closed, Open) \/ SetAllSlots(p, Open, Closed)
               \/ CreateFakePlayer(p) \/ DeleteFakePlayer(p)
               \/ \E from \in {0, CountDown} : StartCountDown(p, from)
               \/ Abort(p) \/ Leave(p)
        PROVE  A
    <3>1. leftSent' = leftSent
      BY <2>7 DEF SetSlot, Kick, SwapSlots, SetAllSlots, CreateFakePlayer, DeleteFakePlayer, StartCountDown,
                  Abort, Leave, people
    <3> QED
      BY <2>2, <3>1
  <2> HIDE DEF A
  <2> QED
    BY <2>3, <2>4, <2>5, <2>6, <2>7 DEF Next
<1>2. KicksTheLowest <=> [][A]_vars
  BY PTL DEF KicksTheLowest
<1> QED
  BY LobbyInit, LobbyStep, <1>1, PTL DEF Spec, KicksTheLowest

=============================================================================
