----------------------------- MODULE SlotTable -----------------------------
(***************************************************************************)
(* Teams, colours and races in the lobby (game_base.cpp).  A slot has an   *)
(* occupant and a layout.  On a map with custom forces the layout belongs  *)
(* to the slot and players move between slots; on any other a player takes *)
(* its team and its colour along.  Players ask for a team, a colour or a   *)
(* race, admins swap, shuffle, balance, open, close and fill the slots,    *)
(* and unused slots keep a colour that nobody else may then have.          *)
(*                                                                         *)
(* Which player gets in at all, PIDs and the countdown are in Lobby.       *)
(***************************************************************************)
EXTENDS Game, Integers, FiniteSets, SequencesExt

CONSTANTS
  Nobody,      \* the PID 0
  MaxSlots,    \* bound: the slots of a map (12)
  NumColours,  \* bound: the colours of Warcraft III (12), one for each slot
  MaxScore,    \* bound: a player's score
  Maps         \* the kinds of map: how many players, and slots if there are some for
               \* observers; the layout of the players' slots; custom forces, fixed player
               \* settings, observers allowed, random races, matchmaking by score

Observer == 12    \* the team of observers, and their colour
Colours  == 0..NumColours - 1

\* The World Editor gives the players colours of their own, and offers fixed player
\* settings only together with custom forces.
ASSUME SlotTableAssumption ==
  /\ IsFiniteSet(Players) /\ Nobody \notin Players
  /\ MaxSlots \in 1..Observer /\ NumColours \in MaxSlots..Observer /\ MaxScore \in Nat
  /\ \A m \in Maps :
       /\ m.numPlayers \in 1..MaxSlots /\ m.numSlots \in m.numPlayers..MaxSlots
       /\ m.layout \in [1..m.numPlayers -> [team : 0..Observer - 1, colour : Colours,
                                             race : {"own", "random"}]]
       /\ \A s, t \in 1..m.numPlayers : s # t => m.layout[s].colour # m.layout[t].colour
       /\ {m.custom, m.fixed, m.observers, m.randomRaces, m.scored} \subseteq BOOLEAN
       /\ m.fixed => m.custom
       /\ m.numSlots > m.numPlayers => m.observers

VARIABLES
  map,      \* m_Map; m_Players is without those who are about to be deleted
  slots     \* m_Slots

vars == <<map, players, slots>>

Slots == DOMAIN slots

\* What a slot is taken by, and what it gives to who takes it.
Empty(status) == [status |-> status, pid |-> Nobody]
Player(p)     == [status |-> "player", pid |-> p]
Occupant(s)   == [status |-> s.status, pid |-> s.pid]
Layout(s)     == [team |-> s.team, colour |-> s.colour, race |-> s.race]
With(occupant, layout) ==
  [status |-> occupant.status, pid |-> occupant.pid,
   team |-> layout.team, colour |-> layout.colour, race |-> layout.race]

Occupied(s) == slots[s].status \in {"player", "computer"}
Lowest(S)   == CHOOSE n \in S : \A m \in S : n <= m
Sorted(S)   ==
  [n \in 1..Cardinality(S) |-> CHOOSE x \in S : Cardinality({y \in S : y < x}) = n - 1]

\* GetSIDFromPID, as the set of the slot of a player, or the empty set.
SIDOf(p) == IF \E s \in Slots : slots[s].pid = p
            THEN {Lowest({s \in Slots : slots[s].pid = p})} ELSE {}

-----------------------------------------------------------------------------

\* CMap: the slots of the players, as the map file has them, and those of observers.
MapSlot(m, s) ==
  With(Empty("open"),
       IF s > m.numPlayers THEN [team |-> Observer, colour |-> Observer, race |-> "random"]
       ELSE [team |-> m.layout[s].team, colour |-> m.layout[s].colour,
             race |-> IF m.randomRaces THEN "random" ELSE m.layout[s].race])

Init ==
  /\ map \in Maps
  /\ players = {}
  /\ slots = [s \in 1..map.numSlots |-> MapSlot(map, s)]

-----------------------------------------------------------------------------
(* Colours and the number of players                                       *)

\* GetNewColour, for the player in slot s.
NewColour(s) == Lowest(Colours \ {slots[t].colour : t \in Slots \ {s}})

\* Are there too many other players in the regular teams?  (Mutant: computers do not
\* count.)
FullOfPlayers(s) ==
  Cardinality({t \in Slots \ {s} : slots[t].status = "player" /\ slots[t].team # Observer})
    >= map.numPlayers
Full(s) ==
  Cardinality({t \in Slots \ {s} : Occupied(t) /\ slots[t].team # Observer}) >= map.numPlayers

\* ColourSlot: a colour of an unused slot is exchanged with that slot's.  (Mutant: it is
\* taken from it.)
ColourTaken(s, c) ==
  IF \E t \in Slots : slots[t].colour = c /\ Occupied(t) THEN slots
  ELSE [slots EXCEPT ![s].colour = c]
ColourSlot(s, c) ==
  IF \E t \in Slots : slots[t].colour = c /\ Occupied(t) THEN slots
  ELSE [t \in Slots |-> IF t = s THEN [slots[t] EXCEPT !.colour = c]
                        ELSE IF slots[t].colour = c
                        THEN [slots[t] EXCEPT !.colour = slots[s].colour]
                        ELSE slots[t]]

-----------------------------------------------------------------------------
(* Coming and going                                                        *)

\* The layout for a player who joins in slot s: on a map without custom forces a team and
\* a colour, or else an observer's.  Who joins by score gets the slot's as it is.
NewLayout(s) ==
  IF map.custom \/ map.scored THEN Layout(slots[s])
  ELSE IF Full(s) THEN [team |-> Observer, colour |-> Observer, race |-> "random"]
  ELSE [team   |-> IF s <= map.numPlayers THEN s - 1 ELSE 0,
        colour |-> NewColour(s), race |-> "random"]

\* EventPlayerJoined and EventPlayerJoinedWithScore: into the first open slot or, by
\* score, into that of the player who is kicked for it.
Join(p) ==
  LET open == {s \in Slots : slots[s].status = "open"} IN
  /\ p \notin players
  /\ \E s \in IF open # {} THEN {Lowest(open)}
              ELSE IF map.scored THEN {t \in Slots : slots[t].status = "player"} ELSE {} :
       /\ slots' = [slots EXCEPT ![s] = With(Player(p), NewLayout(s))]
       /\ players' = (players \ {slots[s].pid}) \cup {p}
  /\ UNCHANGED map

\* EventPlayerLeft, a lost connection, a kick.
Leave(p) ==
  /\ p \in players
  /\ players' = players \ {p}
  /\ slots' = [s \in Slots |-> IF s \in SIDOf(p) THEN With(Empty("open"), Layout(slots[s]))
                               ELSE slots[s]]
  /\ UNCHANGED map

\* OpenSlot, CloseSlot and ComputerSlot: who was in the slot is kicked.
SetSlot(s, status) ==
  /\ s \in Slots
  /\ slots' = [slots EXCEPT ![s] = With(Empty(status), Layout(slots[s]))]
  /\ players' = players \ {slots[s].pid}
  /\ UNCHANGED map

\* OpenAllSlots and CloseAllSlots.
SetAllSlots(from, to) ==
  /\ slots' = [s \in Slots |-> IF slots[s].status = from
                               THEN [slots[s] EXCEPT !.status = to] ELSE slots[s]]
  /\ UNCHANGED <<map, players>>

-----------------------------------------------------------------------------
(* Moving                                                                  *)

\* The slots "table" with the occupants of s and t, and nothing else, exchanged.
Exchanged(table, s, t) ==
  [table EXCEPT ![s] = With(Occupant(table[t]), Layout(table[s])),
                ![t] = With(Occupant(table[s]), Layout(table[t]))]

\* SwapSlots: with custom forces the teams stay, with fixed settings the layouts.
\* (Mutant: with custom forces everything else moves.)
SwappedForces(s, t) ==
  IF ~map.custom THEN [slots EXCEPT ![s] = slots[t], ![t] = slots[s]]
  ELSE [slots EXCEPT ![s] = [slots[t] EXCEPT !.team = slots[s].team],
                     ![t] = [slots[s] EXCEPT !.team = slots[t].team]]
Swapped(s, t) == IF map.fixed THEN Exchanged(slots, s, t) ELSE SwappedForces(s, t)

SwapSlots(s, t) ==
  /\ s \in Slots /\ t \in Slots /\ s # t
  /\ slots' = Swapped(s, t)
  /\ UNCHANGED <<map, players>>

\* GetEmptySlot( team, PID ), for the player in slot s: the next open slot of the team
\* after its own, or the first.
NextOpen(team, s) ==
  LET open  == {t \in Slots : slots[t].status = "open" /\ slots[t].team = team}
      after == IF slots[s].team = team THEN {t \in open : t >= s} ELSE open
  IN  IF after # {} THEN {Lowest(after)} ELSE IF open # {} THEN {Lowest(open)} ELSE {}

\* May a player ask for the team?
Allowed(team) == IF team = Observer THEN map.observers ELSE team < map.numPlayers

\* The colour of the player in slot s when it changes to the team.
ColourIn(team, s) == IF team = Observer THEN Observer
                     ELSE IF slots[s].colour = Observer THEN NewColour(s)
                     ELSE slots[s].colour

\* EventPlayerChangeTeam.
ChangeTeam(p, team) ==
  /\ p \in players
  /\ \E s \in SIDOf(p) :
       IF map.custom
       THEN \E t \in NextOpen(team, s) : slots' = Swapped(s, t)
       ELSE /\ Allowed(team) /\ (team = Observer \/ ~Full(s))
            /\ slots' = [slots EXCEPT ![s].team = team, ![s].colour = ColourIn(team, s)]
  /\ UNCHANGED <<map, players>>

\* EventPlayerChangeColour.
ChangeColour(p, c) ==
  /\ p \in players /\ ~map.fixed
  /\ \E s \in SIDOf(p) : slots[s].team # Observer /\ slots' = ColourSlot(s, c)
  /\ UNCHANGED <<map, players>>

\* EventPlayerChangeRace.
ChangeRace(p) ==
  /\ p \in players /\ ~map.fixed /\ ~map.randomRaces
  /\ \E s \in SIDOf(p) : slots' = [slots EXCEPT ![s].race = "picked"]
  /\ UNCHANGED <<map, players>>

\* !compcolour, !comprace and !compteam, with the team counted from 1 in a byte (bound:
\* the team before the first, and the last).
ChangeComputer(s) ==
  /\ s \in Slots /\ slots[s].status = "computer" /\ ~map.fixed
  /\ \/ \E c \in Colours : slots' = ColourSlot(s, c)
     \/ ~map.randomRaces /\ slots' = [slots EXCEPT ![s].race = "picked"]
     \/ \E team \in {0, map.numPlayers} : slots' = [slots EXCEPT ![s].team = (team - 1) % 256]
  /\ UNCHANGED <<map, players>>

-----------------------------------------------------------------------------
(* Shuffling and balancing                                                 *)

\* ShuffleSlots: the players who do not observe change places, with custom forces
\* without their layouts.
Movable == {s \in Slots : slots[s].status = "player" /\ slots[s].team # Observer}

ShuffleSlots ==
  /\ \E from \in Bijection(Movable, Movable) :
       slots' = [s \in Slots |->
                   IF s \notin Movable THEN slots[s]
                   ELSE IF map.custom THEN With(Occupant(slots[from[s]]), Layout(slots[s]))
                   ELSE slots[from[s]]]
  /\ UNCHANGED <<map, players>>

TeamSlots(team) == {s \in Slots : slots[s].team = team}
TeamSizes(team) == Cardinality({s \in Movable : slots[s].team = team})

\* Where BalanceSlots puts the players of a team, in order: in the first slots of the
\* team, whatever is in them.
FirstSlots(team) == SubSeq(Sorted(TeamSlots(team)), 1, TeamSizes(team))

\* All of them, team after team.
Targets == FoldLeft(LAMBDA all, first : all \o first, <<>>,
                    [team \in 1..Observer |-> FirstSlots(team - 1)])

\* The largest difference between the scores of the teams from start on, when the players
\* are given to them in the order.  A player is the place of its PID among theirs.
Difference(order, sizes, start, score) ==
  LET before(team) == SumFunctionOnSet(sizes, start..team - 1)
      total(team)  == MapThenSumSet(LAMBDA n : score[order[before(team) + n]], 1..sizes[team])
      teams        == start..Len(sizes)
  IN  Max({0} \cup {total(one) - total(other) : one \in teams, other \in teams})

\* BalanceSlotsRecursive splits off each of the teams in turn.  (Mutant: it stops after the
\* first.)
SplitFirst(start, last) == {team \in start..last : team = start}
SplitEach(start, last)  == start..last

\* The best of the orderings that are found for these players and the teams from start on.
\* Each choice of a team but the first choice, which next_combination starts from, is
\* completed by the best ordering of the rest.
BestOf(sizes, score, search, pids, start) ==
  LET choices(team) == kSubset(sizes[team], pids) \ {Range(SubSeq(Sorted(pids), 1, sizes[team]))}
      found == UNION {UNION {{Sorted(chosen) \o rest : rest \in search[<<pids \ chosen, team + 1>>]} :
                               chosen \in choices(team)} :
                        team \in SplitEach(start, Len(sizes))}
      diff(order) == Difference(order, sizes, start, score)
  IN  IF found = {} THEN {Sorted(pids)}
      ELSE {order \in found : \A other \in found : diff(order) <= diff(other)}

\* BalanceSlotsRecursive: the orderings it may find best; which of several is found first
\* is left open.
BestOrderings(sizes, score) ==
  LET search[x \in (SUBSET DOMAIN score) \X (1..Len(sizes) + 1)] ==
        BestOf(sizes, score, search, x[1], x[2])
  IN  search[<<DOMAIN score, 1>>]

\* The teams that have players, as their sizes.
Sizes == LET teams == Sorted({team \in 0..Observer - 1 : TeamSizes(team) > 0})
         IN  [n \in DOMAIN teams |-> TeamSizes(teams[n])]

\* The scores of the players who are balanced, in the order of their PIDs.
Scores == [1..Cardinality(Movable) -> 0..MaxScore]

\* One player is exchanged with who is where it should be.
PutRight(table, target, p) == Exchanged(table, target, CHOOSE s \in DOMAIN table : table[s].pid = p)

\* BalanceSlots with an ordering of the players: each is put right in turn.
Balanced(order) ==
  FoldLeft(LAMBDA table, x : PutRight(table, x[1], x[2]), slots,
           [n \in 1..Len(order) |-> <<Targets[n], order[n]>>])

\* The players who are balanced, in every order that their PIDs can have.
Orders == SetToSeqs({slots[s].pid : s \in Movable})

\* BalanceSlots.  When the search would take too long it is ShuffleSlots.
BalanceSlots ==
  /\ map.fixed
  /\ \E pids \in Orders, score \in Scores : \E order \in BestOrderings(Sizes, score) :
       slots' = Balanced([n \in DOMAIN order |-> pids[order[n]]])
  /\ UNCHANGED <<map, players>>

-----------------------------------------------------------------------------

Next ==
  \/ \E p \in Players :
       \/ Join(p) \/ Leave(p) \/ ChangeRace(p)
       \/ \E team \in 0..MaxSlots - 1 \cup {Observer, 255} : ChangeTeam(p, team)
       \/ \E c \in Colours : ChangeColour(p, c)
  \/ \E s \in 1..MaxSlots :
       \/ \E status \in {"open", "closed", "computer"} : SetSlot(s, status)
       \/ \E t \in 1..MaxSlots : SwapSlots(s, t)
       \/ ChangeComputer(s)
  \/ SetAllSlots("closed", "open") \/ SetAllSlots("open", "closed")
  \/ ShuffleSlots \/ BalanceSlots

Spec == Init /\ [][Next]_vars

\* Players are alike.
Symmetry == Permutations(Players)

-----------------------------------------------------------------------------
(* Properties                                                              *)

TypeOK ==
  /\ map \in Maps
  /\ players \subseteq Players
  /\ \A s \in Slots :
       /\ Occupant(slots[s]) \in {Empty("open"), Empty("closed"), Empty("computer")}
                                   \cup {Player(p) : p \in Players}
       /\ slots[s].team \in 0..Observer \cup {255}
       /\ slots[s].colour \in Colours \cup {Observer}
       /\ slots[s].race \in {"own", "random", "picked"}

\* Nobody loses its slot or gets a second one, however slots are swapped, shuffled and
\* balanced.
EveryPlayerSits ==
  /\ \A p \in players : Cardinality({s \in Slots : slots[s].pid = p}) = 1
  /\ \A s \in Slots : slots[s].pid \in players \cup {Nobody}

\* No two slots have the same colour, the unused ones included: else "if someone then
\* joins the game they'll receive the unused slot's colour resulting in a duplicate".
ColoursDiffer ==
  \A s, t \in Slots : s # t /\ slots[s].colour = slots[t].colour => slots[s].colour = Observer

\* On a map without custom forces a player has the observers' colour exactly while it is
\* an observer: GetNewColour never runs out.
ObserversColour ==
  ~map.custom /\ ~map.scored =>
    \A s \in Movable \cup TeamSlots(Observer) :
      slots[s].status = "player" => (slots[s].team = Observer <=> slots[s].colour = Observer)

\* The table is sound after any sequence of joins, requests and commands: everybody is in
\* it once, and nobody who joins next can get a colour twice.
SlotsAreSound == TypeOK /\ EveryPlayerSits /\ ColoursDiffer /\ ObserversColour

RegularPlayers == {slots[s].pid : s \in Movable}

\* On such a map nobody gets into a regular team when there are as many players and
\* computers in them as the map has places, from whichever slot it comes.
NoCrowding ==
  [][~map.custom /\ ~map.scored /\ ~(RegularPlayers' \subseteq RegularPlayers) =>
       Cardinality({s \in Slots : Occupied(s)' /\ slots'[s].team # Observer}) <= map.numPlayers]_vars

\* What the map prescribes stays: the teams of the slots with custom forces, unless a
\* computer's is changed, with fixed settings all of the layout, and random races.
MapIsKept ==
  [][\A s \in Slots :
       /\ map.custom /\ slots[s].status # "computer" => slots'[s].team = slots[s].team
       /\ map.fixed => Layout(slots'[s]) = Layout(slots[s])
       /\ map.randomRaces => slots'[s].race = "random"]_vars

\* "Put the players on the correct teams regardless of slot order": whatever ordering is
\* found best, each player ends up in the team it was meant for, with open, closed and
\* computer slots and observers anywhere between, and no slot is lost.
BalanceIsFair ==
  map.fixed =>
    \A order \in Orders :
      /\ \A n \in 1..Len(order) :
           \E s \in Slots : /\ Balanced(order)[s].pid = order[n]
                            /\ slots[s].team = slots[Targets[n]].team
      /\ \A status \in {"open", "closed", "computer", "player"} :
           Cardinality({s \in Slots : Balanced(order)[s].status = status})
             = Cardinality({s \in Slots : slots[s].status = status})

\* "Choosing the combination of players with the smallest difference": although each level
\* of the search leaves out its first combination, no ordering is better than the one found
\* when there are two teams or all have one size.  (With teams of 3, 2 and 1 players, whose
\* scores are 27, 19, 33, 35, 78 and 38, it settles on a difference of 10, and 6 is possible.)
BalanceIsBest ==
  map.fixed /\ (Len(Sizes) <= 2 \/ \A i, j \in DOMAIN Sizes : Sizes[i] = Sizes[j]) =>
    \A score \in Scores : \A order \in BestOrderings(Sizes, score) :
      \A other \in SetToSeqs(DOMAIN score) :
        Difference(order, Sizes, 1, score) <= Difference(other, Sizes, 1, score)

\* Balancing finds a best ordering and puts everybody where it says.
BalanceIsRight == BalanceIsBest /\ BalanceIsFair

=============================================================================
