---------------------------- MODULE SlotTableMC ----------------------------
(* The instance of SlotTable that TLC checks: the kinds of map, small enough *)
(* that each has players for all of its slots.  The layouts of a map with    *)
(* fixed settings do not change, so that it can have more slots.             *)
EXTENDS SlotTable

\* The teams of the players' slots; the colours are in another order than the slots.
Map(teams, numObservers, custom, fixed, randomRaces, scored) ==
  [numPlayers |-> Len(teams), numSlots |-> Len(teams) + numObservers,
   observers |-> numObservers > 0, custom |-> custom, fixed |-> fixed,
   randomRaces |-> randomRaces, scored |-> scored,
   layout |-> [s \in DOMAIN teams |-> [team |-> teams[s], colour |-> s % Len(teams),
                                       race |-> IF s = 1 THEN "random" ELSE "own"]]]

KindsOfMap ==
  LET T == TRUE
      F == FALSE
  IN  {Map(<<0, 1, 1, 0>>, 0, T, T, F, T), Map(<<2, 0, 1, 0>>, 0, T, T, F, F)}
        \cup {Map(<<1, 0, 1>>, 1, T, T, F, F)}
        \cup {Map(<<1, 0>>, 1, T, F, T, F), Map(<<0, 1>>, 0, T, F, F, F)}
        \cup {Map(<<0, 1>>, 1, F, F, T, F), Map(<<0, 0>>, 0, F, F, F, T)}

=============================================================================
