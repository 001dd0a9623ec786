CONSTANTS
  Players = {"g", "h", "p"}
  GProxyPlayers = {"g", "h"}
  EmptyActions = 1
  AutoSave = TRUE
  Limit = 2
  Sizes = {1, 3}
  Latencies = {2, 3}
  Word = 64
  Gap = 3
  MaxAge = 7
  MaxActions = 2
SPECIFICATION FairSpec
INVARIANTS
  SameGame
  BatchesAreWhole
  SavedBeforeDrop
  ClockFollows
PROPERTIES
  GameGoesOn
CHECK_DEADLOCK FALSE
