CONSTANTS
  Players <- FourPlayers
  Team <- Teams
  Reserved = {"c", "d"}
  Percentage = 100
  AutoClose = TRUE
  Replay = TRUE
  Reports = {1}
  MaxIdle = 0
  Earlier = 1
  MaxQueries = 1
  MaxFaults = 1
SPECIFICATION FairSpec
INVARIANTS
  DecisionsStand
  NothingIsLost
  PoolIsSound
PROPERTIES
  GameIsDeleted
  ExitsInTheEnd
CHECK_DEADLOCK FALSE
