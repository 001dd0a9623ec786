CONSTANTS
  Players = {1, 2, 3}
  GProxyPlayers = {3}
  EmptyActions = 1
  MaxResets = 2
SPECIFICATION LoadSpec
INVARIANTS
  SameGameInTime
  ScreensAgree
CHECK_DEADLOCK FALSE
