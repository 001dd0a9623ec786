CONSTANTS
  Players = {1, 2, 3}
  GProxyPlayers = {3}
  Prompt = {1}
  SyncLimit = 2
  EmptyActions = 1
  AutoSave = TRUE
  Reset = 3
  Silence = 3
  Grace = 2
  MaxAge = 8
SPECIFICATION FairSpec
INVARIANTS
  LimitsHold
  ScreensAgree
  PromptPlayersStay
PROPERTIES
  DropNeedsHalf
  GameResumes
CHECK_DEADLOCK FALSE
