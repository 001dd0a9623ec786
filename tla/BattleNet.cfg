CONSTANTS
  Servers = {"b", "p"}
  PvPGN = {"p"}
  AutoHost = TRUE
  ChatLimit = 0
  MaxGames = 2
  MaxLosses = 1
  MaxReplies = 1
SPECIFICATION FairSpec
INVARIANTS
  QueuesAreCurrent
  PrivateIsAdvertised
PROPERTIES
  PublicIsAdvertised
CHECK_DEADLOCK FALSE
