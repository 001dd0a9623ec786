CONSTANTS
  Players = {1, 2}
  Parts = 2
  Window = 1
  MaxDownloaders = 1
  MaxSpeed = 1
  Rounds = 2
  Modes = {0, 1, 2}
  Files = {0, 2, 6}
  Overflow = {255}
SPECIFICATION FairSpec
INVARIANTS
  LimitsKept
  SlotsAreTrue
PROPERTIES
  DownloadsEnd
CHECK_DEADLOCK FALSE
