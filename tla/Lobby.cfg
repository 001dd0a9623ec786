CONSTANTS
  Clients = {1, 2, 3, 4}
  Admins = {2}
  Reserved = {3}
  Owner = 2
  CountDown = 0
  Games <- TwoGames
SPECIFICATION Spec
INVARIANTS
  SlotsAndPIDs
  ViewsAgree
  GameStartsWithRoster
PROPERTIES
  KicksTheLowest
CHECK_DEADLOCK FALSE
