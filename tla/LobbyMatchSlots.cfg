CONSTANTS
  Clients = {1, 2, 3, 4}
  Admins = {2}
  Reserved = {3}
  Owner = 2
  CountDown = 1
  Games <- MatchingGame
SPECIFICATION Spec
INVARIANTS
  EachHasASlot
CHECK_DEADLOCK FALSE
