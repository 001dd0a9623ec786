CONSTANTS
  p1 = p1
  p2 = p2
  p3 = p3
  p4 = p4
  Players <- MCPlayers
  MaxSum = 3
  MaxFrames = 2
SPECIFICATION VoteSpec
SYMMETRY Symmetry
INVARIANTS
  VoteIsSound
PROPERTIES
  OnlyMinoritiesDropped
CHECK_DEADLOCK FALSE
