CONSTANTS
  Players = {a, b, c}
  Nobody = Nobody
  MaxSlots = 4
  NumColours = 4
  MaxScore = 2
  Maps <- KindsOfMap
SPECIFICATION Spec
SYMMETRY Symmetry
INVARIANTS
  SlotsAreSound
  BalanceIsRight
PROPERTIES
  NoCrowding
  MapIsKept
CHECK_DEADLOCK FALSE
