SPECIFICATION PlanSpec
CONSTANTS
  NumRooms = 4
  Ends <- MCEnds
  Loss <- MCLoss
  Opaque = 9
  SourceRoom = 1
  ReceiverRoom = 3
  Limits <- MCLimits
  Scenes <- MCScenes
  NoPlan = NoPlan
  MaxCalls = 3
INVARIANTS SearchHonest PlanCurrent FactorsFresh
PROPERTY ToggleIsLocal
CHECK_DEADLOCK FALSE
