SPECIFICATION DemoSpec
CONSTANTS
  Payloads <- MCPayloads
  Rooms <- MCRooms
  Points = {0, 31, 900}
  Names = {"west", "curtain"}
  Texts <- MCTexts
  Meshes <- MCMeshes
  NoMesh = NoMesh
  StageCosts = {0, 1, 3}
  Timeout = 3
  MaxCalls = 3
  MaxTurns = 30
  MaxDemoSurfaces = 6
  MaxDemoMeshTriangles = 20
  MaxDemoMaterials = 9
INVARIANTS ExpiryHasAnswer RequestRenderable
PROPERTY FailureKeepsSession
CHECK_DEADLOCK FALSE
