SPECIFICATION Spec
CONSTANTS
  Calls <- MCCalls
  Detectors = {1, 2}
  Lengths = {1, 2}
  Distances = {1}
  Gaps = {2}
  Offsets = {0, 1}
  Delays = {0, 2}
  Energy = 2
  MaxCone = 1
INVARIANTS EarlyOnlyBehindEdges RainOrRay GateKeepsImagesOut
