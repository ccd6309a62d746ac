SPECIFICATION PreviewSpec
CONSTANTS
  MaxGeneration = 3
  Configs <- MCConfigs
  Scenes <- MCScenes
INVARIANTS
  LiveIsCancellable
  OneLateUpdate
PROPERTIES
  StartsInOrder
  LatestIsRendered
  ImplementsDebouncer
CHECK_DEADLOCK FALSE
