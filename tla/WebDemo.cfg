SPECIFICATION Spec
CONSTANTS
  MaxRenders = 3
  MaxWorkers = 2
  MaxVersions = 3
  None = None
  Absent = Absent
INVARIANTS SessionServed InstallsLatest OneResponseSounds
CHECK_DEADLOCK FALSE
