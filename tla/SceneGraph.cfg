SPECIFICATION MCSpec
CONSTANTS
  NumRooms = 3
  Portals = {p1, p2}
  Materials = {m1, m2}
  Readers = {r1, r2}
  MaxChanges = 2
  None = None
INVARIANTS GroupsExact GroupTables ReadersFresh
PROPERTY EvictionExact
SYMMETRY Symmetry
CHECK_DEADLOCK FALSE
