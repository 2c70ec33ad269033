SPECIFICATION Spec
CONSTANTS
  Address = {p, q, r, s}
  Capacities = {1, 2, 3}
  MaxQueries = 8
SYMMETRY Symmetry
INVARIANTS
  TypeOK
  LRUExact
PROPERTIES
  LFUEvictsLeast
  ClockSparesUsed
  ImplementsPaging
\* The file ends.
CHECK_DEADLOCK FALSE
