SPECIFICATION FairSpec
CONSTANTS
  Threads = {a, b}
  Main = main
  NULL = null
INVARIANTS
  TypeOK
  QueueOK
  LockSafe
  MainWaits
PROPERTIES
  RoundRobin
  JoinEnds
\* The program ends, and its threads may wait for each other.
CHECK_DEADLOCK FALSE
