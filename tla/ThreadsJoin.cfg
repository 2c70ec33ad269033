SPECIFICATION Spec
CONSTANTS
  Threads = {a}
  Main = main
  NULL = null
INVARIANT JoinReturnsAfterEnd
\* The program ends, and its threads may wait for each other.
CHECK_DEADLOCK FALSE
