SPECIFICATION Spec
CONSTANTS
  Threads = {m, a, b}
  Main = m
  ClientLocks = {l}
  TidLock = tid
  Sems = {d}
  Devices = {d}
  PriMax = 2
  Settable = {1}
  MaxValue = 2
  Idle = idle
  NULL = null
SYMMETRY Symmetry
INVARIANTS
  TypeOK
  OneUnitPerLock
  OneListPerThread
  NoLostWakeup
PROPERTIES
  LocksAreALockService
  HighestWaiterWakes
\* Every thread may exit, and a group of threads may deadlock on its locks.
CHECK_DEADLOCK FALSE
