SPECIFICATION Spec
CONSTANTS
  Threads = {t1, t2, t3, t4}
  Conds = {c1, c2}
  PriMax = 1
  MonLock = mon
  ReadLock = read
  WriteLock = write
  NULL = null
SYMMETRY Symmetry
INVARIANTS
  TypeOK
  OneWakeupPerWait
  WritersExcludeReaders
PROPERTIES
  SignalOrder
  ImplementsMonitor
\* Clients may wait for each other, or for a signal nobody sends.
CHECK_DEADLOCK FALSE
