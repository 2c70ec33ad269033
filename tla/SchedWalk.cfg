SPECIFICATION FairSpec
CONSTANTS
  Threads = {m, a, b}
  Main = m
  ClientLocks = {l}
  TidLock = tid
  Sems = {}
  Devices = {}
  PriMax = 1
  Settable = {}
  MaxValue = 0
  Idle = idle
  NULL = null
PROPERTIES
  DonationWalkEnds
\* Every thread may exit, and a group of threads may deadlock on its locks.
CHECK_DEADLOCK FALSE
