SPECIFICATION Spec
CONSTANTS
  Procs = {1, 2, 3}
  Main = main
  Blocks = {1, 2, 3}
  ExitCodes <- MCExitCodes
  FileUsers = {2, 3}
  MaxFiles = 1
  NoOne = none
  Freed = freed
INVARIANTS
  TypeOK
  RecordsInOneList
  FileLockSafe
  WakeupsKept
PROPERTIES
  ExecAfterLoad
  WaitStatus
\* The machine powers off, and a process may hang for ever.
CHECK_DEADLOCK FALSE
