SPECIFICATION FairSpec
CONSTANTS
  Threads = {a, b, c}
  Priorities = {0, 1}
  TIME_SLICE = 2
  Durations <- SomeDurations
  MaxSleep = 2
  Idle = idle
INVARIANTS
  TypeOK
  SleepersOK
PROPERTIES
  ImplementsAlarmClock
  SleepersWake
  HighestRuns
