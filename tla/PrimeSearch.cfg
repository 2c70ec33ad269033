SPECIFICATION FairSpec
CONSTANTS
  Limits <- SomeLimits
  ThreadCounts = {1, 2, 3}
  CHUNK = 2
  NoThread = none
INVARIANTS
  TypeOK
  CountsAddUp
  ResultsRight
PROPERTIES
  ImplementsSearch
  SearchEnds
