CONSTANTS
  p1 = p1
  p2 = p2
  p3 = p3
  Parent = parent
  Pids <- ThreePids
  MaxChilds = 2
  SpareChilds = 2
  MaxForkFailures = 1
  MaxKills = 1
SPECIFICATION FairSpec
INVARIANT TypeOK
INVARIANT SemaphoreSound
INVARIANT BooksMatch
INVARIANT SpareCount
INVARIANT ChildLimit
INVARIANT ShutdownReachesAll
PROPERTY PoolAtSleep
PROPERTY StopsUnlessDeaf
PROPERTY ZombiesReaped
CHECK_DEADLOCK FALSE
