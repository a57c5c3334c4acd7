CONSTANTS
  p1 = p1
  p2 = p2
  p3 = p3
  Parent = parent
  Pids <- TwoPids
  MaxChilds = 2
  SpareChilds = 1
  MaxForkFailures = 0
  MaxKills = 0
SPECIFICATION FairSpec
PROPERTY SparesRestored
CHECK_DEADLOCK FALSE
