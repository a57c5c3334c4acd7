SPECIFICATION FairSpec
CONSTANTS
  MaxModules = 2
  Settings <- Several
  MaxFaults = 1
  r1 = r1
  r2 = r2
  Rcpts <- OneRcpt
  Sizes <- OneSize
  MaxSize = 3
  EmptyHelo = TRUE
  MaxData = 2
INVARIANTS TypeOK EditsDelivered SpoolClean
PROPERTIES ImplementsHandover DataAnswered
CHECK_DEADLOCK FALSE
