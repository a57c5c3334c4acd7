SPECIFICATION Spec
CONSTANTS
  MaxModules = 2
  Settings <- JustOne
  MaxFaults = 0
  r1 = r1
  r2 = r2
  Rcpts <- OneRcpt
  Sizes <- OneSize
  MaxSize = 3
  EmptyHelo = FALSE
  MaxData = 2
INVARIANT WholeMessages
CHECK_DEADLOCK FALSE
