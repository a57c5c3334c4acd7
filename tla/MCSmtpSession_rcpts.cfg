SPECIFICATION Spec
CONSTANTS
  MaxModules = 2
  Settings <- JustOne
  MaxFaults = 0
  r1 = r1
  r2 = r2
  Rcpts <- TwoRcpts
  Sizes <- OneSize
  MaxSize = 3
  EmptyHelo = FALSE
  MaxData = 2
INVARIANT OwnRecipients
CHECK_DEADLOCK FALSE
