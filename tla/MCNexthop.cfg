CONSTANTS
  NULL = NULL
  Rcpts <- MCRcpts
  Hosts <- MCHosts
  Path = "/out"
  MaxBlocks = 2
  MaxMessages = 2
SPECIFICATION Spec
INVARIANT Told
 
INVARIANT NothingOpen
CHECK_DEADLOCK FALSE
