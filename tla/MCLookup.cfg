CONSTANTS
  k1 = k1
  k2 = k2
  Root = root
  Children <- TwoChildren
  NHosts = 2
  Conns <- Eight
  Initial = 1
  MaxTries = 4
  ReapEvery = 2
  Settings <- Several
  MaxOutages = 2
  MaxQueries = 2
SPECIFICATION FairSpec
INVARIANT TypeOK
INVARIANT PrivateConnections
INVARIANT PoolBooks
INVARIANT SqlReconnects
INVARIANT AbortExplained
PROPERTY FailoverComplete
PROPERTY QueriesEnd
CHECK_DEADLOCK FALSE
