SPECIFICATION PipeSpec
CONSTANTS
  MaxModules = 2
  Settings <- Several
  MaxFaults = 1
INVARIANT FilesRemoved
PROPERTY PipeImplementsHandover
CHECK_DEADLOCK FALSE
