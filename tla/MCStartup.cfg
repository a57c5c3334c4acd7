CONSTANTS
  NULL = NULL
  Freed = Freed
  Empty <- NoText
  Texts <- Words
  Integer <- Number
  Boolean <- Bool
  Items <- Listed
  Directories <- Dirs
  CodeKeys <- Keys
  GroupKeys <- Custom
  Configs <- Files
  Touched <- SetByModules
  Ints <- Some
  MaxCalls = 1
SPECIFICATION Spec
INVARIANT TypeOK
INVARIANT LastRequestCounts
INVARIANT Prepared
INVARIANT StatusTold
INVARIANT CrashExplained
CHECK_DEADLOCK FALSE
