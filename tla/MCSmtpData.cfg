CONSTANTS
  NULL = NULL
  Tokens <- AllTokens
  Messages <- All
  Newlines <- Ends
  Required <- Two
  Colons <- WithColon
  Text = "text"
  MaxLine = 7
  BufSize = 2
SPECIFICATION Spec
INVARIANT TypeOK
INVARIANT BodyKept
INVARIANT HeadersOnce
CHECK_DEADLOCK FALSE
