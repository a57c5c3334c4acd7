SPECIFICATION Spec
CONSTANTS
  ann = ann
  joann = joann
  bob = bob
  example = example
  e1 = e1
  e2 = e2
  e3 = e3
  NoDomain = NoDomain
  NoSender = NoSender
  NoData = NoData
  Addresses <- People
  Entries = {e1, e2, e3}
  Listed <- ListedIn
  Mentions <- MentionedIn
  Settings <- Several
  MaxMessages = 2
  MaxFaults = 1
INVARIANTS EverybodyFetched OwnData
PROPERTY AnswersStable
CHECK_DEADLOCK FALSE
