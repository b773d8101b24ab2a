SPECIFICATION FairSpec
CONSTANTS
  Client = {c1, c2, c3}
  Page = {index, cat}
  Other = other
  Backlog = 2
  FdLimit = 4
  NoClient = NoClient
  NoUrl = NoUrl
INVARIANT ServerSound
PROPERTY EveryRequestAnswered
CHECK_DEADLOCK FALSE
