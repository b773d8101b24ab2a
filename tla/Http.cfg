SPECIFICATION Spec
CONSTANTS
  Heads <- MCHeads
  Boundary <- MCBoundary
  Names <- MCNames
  Refused <- MCRefused
  Unwritable <- MCUnwritable
  DiskSpace = 3
  Mask <- MCMask
  Scripts <- MCScripts
  Disk <- MCDisk
  SendLimit = 4
  MaxRequest = 6
  Replies <- MCReplies
  CgiOutputs <- MCCgiOutputs
  MaxBytes = 8
INVARIANT EventsIntact
INVARIANT OwnAnswers
INVARIANT LinksLive
INVARIANT FilesIntact
INVARIANT NothingStuck
INVARIANT TextsReadBack
INVARIANT FilesAsAsked
INVARIANT PagesAssembled
CHECK_DEADLOCK FALSE
