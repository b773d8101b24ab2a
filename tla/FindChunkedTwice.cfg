SPECIFICATION Spec
CONSTANTS
  Heads <- MCHeads
  Boundary <- MCBoundary
  Names <- MCNames
  Refused <- MCRefused
  Unwritable <- MCUnwritable
  DiskSpace = 3
  Mask <- MCMask
  Scripts <- AgainScripts
  Disk <- MCDisk
  SendLimit = 4
  MaxRequest = 6
  Replies <- MCReplies
  CgiOutputs <- MCCgiOutputs
  MaxBytes = 8
INVARIANT ChunksKept
CHECK_DEADLOCK FALSE
