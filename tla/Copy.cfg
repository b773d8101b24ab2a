SPECIFICATION FairSpec
CONSTANTS
  a = a
  b = b
  h = h
  x = x
  y = y
  Name = {a, b, h}
  Hidden = {h}
  MaxDepth = 4
  Named <- NamedPaths
  Block = {x, y}
  MaxBlocks = 6
  Trees <- SmallTrees
  Dir = Dir
  NoEntry = NoEntry
  DST <- DstB
  Programs = {"cp", "multhread_cp"}
INVARIANT CopyComplete
PROPERTY OnlyDestinationChanges
PROPERTY EndsUnlessOverlapping
CHECK_DEADLOCK FALSE
