SPECIFICATION FairSpec
CONSTANTS
  NUM = 5
  Functions = {"eat_with_trylock", "eat_with_lock", "eat_change_lock", "eat"}
  MaxTries = 2
INVARIANT NoCircularWait
PROPERTY ImplementsDining
PROPERTY SomeoneEats
CHECK_DEADLOCK FALSE
