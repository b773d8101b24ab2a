SPECIFICATION FairSpec
CONSTANTS
  Producers = {p1}
  Consumers = {c1}
  Restartable = {}
  NUM = 2
  BUFFER_NUM = 3
  SEMVMX = 3
  Content = {x, y}
  Zero = Zero
  MaxKills = 0
  MaxStops = 0
  IpcStatFaults = {TRUE}
  Proc = {p1, c1}
  Sem = {"visit_buff", "consumer_info", "productor_info"}
INVARIANT SemaphoresInStep
PROPERTY ImplementsHandoff
PROPERTY PoolDrains
CHECK_DEADLOCK FALSE
