SPECIFICATION Spec
CONSTANTS
  Producers = {p1}
  Consumers = {c1}
  Restartable = {c1}
  NUM = 2
  BUFFER_NUM = 2
  SEMVMX = 2
  Content = {x, y}
  Zero = Zero
  MaxKills = 2
  MaxStops = 1
  IpcStatFaults = {TRUE, FALSE}
  Proc = {p1, c1}
  Sem = {"visit_buff", "consumer_info", "productor_info"}
INVARIANT FlagsExclude
INVARIANT PermitsConserved
PROPERTY NothingLostOrRepeated
CHECK_DEADLOCK FALSE
