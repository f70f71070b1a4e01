SPECIFICATION FairSpec
CONSTANTS
  Threads = {t1, t2}
  WriteBufferSize = 0
  L0_CompactionTrigger = 1
  L0_SlowdownWritesTrigger = 1
  L0_StopWritesTrigger = 1
  ReuseLogs = {FALSE}
  TornWrites = {}
  MaxWrites = 2
  MaxFlushes = 1
  MaxFaults = 1
  MaxCrashes = 1
PROPERTIES CallsReturn CloseReturns FlushedWhenReturned
CHECK_DEADLOCK FALSE
