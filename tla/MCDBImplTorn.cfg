SPECIFICATION Spec
CONSTANTS
  Threads = {t1}
  WriteBufferSize = 1
  L0_CompactionTrigger = 1
  L0_SlowdownWritesTrigger = 1
  L0_StopWritesTrigger = 2
  ReuseLogs = {FALSE}
  TornWrites = {"fault"}
  MaxWrites = 2
  MaxFlushes = 0
  MaxFaults = 1
  MaxCrashes = 1
INVARIANT SyncedWritesSurvive
CHECK_DEADLOCK FALSE
