SPECIFICATION Spec
CONSTANTS
  Threads = {t1, t2}
  WriteBufferSize = 0
  L0_CompactionTrigger = 1
  L0_SlowdownWritesTrigger = 1
  L0_StopWritesTrigger = 2
  ReuseLogs = {FALSE}
  TornWrites = {"crash"}
  MaxWrites = 2
  MaxFlushes = 0
  MaxFaults = 1
  MaxCrashes = 2
SYMMETRY Symmetry
INVARIANTS SyncedWritesSurvive AckedWritesStay RecoveryFindsItsTables
CHECK_DEADLOCK FALSE
