SPECIFICATION Spec
CONSTANTS
  Threads = {t1, t2}
  WriteBufferSize = 0
  L0_CompactionTrigger = 1
  L0_SlowdownWritesTrigger = 1
  L0_StopWritesTrigger = 2
  ReuseLogs = {FALSE, TRUE}
  TornWrites = {"crash"}
  MaxWrites = 3
  MaxFlushes = 0
  MaxFaults = 0
  MaxCrashes = 1
SYMMETRY Symmetry
INVARIANTS SyncedWritesSurvive AckedWritesStay SequenceOrder
CHECK_DEADLOCK FALSE
