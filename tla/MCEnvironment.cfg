CONSTANTS
  InitialLength = 1
  NumShards = 2
  HashesPerShard = 2
  Readers = {r1, r2}
  Tables = {0, 1}
  OldNames = {1}
  Compressed = {1}
  Offsets = {0}
  DirectIO = {TRUE, FALSE}
  TableCapacity = 1
  BlockCapacity = 1
  MaxMmaps = 1
  MaxOpenFiles = 1
  MaxFinds = 3
  MaxReads = 2
  MaxReadFaults = 1
  d1 = d1
  d2 = d2
  d3 = d3
  p1 = p1
  p2 = p2
  dir1 = dir1
  dir2 = dir2
  Databases = {d1, d2, d3}
  Processes = {p1, p2}
  ProcessOf <- MCProcessOf
  DirectoriesOf <- MCDirectoriesOf
  Nobody = Nobody
  MaxOpens = 3
  MaxWork = 2
  MaxLockFaults = 1
  MaxExits = 1
  Alignment = 2
  BufferSize = 2
  AppendSizes = {1, 4}
  Manifest = {TRUE, FALSE}
  MaxAppends = 5
  MaxCreated = 1
  MaxWriteFaults = 1
  MaxFileCrashes = 1
  LogBlockSize = 5
  HeaderSize = 2
  RecordSizes = {0, 1, 4, 6}
  MaxRecords = 3
  MaxLogFaults = 2
  MaxLogCrashes = 1
  InitialTables <- MCInitialTables
  InitialLogs <- MCInitialLogs
  MaxRepairs = 2
  MaxRepairFaults = 2
SPECIFICATION EnvSpec
INVARIANTS HandlesStayValid CachesConsistent FilesAccountedFor BlocksStayValid
INVARIANTS OneOpenPerProcess OpenTwiceOnlyWhenDropped WorkOnlyWhileLocked
INVARIANTS ContentsFollowAppends SyncedBytesStay ReadsReturnTheFile
INVARIANTS RecordsReadBack RepairDestroysNothing RepairedDatabaseIsSound
PROPERTIES CloseFinishes
CHECK_DEADLOCK FALSE
