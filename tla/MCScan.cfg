SPECIFICATION Spec
CONSTANTS
  Keys = {1, 2, 3}
  UserKeys = {1, 2, 3}
  NumLevels = 3
  MaxMemCompactLevel = 1
  L0_CompactionTrigger = 4
  MaxBytesForLevel <- MCMaxBytes
  MaxFileSize = 2
  GrandParentOverlapFiles = 10
  ExpandedCompactionFiles = 25
  MaxSequence = 9
  kMaxHeight = 2
  Contents <- MCContents
  Added <- MCAdded
INVARIANTS GetFindsPublished IteratorFollowsHistory
CHECK_DEADLOCK FALSE
