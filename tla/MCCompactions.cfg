SPECIFICATION FairSpec
CONSTANTS
  Keys = {1, 2, 3}
  NumLevels = 4
  MaxMemCompactLevel = 2
  L0_CompactionTrigger = 2
  MaxBytesForLevel <- MCMaxBytes
  MaxFileSize = 2
  GrandParentOverlapFiles = 1
  ExpandedCompactionFiles = 3
  MaxSequence = 9
  Readers = {r1}
  Callers = {c1}
  ManualRanges <- MCRanges
  QuietManual = TRUE
  AllowedSeeks = 1
  Loaded <- MCLoaded
  Writes <- MCWrites
  MaxEvents = 2
INVARIANTS ReadsMatchHistory LevelsDisjoint NewerDataAbove ManualPointsToCaller
PROPERTIES BackgroundSettles ManualReturns
CHECK_DEADLOCK FALSE
