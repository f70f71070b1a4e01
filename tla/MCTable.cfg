CONSTANTS
  FilterBase = 3
  HashRange = 3
  UserKeys <- MCUserKeys
  MaxSequence = 3
  EntrySizes <- MCEntrySizes
  BlockSize = 2
  TrailerSize = 1
  MaxEntries = 4
SPECIFICATION Spec
INVARIANTS LookupsMatchEntries
CHECK_DEADLOCK FALSE
