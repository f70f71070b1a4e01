CONSTANTS
  SlotPerBuk = 2
  MaxProb = 2
  FptRange = 3
  HalfWord = 16
  MaxKeys = 6
  Keys <- MCKeys
SPECIFICATION Spec
INVARIANTS ScanFindsSlot AcceptedKeysMatch
CHECK_DEADLOCK FALSE
