CONSTANTS
  SlotPerBuk = 1
  MaxProb = 2
  FptRange = 3
  HalfWord = 8
  MaxNumKeys = 4
  NumBuckets = 5
  Keys <- MCKeys
SPECIFICATION CFairSpec
INVARIANTS LookupNeverMisses NoFalseNegative WindowFull
PROPERTIES DurableSurvives InsertReturns ImplementsCountingFilter
