SPECIFICATION Spec
CONSTANTS
  max_num <- MCCells
  Keys <- MCKeys
  buckets_num = 2
  MaxCrashes = 1
  size = 11
  Payloads <- MCPayloads
  Values <- MCValues
  NoCall = NoCall
INVARIANTS
  RecordsTile
  PoolIsExact
  NeverHandedOutTwice
  CellsPartition
PROPERTIES
  RefusedOnlyWhenNoRoom
  ImplementsLog
  RecoveryKeepsCells
  ImplementsKeyList
