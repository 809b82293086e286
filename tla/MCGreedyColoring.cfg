SPECIFICATION Spec
CONSTANTS
  MaxVBs = 4
  MaxTied = 3
  MaxIndex = 3
  MaxSyncs = 2
  MaxExclusive = 1
  MaxHandoffs = 2
INVARIANTS
  NoSharedOverlap
  ExclusiveAlone
  SyncSharesBuffer
  SyncNodeDisjoint
  SlotsInUse
  OptimalOnIntervals
PROPERTY
  Terminates
CHECK_DEADLOCK FALSE
