SPECIFICATION Spec
CONSTANTS
  Adds <- Schemas
  NewerAdds = {"idx_new"}
  Indexes = {"idx_at", "idx_new"}
  Rows <- SomeRows
  Validators = {"a", "b"}
  InWindow = 1
  Lookback = 1
  SlotTicks = 1
  MaxTime = 4
  MaxAge = 2
  MaxPages = 5
  Overhead = 1
  Batch = 2
  RowLimit = 4
INVARIANTS TypeOK SchemaMatchesVersion OpenIsCurrent PruneMeetsLimits PruneKeepsWhatFits ReadableIsWhole
CHECK_DEADLOCK FALSE
