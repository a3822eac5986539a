CONSTANTS
  MinInt <- Least
  MaxInt = 1000
  TicksPerHour = 1
  Worlds <- Quarrel
  MaxWrites = 3
  MaterializeBatch = 3
  Searches <- FewSearches
  Readers <- FewReaders
SPECIFICATION Spec
INVARIANT StaleRowsAreQueued
CHECK_DEADLOCK FALSE
