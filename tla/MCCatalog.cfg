CONSTANTS
  MinInt <- Least
  MaxInt = 1000
  TicksPerHour = 1
  Worlds <- AllWorlds
  MaxWrites = 3
  MaterializeBatch = 3
  Searches <- FewSearches
  Readers <- FewReaders
SPECIFICATION Spec
INVARIANTS
  FreshRowsAreCurrent
  SearchFindsFacts
  MergedAnswersAgree
PROPERTIES
  PastStaysPast
  IngestionLinks
CHECK_DEADLOCK FALSE
