CONSTANTS
  MinInt <- Least
  MaxInt = 1000000000
  TicksPerHour = 60
  Ranges <- FewRanges
  Others <- FewOthers
  Events <- FewEvents
  Windows <- FewWindows
  Calendars <- FewCalendars
  Days <- FewDays
  JulianYears <- FewJulianYears
  References <- FewReferences
  Dates <- FewDates
  WrittenIntervals <- FewWrittenIntervals
  Recurrences <- FewRecurrences
  Expressions <- FewExpressions
  MaxShift = 14
  TickBits = 6
  LevelStep = 2
  CellSize = 4
  MostCells = 4
  MostCellsRead = 6
  Spaces = {" "}
  Separators = {"-"}
  LowerCase <- Lower
  Spans <- FewSpans
  EarlierSpans <- FewEarlierSpans
  Frames <- FewFrames
  Placements <- FewPlacements
  EarlierPlacements <- FewEarlierPlacements
  Texts <- FewTexts
  QueriedTexts <- FewQueries
  Histories <- FewHistories
  Contents <- FewContents
  MaxPage = 5
  Horizon = 6
SPECIFICATION Spec
INVARIANTS
  WindowsAsMeant
  RelationsAsMeant
  DaysCounted
  NearestDate
  EndsInMonthOfStart
  MonthsAndWeeksCounted
  VaguerEventsVaguerTimes
  IndexesFindAll
  HistoryPages
CHECK_DEADLOCK FALSE
