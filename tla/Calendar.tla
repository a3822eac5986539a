------------------------------ MODULE Calendar ------------------------------
(***************************************************************************)
(* Calendars (time/calendar.rs) and the dates, clocks and recurrences that   *)
(* are written in them (time/expr.rs).  A calendar is Gregorian with an      *)
(* offset from UTC, uniform (months of equal length, as in a game), or       *)
(* opaque: without numbers.                                                  *)
(***************************************************************************)
EXTENDS FuzzyRange, FiniteSets

\* An optional number that is absent, and bounds that are refused.
Missing == MinInt
NoBounds == <<PosInf, NegInf>>

TicksPerMinute == TicksPerHour \div 60

Gregorian(offset) == [kind |-> "gregorian", axis |-> "earth", offset |-> offset]
Uniform(axis, epoch, perDay, perMonth, perYear, perWeek, first) ==
  [kind |-> "uniform", axis |-> axis, epoch |-> epoch, perDay |-> perDay, perMonth |-> perMonth,
   perYear |-> perYear, perWeek |-> perWeek, first |-> first]

DayLength(cal) ==
  CASE cal.kind = "gregorian" -> TicksPerDay
    [] cal.kind = "uniform"   -> cal.perDay
    [] OTHER                  -> TicksPerDay

CalOrigin(cal) ==
  CASE cal.kind = "gregorian" -> -cal.offset
    [] cal.kind = "uniform"   -> cal.epoch
    [] OTHER                  -> 0

DayOf(cal, t) == (t - CalOrigin(cal)) \div DayLength(cal)
DayStart(cal, day) == Clamped(day * DayLength(cal) + CalOrigin(cal))

DaysPerWeek(cal) ==
  CASE cal.kind = "gregorian" -> 7
    [] cal.kind = "uniform"   -> cal.perWeek
    [] OTHER                  -> Missing

Weekday(cal, day) == IF cal.kind = "gregorian" THEN WeekdayFromDays(day) ELSE day % cal.perWeek

CivilOfDay(cal, day) ==
  IF cal.kind = "gregorian" THEN CivilFromDays(day)
  ELSE LET year == cal.perMonth * cal.perYear
           rem  == day % year
       IN  [year |-> day \div year + cal.first, month |-> rem \div cal.perMonth + 1, day |-> (rem % cal.perMonth) + 1]

CivilOf(cal, t) == CivilOfDay(cal, DayOf(cal, t))

MonthsPerYear(cal) == IF cal.kind = "gregorian" THEN 12 ELSE cal.perYear

MonthLength(cal, y, m) == IF cal.kind = "gregorian" THEN DaysInMonth(y, m) ELSE cal.perMonth

DayFromCivil(cal, y, m, d) ==
  IF cal.kind = "gregorian" THEN DaysFromCivil(y, m, d)
  ELSE ((y - cal.first) * cal.perYear + m - 1) * cal.perMonth + d - 1

\* With a fault: the month before January is taken for a month of the same year.
ShiftInYear(cal, y, m, delta) ==
  LET idx == m - 1 + delta
  IN  [year  |-> IF idx >= MonthsPerYear(cal) THEN y + idx \div MonthsPerYear(cal) ELSE y,
       month |-> (idx % MonthsPerYear(cal)) + 1]

\* shift_month
ShiftMonth(cal, y, m, delta) ==
  LET idx == y * MonthsPerYear(cal) + m - 1 + delta
  IN  [year |-> idx \div MonthsPerYear(cal), month |-> (idx % MonthsPerYear(cal)) + 1]

MonthBounds(cal, y, m) ==
  LET first == DayFromCivil(cal, y, m, 1)
  IN  <<DayStart(cal, first), DayStart(cal, first + MonthLength(cal, y, m))>>

YearBounds(cal, y) ==
  <<DayStart(cal, DayFromCivil(cal, y, 1, 1)), DayStart(cal, DayFromCivil(cal, y + 1, 1, 1))>>

-----------------------------------------------------------------------------
(* Clocks: a time of the day, up to 47 o'clock for the night of the day      *)
(* before, or a part of the day in hours.                                    *)

PartOfDay ==
  [predawn |-> <<0, 5>>, morning |-> <<5, 10>>, am |-> <<0, 12>>, noon |-> <<11, 14>>,
   pm |-> <<12, 24>>, evening |-> <<16, 19>>, night |-> <<18, 24>>, late_night |-> <<22, 27>>]

At(hour, minute, len) == [from |-> hour * TicksPerHour + minute * TicksPerMinute, len |-> len]
Part(p) == [from |-> PartOfDay[p][1] * TicksPerHour, len |-> (PartOfDay[p][2] - PartOfDay[p][1]) * TicksPerHour]
NoClock == [from |-> 0, len |-> 0]

\* clock_bounds: in proportion to the length of the calendar's day.
ClockBounds(cal, day, clock) ==
  LET scaled(v) == (v * DayLength(cal)) \div TicksPerDay
      start == Offset(DayStart(cal, day), scaled(clock.from))
  IN  <<start, Offset(start, Larger(scaled(clock.len), 1))>>

-----------------------------------------------------------------------------
(* Dates, any part of which may be missing.                                 *)

NoDate ==
  [year |-> Missing, month |-> Missing, day |-> Missing, part |-> "none", clock |-> NoClock, zone |-> Missing,
   yearOffset |-> Missing, monthOffset |-> Missing, uncertain |-> FALSE, julian |-> FALSE]

\* days_from_julian; 14 - m is never negative.
DaysFromJulian(y, m, d) ==
  LET a  == (14 - m) \div 12
      y2 == y + 4800 - a
  IN  d + (153 * (m + 12 * a - 3) + 2) \div 5 + 365 * y2 + y2 \div 4 - 32083 - 2440588

JulianDaysInMonth(y, m) ==
  CASE m = 2             -> IF y % 4 = 0 THEN 29 ELSE 28
    [] m \in {4, 6, 9, 11} -> 30
    [] OTHER             -> 31

\* DateSpec::validate: by the Gregorian months, for Julian dates too.
Valid(d) ==
  /\ d.month # Missing => d.month \in 1..12
  /\ d.day # Missing =>
       d.day \in 1..(IF d.year # Missing /\ d.month # Missing THEN DaysInMonth(d.year, d.month) ELSE 31)
  /\ d.clock.from < 48 * TicksPerHour

DayNumber(julian, y, m, d) == IF julian THEN DaysFromJulian(y, m, d) ELSE DaysFromCivil(y, m, d)

\* From the first day of a year, a month, a part of a month of that length, or the day.
DaysMeant(d, first, length) ==
  CASE d.month = Missing -> <<first, DayNumber(d.julian, d.year + 1, 1, 1)>>
    [] d.month # Missing /\ d.day = Missing ->
         (CASE d.part = "early" -> <<first, first + 10>>
            [] d.part = "mid"   -> <<first + 10, first + 20>>
            [] d.part = "late"  -> <<first + 20, first + length>>
            [] OTHER            -> <<first, first + length>>)
    [] OTHER -> <<first, first + 1>>

TimeOfDays(d, days, off) ==
  IF d.clock # NoClock /\ d.day # Missing
  THEN <<days[1] * TicksPerDay + d.clock.from - off, days[1] * TicksPerDay + d.clock.from + d.clock.len - off>>
  ELSE <<days[1] * TicksPerDay - off, days[2] * TicksPerDay - off>>

\* bounds_gregorian
BoundsGregorian(d, offset) ==
  LET off == IF d.zone = Missing THEN offset ELSE d.zone
      first == DayNumber(d.julian, d.year, IF d.month = Missing THEN 1 ELSE d.month,
                         IF d.month = Missing \/ d.day = Missing THEN 1 ELSE d.day)
      length == IF d.julian THEN JulianDaysInMonth(d.year, d.month) ELSE DaysInMonth(d.year, d.month)
  IN  IF ~ Valid(d) THEN NoBounds ELSE TimeOfDays(d, DaysMeant(d, first, length), off)

\* A part of a month of n days.
ThirdOf(part, n) ==
  CASE part = "early" -> <<0, n \div 3>>
    [] part = "mid"   -> <<n \div 3, (2 * n) \div 3>>
    [] part = "late"  -> <<(2 * n) \div 3, n>>
    [] OTHER          -> <<0, n>>

DaysFrom(cal, first, days) == <<DayStart(cal, first + days[1]), DayStart(cal, first + days[2])>>

DayOrClock(cal, day, clock) ==
  IF clock = NoClock THEN DaysFrom(cal, day, <<0, 1>>) ELSE ClockBounds(cal, day, clock)

\* The end of date_bounds, for a date whose year is known.
DatedBounds(cal, d) ==
  CASE cal.kind = "gregorian" -> BoundsGregorian(d, cal.offset)
    [] cal.kind = "uniform" /\ d.month = Missing -> YearBounds(cal, d.year)
    [] cal.kind = "uniform" /\ d.month # Missing /\ d.day = Missing ->
         DaysFrom(cal, DayFromCivil(cal, d.year, d.month, 1), ThirdOf(d.part, MonthLength(cal, d.year, d.month)))
    [] OTHER -> DayOrClock(cal, DayFromCivil(cal, d.year, d.month, d.day), d.clock)

\* How far bounds are from the reference, 0 inside them.
Apart(b, r) == IF r < b[1] THEN b[1] - r ELSE IF r >= b[2] THEN r - b[2] + 1 ELSE 0

InMonth(d, m) == [d EXCEPT !.year = m.year, !.month = m.month]

\* With a fault: only this year or month and those before it.
EarlierCandidates(cal, d, c) ==
  IF d.month # Missing THEN <<[d EXCEPT !.year = c.year], [d EXCEPT !.year = c.year - 1]>>
  ELSE <<[d EXCEPT !.year = c.year, !.month = c.month]>>

\* The dates near the day c that a date without a year may be.
Candidates(cal, d, c) ==
  LET inMonth(delta) == InMonth(d, ShiftMonth(cal, c.year, c.month, delta))
  IN  CASE d.month # Missing -> <<[d EXCEPT !.year = c.year], [d EXCEPT !.year = c.year - 1], [d EXCEPT !.year = c.year + 1]>>
        [] d.month = Missing /\ d.day # Missing -> <<inMonth(0), inMonth(-1), inMonth(1)>>
        [] OTHER -> <<[d EXCEPT !.year = c.year]>>

\* The first of the candidates that are nearest; one that is refused does not count.
NearestBounds(bounds, r) ==
  LET valid  == {n \in DOMAIN bounds : bounds[n] # NoBounds}
      near   == {n \in valid : \A o \in valid : Apart(bounds[n], r) <= Apart(bounds[o], r)}
  IN  IF valid = {} THEN NoBounds ELSE bounds[CHOOSE n \in near : \A o \in near : n <= o]

\* Relative years and months, from the reference.
Placed(cal, d, c) ==
  LET y == c.year + (IF d.yearOffset = Missing THEN 0 ELSE d.yearOffset)
      placed == IF d.monthOffset # Missing THEN InMonth(d, ShiftMonth(cal, y, c.month, d.monthOffset))
                                           ELSE [d EXCEPT !.year = y]
  IN  [placed EXCEPT !.yearOffset = Missing, !.monthOffset = Missing]

IsRelative(d) == d.yearOffset # Missing \/ d.monthOffset # Missing

\* The dates that are meant, at least one, with their bounds.
Meant(cal, d, c) == IF d.year = Missing THEN Candidates(cal, d, c) ELSE <<d>>
BoundsOfAll(cal, dates) == [n \in DOMAIN dates |-> DatedBounds(cal, dates[n])]

\* The reference r is in the day c.
BoundsNear(cal, d, r, c) ==
  NearestBounds(BoundsOfAll(cal, Meant(cal, IF IsRelative(d) THEN Placed(cal, d, c) ELSE d, c)), r)

\* date_bounds; the reference is Missing if there is none.
DateBounds(cal, d, r) ==
  CASE cal.kind = "opaque" -> NoBounds
    [] cal.kind # "opaque" /\ r = Missing /\ (IsRelative(d) \/ d.year = Missing) -> NoBounds
    [] cal.kind # "opaque" /\ r = Missing /\ ~ IsRelative(d) /\ d.year # Missing -> DatedBounds(cal, d)
    [] OTHER -> BoundsNear(cal, d, r, CivilOf(cal, r))

-----------------------------------------------------------------------------
(* Recurrences: every day, or one day of the week, the month or the year.   *)

MatchesDay(rule, day) ==
  LET c == CivilFromDays(day)
  IN  CASE rule.freq = "daily"   -> TRUE
        [] rule.freq = "weekly"  -> WeekdayFromDays(day) = rule.weekday
        [] rule.freq = "monthly" -> c.day = rule.day
        [] rule.freq = "yearly"  -> c.month = rule.month /\ c.day = rule.day

\* The occurrence on a day.
Occurrence(rec, day) ==
  LET s == day * TicksPerDay + rec.clock.from - rec.offset
  IN  Exact(s, s + Larger(rec.len, 1))

\* With a fault: the day of the window's start is where the search begins.
DaysSearchedFromStart(rec, lo, hi) ==
  (lo + rec.offset) \div TicksPerDay .. (hi + rec.offset) \div TicksPerDay + 1

\* Two days earlier, for clocks past midnight, and the length of an occurrence.
DaysSearched(rec, lo, hi) ==
  (lo + rec.offset) \div TicksPerDay - 2 - rec.len \div TicksPerDay .. (hi + rec.offset) \div TicksPerDay + 1

\* The window that is searched in place of an infinite one.
Searched(lo, hi) ==
  LET most == 400 * 366 * TicksPerDay
      from == IF Finite(lo) THEN lo ELSE Saturated(hi - most)
  IN  <<from, IF Finite(hi) THEN hi ELSE Saturated(from + most)>>

\* occurrences(lo, hi, 1), and any_occurrence_in: there is one.
AnyOccurrenceIn(rec, lo, hi) ==
  LET w == Searched(lo, hi)
  IN  \E day \in DaysSearched(rec, w[1], w[2]) :
        MatchesDay(rec.rule, day) /\ PossiblyOverlaps(Occurrence(rec, day), w[1], w[2])

\* matches_window, for a resolved time with or without a recurrence.
MatchesWindow(t, qs, qe, certainly) ==
  CASE t.recurs -> /\ PossiblyOverlaps(t.range, qs, qe)
                   /\ AnyOccurrenceIn(t.recurrence, Larger(qs, t.range.es), Smaller(qe, t.range.le))
    [] ~ t.recurs /\ certainly -> CertainlyOverlaps(t.range, qs, qe)
    [] OTHER -> PossiblyOverlaps(t.range, qs, qe)
=============================================================================
