------------------------------- MODULE Laws -------------------------------
(***************************************************************************)
(* The functions of time, of the indexes and of the history's queries, asked *)
(* one question at a time.  They keep no state: a state of this module is    *)
(* one question with its inputs, and the properties compare the answer with  *)
(* what it is meant to say.                                                  *)
(***************************************************************************)
EXTENDS Allen, Resolve, Indexes, HistoryQueries

CONSTANTS
  Ranges, Others,       \* pairs of uncertain intervals to relate
  Events,               \* times of events that expressions refer to
  Windows,              \* windows to query, as <<start, end>>
  Calendars,            \* calendars
  Days,                 \* days to convert
  JulianYears,          \* years of the Julian calendar
  References,           \* reference times
  Dates,                \* dates without a year
  WrittenIntervals,     \* two dates, the second by its day alone
  Recurrences,          \* recurring expressions
  Expressions,          \* expressions that refer to the events a and b
  MaxShift,             \* how many months or weeks an expression goes back or ahead
  Spans, EarlierSpans,  \* spans of time that rows have, or had, as <<start, end>>
  Frames,               \* frames of coordinates
  Placements, EarlierPlacements,  \* boxes in frames, that resources have or had
  Texts, QueriedTexts,  \* texts, and texts that are looked for
  Histories,            \* recorded events
  Contents,             \* texts, as the offsets where their characters begin and end
  MaxPage,              \* how long a page is at most
  Horizon               \* what stands for infinity in the intervals that a range means

\* A calendar that days can be counted in.  The program takes uniform calendars without such
\* months, years or weeks too, and divides by zero when it counts in one.
Countable(cal) ==
  \/ cal.kind = "gregorian"
  \/ /\ cal.kind = "uniform" /\ cal.first \in Int
     /\ cal.perMonth \in Nat \ {0} /\ cal.perYear \in Nat \ {0} /\ cal.perWeek \in Nat \ {0}

\* Far enough from the horizon for two intervals to lie beyond it.
InSight(t) == t \in -(Horizon - 3)..(Horizon - 3)

\* An uncertain interval that begins before it ends, with bounds in sight or infinite; it
\* neither begins at the end of time nor ends at its beginning.
InSightRange(r) ==
  /\ r.es <= r.ls /\ r.ee <= r.le /\ r.es < r.le
  /\ r.es = NegInf \/ InSight(r.es)
  /\ r.ls = PosInf \/ InSight(r.ls)
  /\ r.ee = NegInf \/ InSight(r.ee)
  /\ r.le = PosInf \/ InSight(r.le)

ASSUME LawsAssumption ==
  /\ MaxShift \in Nat /\ MaxPage \in Nat /\ References \subseteq Int /\ Days \subseteq Int
  /\ JulianYears \subseteq Int /\ \A cal \in Calendars : Countable(cal)

ASSUME RangesAssumption ==
  /\ Horizon \in Nat /\ Horizon >= 3 /\ MinInt < -Horizon /\ Horizon < MaxInt
  /\ \A r \in Ranges \cup Others \cup Events : InSightRange(r)
  /\ \A w \in Windows : w[1] \in (1 - Horizon)..(Horizon - 1) /\ w[2] \in (1 - Horizon)..(Horizon - 1)

\* A time of a day, or of the night after it, that is over within a month.
Recurrent(clock) ==
  clock = NoClock \/ (clock.from \in 0..(2 * TicksPerDay - 1) /\ clock.len \in 1..(30 * TicksPerDay))

\* Offsets of a day at most, and windows weeks away from both ends of time.
ASSUME RecurrencesAssumption ==
  /\ \A ast \in Recurrences : ast.node = "recurring" /\ Recurrent(ast.clock)
  /\ \A cal \in Calendars : cal.kind = "gregorian" => cal.offset \in -TicksPerDay..TicksPerDay
  /\ \A r \in References, w \in Windows : \A t \in {w[1], w[2]} :
       r + t * TicksPerHour \in (MinInt + 50 * TicksPerDay)..(MaxInt - 50 * TicksPerDay)

\* The days of a long year.
LongYear(cal) == IF cal.kind = "gregorian" THEN 366 ELSE cal.perMonth * cal.perYear

\* References further from both ends of time than what is counted from them, so that no day
\* that is meant is cut off.
ASSUME ReferencesAssumption ==
  /\ \A cal \in Calendars : cal.kind = "uniform" => cal.epoch \in Int /\ cal.perDay \in Nat \ {0}
  /\ \A cal \in Calendars, r \in References :
       LET far == (MaxShift + 5) * LongYear(cal) + 3 * DaysPerWeek(cal) + 10
       IN  r \in (MinInt + far * DayLength(cal))..(MaxInt - far * DayLength(cal))

Units == {"minute", "hour", "day", "week", "month", "year"}

\* Some units before or after one of these events, the least first.
RelatesTo(ast, events) ==
  /\ ast.node = "relative" /\ ast.anchor \in events /\ ast.unit \in Units
  /\ ast.least \in Int /\ ast.most \in Int /\ ast.least <= ast.most

\* A date that some calendar may not have, or that needs a reference; else from one tick to another.
DatesTicks(node) ==
  /\ node.node = "date"
  /\ \A cal \in Calendars : \A b \in {DateBounds(cal, node.date, Missing)} :
       node.date.year # Missing /\ b # NoBounds =>
         b[1] \in MinInt..MaxInt /\ b[2] \in MinInt..MaxInt /\ b[1] < MaxInt /\ b[2] > MinInt /\ b[1] <= b[2]

\* A node that is made of no others.
Simple(node) ==
  \/ RelatesTo(node, {"a", "b"})
  \/ node.node = "between" /\ {node.after, node.before} \subseteq Seq({"a", "b"})
  \/ DatesTicks(node)
  \/ node.node \in {"reference", "weekday", "recurring", "unknown", "unparsed"}

\* The expressions that may refer to events, nested in any way.
ASSUME ExpressionsAssumption ==
  \A ast \in Expressions :
    /\ ast # <<>> /\ ast \in Seq(Range(ast))
    /\ \A n \in DOMAIN ast :
         \/ Simple(ast[n])
         \/ ast[n].node = "approx" /\ ast[n].inner \in 1..(n - 1)
         \/ ast[n].node = "interval" /\ {ast[n].start, ast[n].end} \subseteq 1..(n - 1)

\* A date that the calendar has: a uniform calendar does not check it.
Has(cal, d) == d.month <= MonthsPerYear(cal) /\ (cal.kind = "uniform" => d.day <= cal.perMonth)

\* A date without a year that every year has, and every month if it names none; a time of the
\* day is over within a week, and months are longer than that.
EveryYearHas(cal, d) ==
  /\ d = [NoDate EXCEPT !.month = d.month, !.day = d.day, !.part = d.part, !.clock = d.clock]
  /\ d.month \in (Nat \ {0}) \cup {Missing} /\ d.day \in (Nat \ {0}) \cup {Missing}
  /\ d.clock = NoClock \/ (d.clock.from \in 0..(2 * TicksPerDay - 1) /\ d.clock.len \in 1..(7 * TicksPerDay))
  /\ IF cal.kind = "gregorian" THEN d.day <= (IF d.month = Missing THEN 28 ELSE DaysInMonth(1, d.month))
                               ELSE d.clock # NoClock => cal.perMonth >= 10

ASSUME DatesAssumption ==
  MaxShift >= 1 /\ \A d \in Dates, cal \in Calendars : Has(cal, d) => EveryYearHas(cal, d)

\* The month of the first date of an interval: the one that is written, or so many after this.
MonthMeant(cal, date, c) ==
  IF date.monthOffset # Missing THEN ShiftMonth(cal, c.year, c.month, date.monthOffset)
  ELSE [year |-> date.year, month |-> date.month]

\* A month that has these days, one not after the other, and is not cut off.
HasDays(cal, m, first, last) ==
  LET n == DayFromCivil(cal, m.year, m.month, 1) * DayLength(cal) + CalOrigin(cal)
      far == (MonthLength(cal, m.year, m.month) + 2) * DayLength(cal)
  IN  /\ m.year \in Int \ {Missing} /\ m.month \in 1..MonthsPerYear(cal)
      /\ 1 <= first /\ first <= last /\ last <= MonthLength(cal, m.year, m.month)
      /\ n \in (MinInt + far)..(MaxInt - far)

\* Intervals from a day, by year and month or so many months from now, to another day of the
\* month, as the parser reads them; in the calendar that they are asked in.
ASSUME WrittenAssumption ==
  \A w \in WrittenIntervals :
    LET s == w.start  e == w.end
    IN  /\ DOMAIN s = DOMAIN NoDate /\ e = [NoDate EXCEPT !.day = e.day]
        /\ s.day \in Int /\ e.day \in Int /\ s.zone = Missing /\ ~ s.uncertain /\ ~ s.julian
        /\ s.clock = NoClock \/ (s.clock.from \in 0..TicksPerDay - 1 /\ s.clock.len \in Nat)
        /\ s.year # Missing => s.month # Missing /\ s.yearOffset = Missing /\ s.monthOffset = Missing
        /\ s.monthOffset # Missing => s.year = Missing /\ s.month = Missing /\ s.yearOffset = Missing
        /\ \A cal \in Calendars, r \in References :
             Has(cal, s) /\ (s.year # Missing \/ s.monthOffset # Missing)
               => HasDays(cal, MonthMeant(cal, s, CivilOf(cal, r)), s.day, e.day)

VARIABLE question

\* Rows and windows last some time.
ASSUME SpansAssumption ==
  \A w \in Spans \cup EarlierSpans : w[1] \in FirstTick..LastTick /\ w[2] \in FirstTick..LastTick /\ w[1] < w[2]

\* Boxes in a frame.
Points == [x : Int, y : Int]
Boxes == {b \in [min : Points, max : Points] : b.min.x <= b.max.x /\ b.min.y <= b.max.y}

\* A frame's parent is a frame, and a placement is a box in one.
ASSUME FramesAssumption ==
  /\ IsFiniteSet(DOMAIN Frames)
  /\ \A f \in DOMAIN Frames :
       /\ Frames[f].parent \in DOMAIN Frames \cup {NoFrame}
       /\ LET t == Frames[f].transform
          IN  t = NoTransform \/ {t.xx, t.xy, t.yx, t.yy, t.dx, t.dy} \subseteq Int
  /\ Placements \cup EarlierPlacements \subseteq [frame : DOMAIN Frames, box : Boxes]

\* There is a space, and what is folded stays as it is when folded again.
ASSUME TextsAssumption ==
  /\ Spaces # {}
  /\ \A c \in DOMAIN LowerCase : Folded(LowerCase[c]) = LowerCase[c]
  /\ \A t \in Texts \cup QueriedTexts : t \in Seq(Range(t))

Subjects == {"time", "indexes", "history"}

Init == \E s \in Subjects : question = [about |-> s]

Relate == \E a \in Ranges, b \in Others : question' = [about |-> "relation", a |-> a, b |-> b]

Overlaps == \E r \in Ranges, w \in Windows : question' = [about |-> "overlap", r |-> r, w |-> w]

Compounds == \E rel, then \in Relation : question' = [about |-> "composition", rel |-> rel, then |-> then]

Converts == \E cal \in Calendars, n \in Days : question' = [about |-> "day", cal |-> cal, n |-> n]

ConvertsJulian ==
  \E y \in JulianYears, m \in 1..12 : \E d \in 1..JulianDaysInMonth(y, m) :
    question' = [about |-> "julian", date |-> [year |-> y, month |-> m, day |-> d]]

Nears ==
  \E cal \in Calendars, r \in References, d \in Dates :
    /\ Has(cal, d)
    /\ question' = [about |-> "near", cal |-> cal, r |-> r, d |-> d]

Recurs ==
  \E ast \in Recurrences, cal \in Calendars, r \in References, w \in Windows :
    question' = [about |-> "recurrence", ast |-> ast, cal |-> cal, from |-> r + w[1] * TicksPerHour, to |-> r + w[2] * TicksPerHour]

Writes ==
  \E cal \in Calendars, r \in References, w \in WrittenIntervals :
    /\ Has(cal, w.start)
    /\ question' = [about |-> "written", cal |-> cal, r |-> r, start |-> w.start, end |-> w.end]

CountsMonths ==
  \E cal \in Calendars, r \in References, delta \in -MaxShift..MaxShift, unit \in {"month", "year"} :
    question' = [about |-> "months", cal |-> cal, r |-> r,
                 ast |-> [node |-> "reference", unit |-> unit, least |-> delta, most |-> delta, clock |-> NoClock]]

CountsWeeks ==
  \E cal \in Calendars, r \in References, w \in 0..6 \cup {Missing}, weeks \in {Missing, -2, -1, 0, 1} :
    /\ w # Missing \/ weeks # Missing
    /\ question' = [about |-> "weeks", cal |-> cal, r |-> r,
                    ast |-> [node |-> "weekday", weeks |-> weeks, weekday |-> w, clock |-> NoClock]]

RefersToEvents ==
  \E cal \in Calendars, ast \in Expressions, a \in Events, b \in Events :
    question' = [about |-> "events", cal |-> cal, ast |-> ast, a |-> a, b |-> b]

FindsSpans ==
  \E before \in EarlierSpans, now \in Spans : question' = [about |-> "span", before |-> before, now |-> now]

FindsPlacements ==
  \E before \in EarlierPlacements, now \in Placements :
    question' = [about |-> "placement", before |-> before, now |-> now]

FindsTexts == \E t \in Texts : question' = [about |-> "text", t |-> t]

\* The first page is read when some of the events are recorded; then the others are recorded
\* and some texts are shredded.
Pages ==
  \E h \in Histories : \E m \in DOMAIN h, lost \in SUBSET DOMAIN h :
    question' = [about |-> "pages", h |-> h, m |-> m, lost |-> lost]

PagesOfText == \E c \in Contents, length \in 1..MaxPage : question' = [about |-> "content", c |-> c, length |-> length]

AsksTime ==
  /\ question.about = "time"
  /\ \/ Relate \/ Overlaps \/ Compounds \/ Converts \/ ConvertsJulian
     \/ Nears \/ Writes \/ Recurs \/ CountsMonths \/ CountsWeeks \/ RefersToEvents

AsksIndexes == question.about = "indexes" /\ (FindsSpans \/ FindsPlacements \/ FindsTexts)

AsksHistory == question.about = "history" /\ (Pages \/ PagesOfText)

Next == AsksTime \/ AsksIndexes \/ AsksHistory

Spec == Init /\ [][Next]_question

-----------------------------------------------------------------------------

WideIntervals == {i \in [s : 0..6, e : 0..6] : i.s < i.e}
WideTriples ==
  {<<Of(t[1], t[2]), Of(t[2], t[3]), Of(t[1], t[3])>> : t \in WideIntervals \X WideIntervals \X WideIntervals}

\* Two uncertain intervals may have a relation exactly if two intervals that they may stand
\* for have it, so what is certain of them is true (allen.rs, possible_relations).  What
\* follows from two relations is what intervals on a longer axis show: the six values that the
\* table is made from are enough (composition_table), and inverses turn it around.
RelationsAsMeant ==
  /\ question.about = "relation" =>
       LET as == Intervals(question.a, Horizon)
           bs == Intervals(question.b, Horizon)
       IN  PossibleRelations(question.a, question.b) = {Of(p[1], p[2]) : p \in as \X bs}
  /\ question.about = "composition" =>
       LET rel == question.rel  then == question.then
           shown == {t[3] : t \in {u \in WideTriples : u[1] = rel /\ u[2] = then}}
       IN  /\ Compose({rel}, {then}) = shown
           /\ InverseSet(shown) = Compose({InverseOf(then)}, {InverseOf(rel)})

\* The day after a date.
NextDate(c, monthLength, monthsPerYear) ==
  CASE c.day < monthLength -> [c EXCEPT !.day = @ + 1]
    [] c.day >= monthLength /\ c.month < monthsPerYear -> [year |-> c.year, month |-> c.month + 1, day |-> 1]
    [] OTHER -> [year |-> c.year + 1, month |-> 1, day |-> 1]

\* Counting days and naming them go together: a day's date leads back to the day, the next day
\* has the next date and the next day of the week, in every calendar; and the two ways to count
\* agree where the Julian calendar ended (time/mod.rs, calendar.rs, expr.rs).
DaysCounted ==
  /\ question.about = "day" =>
       LET cal == question.cal
           c   == CivilOfDay(cal, question.n)
           d   == CivilOfDay(cal, question.n + 1)
       IN  /\ DayFromCivil(cal, c.year, c.month, c.day) = question.n
           /\ d = NextDate(c, MonthLength(cal, c.year, c.month), MonthsPerYear(cal))
           /\ Weekday(cal, question.n + 1) = (Weekday(cal, question.n) + 1) % DaysPerWeek(cal)
  /\ question.about = "julian" =>
       LET c == question.date
           d == NextDate(c, JulianDaysInMonth(c.year, c.month), 12)
       IN  /\ DaysFromJulian(d.year, d.month, d.day) = DaysFromJulian(c.year, c.month, c.day) + 1
           /\ c = [year |-> 1582, month |-> 10, day |-> 5] =>
                DaysFromJulian(c.year, c.month, c.day) = DaysFromCivil(1582, 10, 15)

\* What is taken for a date is as near as any such date of the years or months around.
IsNearest(cal, d, r) ==
  LET c == CivilOf(cal, r)
      months == IF d.month = Missing /\ d.day # Missing THEN 1..MonthsPerYear(cal) ELSE {d.month}
      dated == {InMonth(d, [year |-> y, month |-> m]) : y \in c.year - 2 .. c.year + 2, m \in months}
      bounds == {DatedBounds(cal, o) : o \in dated} \ {NoBounds}
      taken == DateBounds(cal, d, r)
  IN  taken # NoBounds /\ \A b \in bounds : Apart(taken, r) <= Apart(b, r)

\* A date without a year means the nearest such date, before or after the reference, when
\* the months and years around it have it (calendar.rs, date_bounds).
NearestDate == question.about = "near" => IsNearest(question.cal, question.d, question.r)

Dated(date) == [node |-> "date", date |-> date]

\* The interval that is written has the year and the month of its start at both ends.
InOneMonth(q, from, to) ==
  from.day = q.start.day /\ to.day = q.end.day /\ from.month = to.month /\ from.year = to.year

AsWritten(q, t) ==
  IsResolved(t) /\ InOneMonth(q, CivilOf(q.cal, t.range.es), CivilOf(q.cal, t.range.le - 1))

Written(q) ==
  Ast(q.cal, q.r, <<>>,
      <<Dated(q.start), Dated(InheritDateContext(q.start, q.end)), [node |-> "interval", start |-> 1, end |-> 2]>>)

\* "From the 10th of next month to the 12th" ends in the month it begins in, when the start
\* has a year or counts months from the reference (parse.rs, inherit_date_context).
EndsInMonthOfStart ==
  question.about = "written" /\ (question.start.year # Missing \/ question.start.monthOffset # Missing)
    => AsWritten(question, Written(question))

RecursAsRuled(q, clock, t) ==
  LET length == IF clock = NoClock THEN TicksPerDay ELSE clock.len
      around == (q.from \div TicksPerDay) - 40 .. (q.to \div TicksPerDay) + 40
      starts == {DayStart(q.cal, day) + clock.from : day \in {n \in around : MatchesDay(q.ast.rule, n)}}
  IN  IF q.cal.kind = "gregorian"
      THEN MatchesWindow(t, q.from, q.to, FALSE) <=> \E s \in starts : Overlap([s |-> s, e |-> s + length], q.from, q.to)
      ELSE ~ IsResolved(t)

\* What a query says of a window, possibly or certainly, is what some interval or every
\* interval that a range may stand for says of it; and a recurring time matches a window exactly
\* if some day that the rule names has an occurrence in it: late clocks that run into the next
\* day, offsets and long occurrences too (range.rs, matches_window and occurrences).
WindowsAsMeant ==
  /\ question.about = "overlap" =>
       LET r == question.r  qs == question.w[1]  qe == question.w[2]
           meant == Intervals(r, Horizon)
       IN  /\ PossiblyOverlaps(r, qs, qe) <=> \E i \in meant : Overlap(i, qs, qe)
           /\ CertainlyOverlaps(r, qs, qe) => \A i \in meant : Overlap(i, qs, qe)
           /\ CertainlyWithin(r, qs, qe) <=> \A i \in meant : i.s >= qs /\ i.e <= qe
           /\ CertainlyBefore(r, qe) <=> \A i \in meant : i.e <= qe
  /\ question.about = "recurrence" =>
       RecursAsRuled(question, question.ast.clock, Ast(question.cal, Missing, <<>>, <<question.ast>>))

\* A calendar's month that many months on, counted one by one.
NextMonth(m, perYear) == IF m.month < perYear THEN [m EXCEPT !.month = @ + 1] ELSE [year |-> m.year + 1, month |-> 1]
MonthBefore(m, perYear) == IF m.month > 1 THEN [m EXCEPT !.month = @ - 1] ELSE [year |-> m.year - 1, month |-> perYear]

MonthsOn(cal, c, delta) ==
  LET counted[n \in 0..MaxShift] ==
        IF n = 0 THEN [year |-> c.year, month |-> c.month]
        ELSE IF delta > 0 THEN NextMonth(counted[n - 1], MonthsPerYear(cal)) ELSE MonthBefore(counted[n - 1], MonthsPerYear(cal))
  IN  counted[IF delta < 0 THEN -delta ELSE delta]

MonthsCounted(cal, ast, c, from, to) ==
  /\ from.day = 1 /\ to.day = 1
  /\ ast.unit = "month" =>
       \A m \in {MonthsOn(cal, c, ast.least)} : \A next \in {NextMonth(m, MonthsPerYear(cal))} :
         from.year = m.year /\ from.month = m.month /\ to.year = next.year /\ to.month = next.month
  /\ ast.unit = "year" =>
       from.year = c.year + ast.least /\ from.month = 1 /\ to.year = from.year + 1 /\ to.month = 1

\* A day of the week that many weeks after the one of today.
InWeekMeant(cal, weeks, day, today) ==
  LET n == DaysPerWeek(cal)
  IN  \E first \in (today - n + 1)..today :
        Weekday(cal, first) = 0 /\ day \in (first + weeks * n)..(first + weeks * n + n - 1)

\* A weekday that the calendar's weeks do not have is left out.
WeekdayCounted(cal, ast, day, today) ==
  ast.weekday < DaysPerWeek(cal) =>
    /\ Weekday(cal, day) = ast.weekday
    /\ ast.weeks # Missing => InWeekMeant(cal, ast.weeks, day, today)
    /\ ast.weeks = Missing => day <= today /\ today - day < DaysPerWeek(cal)

WeekCounted(cal, ast, day, today) == Weekday(cal, day) = 0 /\ InWeekMeant(cal, ast.weeks, day, today)

WeeksCounted(cal, ast, t, day, today) ==
  IF ast.weekday = Missing
  THEN t.range.le - t.range.es = DaysPerWeek(cal) * DayLength(cal) /\ WeekCounted(cal, ast, day, today)
  ELSE t.range.le - t.range.es = DayLength(cal) /\ WeekdayCounted(cal, ast, day, today)

\* "Three months ago" begins with the first day of the month that one reaches by counting, and
\* ends where the next one begins; "next Friday" is the Friday of the week after the reference's,
\* "next week" all of that week, and "on Friday" the last one up to the reference's own day
\* (resolve.rs).
MonthsAndWeeksCounted ==
  question.about \in {"months", "weeks"} =>
    \A t \in {ResolvedExpression(question.cal, question.r, <<>>, <<question.ast>>)} :
      LET cal == question.cal
          civil(tick) == CivilOf(cal, tick)
      IN  /\ IsResolved(t)
          /\ question.about = "months" => MonthsCounted(cal, question.ast, civil(question.r), civil(t.range.es), civil(t.range.le))
          /\ question.about = "weeks" => WeeksCounted(cal, question.ast, t, DayOf(cal, t.range.es), DayOf(cal, question.r))

Found(cal, range) ==
  [error |-> "none", range |-> range, recurs |-> FALSE, recurrence |-> NoRecurrence, axis |-> cal.axis]

Includes(r, q) == r.es <= q.es /\ q.ls <= r.ls /\ r.ee <= q.ee /\ q.le <= r.le

Vaguer(vague, sharp) == IsResolved(sharp) => IsResolved(vague) /\ Includes(vague.range, sharp.range)

Known(cal, a, b) == [n \in {"a", "b"} |-> Found(cal, IF n = "a" THEN a ELSE b)]

\* It says "about" of a time, on its own or inside of it, of which a bound is not known.
AboutUnbounded(ast, times) ==
  \E n \in DOMAIN ast :
    /\ ast[n].node = "approx"
    /\ IsResolved(times[ast[n].inner]) /\ Width(times[ast[n].inner].range) = NoWidth

\* Knowing less of the events that an expression refers to makes its time vaguer and never
\* wrong: whatever the events' intervals turn out to be, the time they give lies within the
\* time that was resolved from what was known, however the expression nests (resolve.rs,
\* range.rs).  Saying "about" anywhere of what has an unknown bound is the exception: approx_fuzz
\* widens only what has a width, so what is learnt later may widen it beyond.
VaguerEventsVaguerTimes ==
  question.about = "events" =>
    LET ast == question.ast
        times(a, b) == Times(question.cal, Missing, Known(question.cal, a, b), ast)
    IN  \A vague \in {times(question.a, question.b)} :
          ~ AboutUnbounded(ast, vague) =>
            \A i \in Intervals(question.a, Horizon), j \in Intervals(question.b, Horizon) :
              Vaguer(vague[Len(ast)], times(Exact(i.s, i.e), Exact(j.s, j.e))[Len(ast)])

\* Its width is less than half of all ticks, so that level_of can subtract its ends.
Subtractable(span) == span[1] = FirstTick \/ span[2] = LastTick \/ span[2] - span[1] <= LastTick

Corners(box) == {[x |-> x, y |-> y] : x \in {box.min.x, box.max.x}, y \in {box.min.y, box.max.y}}

\* The way of a point up to the frame that all of its tree are compared in.
WayUp(frame, point) ==
  LET up[n \in 0..Cardinality(DOMAIN Frames)] ==
        IF n = 0 THEN <<frame, point>>
        ELSE LET f == Frames[up[n - 1][1]]
             IN  IF f.parent = NoFrame \/ f.transform = NoTransform THEN up[n - 1]
                 ELSE <<f.parent, Apply(f.transform, up[n - 1][2])>>
  IN  up

RootOf(frame, point) == WayUp(frame, point)[Cardinality(DOMAIN Frames)]

\* What a box covers on each axis there, as its corners' places say.
Shadow(points) ==
  LET xs == {p[2].x : p \in points}
      ys == {p[2].y : p \in points}
  IN  [roots |-> {p[1] : p \in points}, xs |-> Min(xs)..Max(xs), ys |-> Min(ys)..Max(ys)]

ShadowOf(placement) == Shadow({RootOf(placement.frame, c) : c \in Corners(placement.box)})

Touch(a, b) == a.roots = b.roots /\ a.xs \cap b.xs # {} /\ a.ys \cap b.ys # {}

\* It takes each axis to an axis: it may turn by a right angle, mirror and stretch.
KeepsAxes(t) == t = NoTransform \/ (t.xy = 0 /\ t.yx = 0) \/ (t.xx = 0 /\ t.yy = 0)

\* A point, or a box that nothing turns or shears on its way up.
Upright(p) ==
  \/ p.box.min = p.box.max
  \/ \A n \in 0..Cardinality(DOMAIN Frames) : KeepsAxes(Frames[WayUp(p.frame, p.box.min)[n][1]].transform)

SpansFound(before, now, index) ==
  \A w \in Spans, d \in {1, 2} : \A span \in {IF d = 1 THEN now ELSE before} :
    LET found == d \in OverlappingSpans(index, w[1], w[2])
        meant == span[1] < w[2] /\ span[2] > w[1]
    IN  (found => meant) /\ (Subtractable(span) => (found <=> meant))

\* Found as it was mapped; which, if it is upright, is where it is.
BoxesFound(before, now, index) ==
  \A w \in Placements, d \in {1, 2} : \A p \in {IF d = 1 THEN now ELSE before} :
    LET found == d \in Intersecting(index, Frames, w)
        r == ToRoot(Frames, p)
        s == ToRoot(Frames, w)
    IN  /\ found <=> r.frame = s.frame /\ Meet(r.box, s.box)
        /\ Upright(p) /\ Upright(w) => (found <=> Touch(ShadowOf(p), ShadowOf(w)))

\* No index loses what a search asks for, or shows what a row no longer says.  The temporal
\* index finds exactly the spans that overlap a window, past ones and infinite ones; of finite
\* spans wider than half of all ticks, of which level_of cannot subtract the ends, it may lose
\* some, and shows none that does not overlap.  The grid finds exactly the boxes that meet the
\* box that is asked for as they were mapped to the root of their frames, whatever maps those
\* are; and these are where the boxes really are if no map on the way turns or shears them, other
\* than by right angles, or if they are points.  Of a box that is turned, Geometry::map takes two
\* corners, which do not bound it: what meets the rest of it is not found.  The pairs of characters
\* never keep a text back that has what is looked for (index/temporal.rs, index/geo.rs, text.rs).
IndexesFindAll ==
  /\ question.about = "span" =>
       LET before == question.before  now == question.now
           had == InsertSpan(InsertSpan(NoSpans, 1, before[1], before[2]), 2, before[1], before[2])
       IN  SpansFound(before, now, InsertSpan(had, 1, now[1], now[2]))
  /\ question.about = "placement" =>
       LET before == question.before  now == question.now
           had == InsertBox(InsertBox(NoBoxes, Frames, 1, before), Frames, 2, before)
       IN  BoxesFound(before, now, InsertBox(had, Frames, 1, now))
  /\ question.about = "text" =>
       \A q \in QueriedTexts :
         /\ TextFound(question.t, q, TRUE) <=> HasPart(question.t, q)
         /\ TextFound(question.t, q, FALSE) <=> Finds(question.t, q)

\* Pages up to the last one, from a cursor on.
PagesFrom(h, q, cursor, limit, budget) ==
  LET more(read) == HistoryPage(h, q, read.next, limit, budget)
      joined(read, page) == [events |-> read.events \o page.events, next |-> page.next]
      after[n \in 0..Len(h)] ==
        IF n = 0 THEN [events |-> <<>>, next |-> cursor]
        ELSE IF after[n - 1].next = NoCursor THEN after[n - 1]
        ELSE joined(after[n - 1], more(after[n - 1]))
  IN  after[Len(h)]

Wanted(h, q) == {d \in SearchCandidates(h, q) : Matches(h[d], q)}

HistorySearches ==
  {q \in {[owner |-> "alice", who |-> "alice", conversations |-> w[2], from |-> 0, to |-> 9, order |-> o, text |-> w[1]] :
            o \in {"newest", "oldest", "sequence"}, w \in {<<NoText, {"c"}>>, <<"word", {"c"}>>, <<"word", {}>>}} : IsSearch(q)}

\* What a search for a text leaves out, it counts.
LeftOutIsCounted(h, q) ==
  {d \in Docs(h, q.owner) : Passes(h, q, d) /\ Matches(h[d], q)} \ Wanted(h, q) \subseteq NotSearchable(h, q)

KeyOf(h, q, d) == <<SortKey(q.order, h[d]), d>>

InOrder(h, q, read) ==
  \A i, j \in DOMAIN read : i < j =>
    IF q.order = "newest" THEN Precedes(KeyOf(h, q, read[j]), KeyOf(h, q, read[i]))
    ELSE Precedes(KeyOf(h, q, read[i]), KeyOf(h, q, read[j]))

WhatIsWanted(before, after, read) == before \cap after \subseteq read /\ read \subseteq before \cup after

Rest(first, now, q, limit, budget) ==
  IF first.next = NoCursor THEN first ELSE PagesFrom(now, q, first.next, limit, budget)

ReadBy(first, rest) == IF first.next = NoCursor THEN first.events ELSE first.events \o rest.events

ReadOnce(start, now, q, limit, budget) ==
  \A first \in {HistoryPage(start, q, NoCursor, limit, budget)} : \A rest \in {Rest(first, now, q, limit, budget)} :
    /\ rest.next = NoCursor
    /\ InOrder(now, q, ReadBy(first, rest))
    /\ WhatIsWanted(Wanted(start, q), Wanted(now, q), ToSet(ReadBy(first, rest)))

\* The summary of a conversation misses what a view of all of it has for gaps.
MissesTheGaps(summary, whole) == summary.missing = Cardinality(UNION {g[1]..g[2] : g \in whole.gaps})

\* Whoever sees the events of a conversation finds it; whoever sees none of them does not.
SeenOrNot(h, who, summary, whole) ==
  IF \E d \in InConversations(h, "alice", {"c"}) : Visible(h, who, d)
  THEN summary.error = "none" /\ whole.error = "none" /\ MissesTheGaps(summary, whole)
  ELSE summary = NotFound /\ whole = NotFound

ContextIsWhole(all, anchor, before, c) ==
  c.shown # {} =>
    /\ \A x \in Min(c.shown)..Max(c.shown) :
         /\ x \in all <=> x \in c.shown
         /\ x \in all <=> \A g \in c.gaps : x \notin g[1]..g[2]
    /\ anchor \in all => anchor \in c.shown
    /\ before > 0 /\ c.shown \cap 0..(anchor - 1) # {} => (c.moreBefore <=> Min(all) < Min(c.shown))
    /\ c.shown \ 0..(anchor - 1) # {} /\ anchor # NoAnchor => (c.moreAfter <=> Max(all) > Max(c.shown))

\* Whoever follows the cursors from page to page reads every event that is there from the
\* beginning to the end exactly once, in order, although others are recorded in between, earlier
\* ones too, and texts are shredded: for any limit and any budget that allows one event.  What is
\* shown around an event has no holes that are not said, a conversation's summary misses exactly
\* those, and neither is there for whoever may not see the conversation.  A search for a text
\* counts what it has to leave out, and following the pages of a text gives all its bytes in
\* whole characters (query/history.rs).
HistoryPages ==
  /\ question.about = "pages" =>
       LET now == [d \in DOMAIN question.h |-> IF d \in question.lost THEN [question.h[d] EXCEPT !.indexed = FALSE]
                                               ELSE question.h[d]]
       IN  /\ \A q \in HistorySearches, limit \in 1..2, budget \in 1..2 :
                ReadOnce(SubSeq(question.h, 1, question.m), now, q, limit, budget)
           /\ \A q \in HistorySearches : LeftOutIsCounted(now, q)
           /\ \A who \in {"alice", "bob"} :
                SeenOrNot(now, who, ConversationSummary(now, who, "alice", "c"),
                          HistoryContext(now, who, "alice", "c", NoAnchor, Len(now), 0))
           /\ question.lost = {} =>
                \A anchor \in {NoAnchor} \cup 0..4, before \in 0..2, after \in 0..1 :
                  ContextIsWhole(Sequences(now, "alice", "c"), anchor, before,
                                 HistoryContext(now, "alice", "alice", "c", anchor, before, after))
  /\ question.about = "content" =>
       LET total == Max(question.c)
           at[n \in 0..Cardinality(question.c)] ==
             IF n = 0 THEN 0
             ELSE IF at[n - 1] = NoAnchor THEN NoAnchor ELSE ContentPage(question.c, at[n - 1], question.length).next
           pages == {ContentPage(question.c, at[n], question.length) : n \in {m \in DOMAIN at : at[m] # NoAnchor}}
       IN  /\ at[Cardinality(question.c)] = NoAnchor
           /\ UNION {p.from..(p.to - 1) : p \in pages} = 0..(total - 1)
           /\ \A p \in pages : p.to \in question.c /\ \A o \in pages : o = p \/ o.from >= p.to \/ p.from >= o.to
=============================================================================
