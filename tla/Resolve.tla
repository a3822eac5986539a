------------------------------ MODULE Resolve ------------------------------
(***************************************************************************)
(* Resolving a time expression (time/resolve.rs).  The expression is what    *)
(* the parser read; other events enter through a lookup, which is the engine's. *)
(* A time is [error, range, recurs, recurrence, axis].                       *)
(***************************************************************************)
EXTENDS Calendar, SequencesExt

NoRecurrence == [rule |-> [freq |-> "daily"], clock |-> NoClock, len |-> TicksPerDay, offset |-> 0]

Resolved(range) == [error |-> "none", range |-> range, recurs |-> FALSE, recurrence |-> NoRecurrence]
Unresolved(kind) == [Resolved(UnknownRange) EXCEPT !.error = kind]

IsResolved(t) == t.error = "none"

Window(bounds) == IF bounds = NoBounds THEN Unresolved("unsupported") ELSE Resolved(Within(bounds[1], bounds[2]))

\* approx_ticks in the calendar's own day; a month and a year are means.
ScaledUnit(cal, unit) ==
  LET ticks == CASE unit = "minute" -> TicksPerMinute
                 [] unit = "hour"   -> TicksPerHour
                 [] unit = "day"    -> TicksPerDay
                 [] unit = "week"   -> 7 * TicksPerDay
                 [] unit = "month"  -> (TicksPerHour * 2629746) \div 3600
                 [] unit = "year"   -> (TicksPerHour * 31556952) \div 3600
  IN  IF cal.kind = "gregorian" THEN ticks ELSE (ticks * DayLength(cal)) \div TicksPerDay

\* approx_fuzz: as much as the expression leaves open, half an hour at least.
ApproxFuzz(cal, width) ==
  LET hour == DayLength(cal) \div 24
  IN  CASE width = NoWidth -> 0
        [] width # NoWidth /\ width <= hour -> hour \div 2
        [] OTHER -> width

\* day_window
DayWindow(cal, first, last, clock) ==
  IF clock = NoClock THEN Resolved(Within(DayStart(cal, first), DayStart(cal, last + 1)))
  ELSE Resolved(Within(ClockBounds(cal, first, clock)[1], ClockBounds(cal, last, clock)[2]))

\* An anchor, as the lookup finds it; on another axis it cannot be compared.
Anchored(cal, found) ==
  IF IsResolved(found) /\ found.axis # cal.axis THEN [found EXCEPT !.error = "incomparable"] ELSE found

\* A date that may be off by months.
Uncertain(t) == IF IsResolved(t) THEN Resolved(Within(t.range.es, Offset(t.range.le, 60 * TicksPerDay))) ELSE t

OfDate(date, t) == IF date.uncertain THEN Uncertain(t) ELSE t

DateAst(cal, reference, ast) ==
  IF ast.date.year = Missing /\ reference = Missing THEN Unresolved("needs_reference")
  ELSE OfDate(ast.date, Window(DateBounds(cal, ast.date, reference)))

BoundsOfMonth(cal, m) == MonthBounds(cal, m.year, m.month)

\* Days, weeks, months, years: whole ones of the calendar; hours and less: from the
\* reference itself.
RelativeToDay(cal, r, c, ast, u) ==
  LET k == IF ast.unit = "week" THEN 7 ELSE 1
      months(delta) == BoundsOfMonth(cal, ShiftMonth(cal, c.year, c.month, delta))
  IN  CASE r = Missing -> Unresolved("needs_reference")
        [] r # Missing /\ cal.kind = "opaque" -> Unresolved("unsupported")
        [] r # Missing /\ cal.kind # "opaque" /\ ast.unit \in {"day", "week"} ->
             DayWindow(cal, DayOf(cal, r) + ast.least * k, DayOf(cal, r) + ast.most * k, ast.clock)
        [] r # Missing /\ cal.kind # "opaque" /\ ast.unit = "month" ->
             Resolved(Within(months(ast.least)[1], months(ast.most)[2]))
        [] r # Missing /\ cal.kind # "opaque" /\ ast.unit = "year" ->
             Resolved(Within(YearBounds(cal, c.year + ast.least)[1], YearBounds(cal, c.year + ast.most)[2]))
        [] OTHER -> Resolved(Within(Offset(r, ast.least * u), Offset(r, ast.most * u + u)))

RelativeToReference(cal, r, ast) == RelativeToDay(cal, r, CivilOf(cal, r), ast, ScaledUnit(cal, ast.unit))

RelativeToEvent(cal, anchor, ast) ==
  LET u == ScaledUnit(cal, ast.unit)
  IN  CASE ~ IsResolved(anchor) -> Unresolved(anchor.error)
        [] IsResolved(anchor) /\ cal.kind = "opaque" -> Unresolved("unsupported")
        [] OTHER -> Resolved(Shift(anchor.range, ast.least * u, ast.most * u))

\* A week, or a day of it: of the week that is asked for, or the last one until now.
DayOfWeek(cal, r, ast, d, wd, n) ==
  LET monday == d - wd + ast.weeks * n
      last == d - ((wd - ast.weekday) % n)
  IN  CASE r = Missing -> Unresolved("needs_reference")
        [] r # Missing /\ (cal.kind = "opaque" \/ n = Missing) -> Unresolved("unsupported")
        [] r # Missing /\ n # Missing /\ ast.weeks # Missing /\ ast.weekday # Missing ->
             DayWindow(cal, monday + ast.weekday, monday + ast.weekday, ast.clock)
        [] r # Missing /\ n # Missing /\ ast.weeks # Missing /\ ast.weekday = Missing ->
             DayWindow(cal, monday, monday + n - 1, NoClock)
        [] r # Missing /\ n # Missing /\ ast.weeks = Missing /\ ast.weekday # Missing ->
             DayWindow(cal, last, last, ast.clock)
        [] OTHER -> Unresolved("unsupported")

WeekdayAst(cal, r, ast) ==
  LET d == DayOf(cal, r)
  IN  DayOfWeek(cal, r, ast, d, Weekday(cal, d), DaysPerWeek(cal))

RecurringAst(cal, ast) ==
  IF cal.kind # "gregorian" THEN Unresolved("unsupported")
  ELSE [Resolved(UnknownRange) EXCEPT
          !.recurs = TRUE,
          !.recurrence = [rule |-> ast.rule, clock |-> ast.clock, offset |-> cal.offset,
                          len |-> IF ast.clock = NoClock THEN TicksPerDay ELSE ast.clock.len]]

\* The first of these times that is not resolved, if one is.
Failing(times) == {n \in DOMAIN times : ~ IsResolved(times[n])}

\* With a fault: what lies between events begins after the last end of those before.
BetweenLatest(after, before) ==
  LET all == after \o before
      lo  == Max({NegInf} \cup {after[n].range.le : n \in DOMAIN after})
      hi  == Min({PosInf} \cup {before[n].range.ls : n \in DOMAIN before})
  IN  IF Failing(all) # {} THEN Unresolved(all[Min(Failing(all))].error)
      ELSE IF lo >= hi THEN Unresolved("contradiction")
      ELSE Resolved(Within(lo, hi))

\* After some events: not before the first end of any; before others: not after the last start
\* of any.  Without events on a side it is open there.
BetweenEvents(after, before) ==
  LET all == after \o before
      lo  == Max({NegInf} \cup {after[n].range.ee : n \in DOMAIN after})
      hi  == Min({PosInf} \cup {before[n].range.ls : n \in DOMAIN before})
  IN  IF Failing(all) # {} THEN Unresolved(all[Min(Failing(all))].error)
      ELSE IF lo >= hi THEN Unresolved("contradiction")
      ELSE Resolved(Within(lo, hi))

\* An interval from somewhere in its first part to somewhere in its second.
IntervalOf(s, e) ==
  IF ~ IsResolved(s) THEN Unresolved(s.error)
  ELSE IF ~ IsResolved(e) THEN Unresolved(e.error)
  ELSE IF Finite(s.range.es) /\ Finite(e.range.le) /\ s.range.es >= e.range.le THEN Unresolved("contradiction")
  ELSE Resolved(Normalized(Range4(s.range.es, s.range.le, e.range.es, e.range.le)))

Approximately(cal, t) ==
  IF IsResolved(t) THEN [t EXCEPT !.range = Widen(@, ApproxFuzz(cal, Width(@)))] ELSE t

Anchors(cal, lookup, names) == [n \in DOMAIN names |-> Anchored(cal, lookup[names[n]])]

\* A node without parts.
SimpleAst(cal, reference, lookup, node) ==
  CASE node.node = "date"      -> DateAst(cal, reference, node)
    [] node.node = "reference" -> RelativeToReference(cal, reference, node)
    [] node.node = "relative"  -> RelativeToEvent(cal, Anchored(cal, lookup[node.anchor]), node)
    [] node.node = "weekday"   -> WeekdayAst(cal, reference, node)
    [] node.node = "recurring" -> RecurringAst(cal, node)
    [] node.node = "between"   -> BetweenEvents(Anchors(cal, lookup, node.after), Anchors(cal, lookup, node.before))
    [] node.node = "unknown"   -> Unresolved("unknown")
    [] node.node = "unparsed"  -> Unresolved("unparsed")

\* An unknown end of an interval is open.
EndOf(ast, n, times) == IF ast[n].node = "unknown" THEN Resolved(UnknownRange) ELSE times[n]

\* An expression is the sequence of its nodes, each after the nodes that it is made of and the
\* whole one last: however deep it nests.
NodeTime(cal, reference, lookup, ast, node, times) ==
  CASE node.node = "approx"   -> Approximately(cal, times[node.inner])
    [] node.node = "interval" -> IntervalOf(EndOf(ast, node.start, times), EndOf(ast, node.end, times))
    [] OTHER                  -> SimpleAst(cal, reference, lookup, node)

Times(cal, reference, lookup, ast) ==
  LET times[n \in DOMAIN ast] == NodeTime(cal, reference, lookup, ast, ast[n], [m \in 1..(n - 1) |-> times[m]])
  IN  times

\* Resolver::ast
Ast(cal, reference, lookup, ast) == Times(cal, reference, lookup, ast)[Len(ast)]

\* With a fault: the end takes the start's month, and not its year.
InheritMonthOnly(s, e) == [e EXCEPT !.month = IF @ = Missing THEN s.month ELSE @]

\* inherit_date_context (time/parse.rs): in "from the 1st of September to the 10th" the end
\* takes the year and the month of the start.
InheritDateContext(s, e) ==
  LET year  == IF e.year = Missing THEN s.year ELSE e.year
      month == IF e.month = Missing /\ e.day # Missing THEN s.month ELSE e.month
      alone == year = Missing /\ month = Missing /\ e.yearOffset = Missing /\ e.monthOffset = Missing
  IN  [e EXCEPT !.year = year, !.month = month,
                !.uncertain = @ \/ s.uncertain, !.julian = @ \/ s.julian,
                !.yearOffset  = IF alone THEN s.yearOffset ELSE @,
                !.monthOffset = IF alone THEN s.monthOffset ELSE @]

-----------------------------------------------------------------------------
(* How fine a resolved time is, by the length of the calendar's own day.     *)

GranularityOf(width) ==
  CASE width = NoWidth                  -> "unbounded"
    [] width \in 0..TicksPerMinute      -> "minute"
    [] width > TicksPerMinute /\ width <= TicksPerHour -> "hour"
    [] width > TicksPerHour /\ width <= 6 * TicksPerHour -> "part_of_day"
    [] width > 6 * TicksPerHour /\ width <= TicksPerDay -> "day"
    [] width > TicksPerDay /\ width <= 7 * TicksPerDay -> "week"
    [] width > 7 * TicksPerDay /\ width <= 31 * TicksPerDay -> "month"
    [] width > 31 * TicksPerDay /\ width <= 92 * TicksPerDay -> "season"
    [] width > 92 * TicksPerDay /\ width <= 366 * TicksPerDay -> "year"
    [] OTHER -> "decades"

\* resolve
WithGranularity(cal, t) ==
  LET width == IF t.recurs THEN t.recurrence.len ELSE Width(t.range)
  IN  [error |-> t.error, range |-> t.range, recurs |-> t.recurs, recurrence |-> t.recurrence, axis |-> cal.axis,
       granularity |-> IF width = NoWidth THEN "unbounded" ELSE GranularityOf((width * TicksPerDay) \div DayLength(cal))]

ResolvedExpression(cal, reference, lookup, ast) == WithGranularity(cal, Ast(cal, reference, lookup, ast))
=============================================================================
