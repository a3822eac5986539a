------------------------------- MODULE MCLaws -------------------------------
(* Questions for Laws: a tick is a minute, and one of 64 for the index. *)
EXTENDS Laws

Least == -1000000000

FewJulianYears == {-4, 0, 1, 1500, 1582, 1900}

Over(values) ==
  {Normalized(Range4(es, ls, ee, le)) : es \in values, ls \in values, ee \in values, le \in values}

\* Neither begins at the end of time nor ends at its beginning.
Open == {r \in Over({NegInf, 0, 1, PosInf}) :
           r.es # PosInf /\ r.ee # PosInf /\ r.ls # NegInf /\ r.es < r.le}

FewRanges == {r \in Over(0..3) : r.es < r.le} \cup Open

FewOthers == {r \in FewRanges : r.es \in {0, NegInf} /\ r.le \in {1, 3, PosInf}}

FewEvents == {r \in FewRanges : <<r.es, r.le>> \in {<<0, 3>>, <<1, 2>>, <<NegInf, 1>>, <<0, PosInf>>}}

FewWindows == {<<0, 1>>, <<1, 3>>, <<-2, 2>>, <<2, 4>>}

Valley == Uniform("valley", 7, 24, 28, 4, 5, 1)

FewCalendars == {Gregorian(540), Valley}

AroundDays(y) == DaysFromCivil(y, 2, 27)..DaysFromCivil(y, 3, 2) \cup DaysFromCivil(y, 12, 30)..DaysFromCivil(y + 1, 1, 2)

FewDays == UNION {AroundDays(y) : y \in {-1, 0, 1, 1600, 1899, 1900, 1970, 1999, 2000, 2023, 2024, 2399, 2400}} \cup -20..40

FewReferences ==
  {DaysFromCivil(2023, 12, d) * TicksPerDay + h * TicksPerHour : d \in {20, 27, 30, 31, 32, 33, 40}, h \in {0, 16}}
    \cup {DaysFromCivil(2024, m, d) * TicksPerDay : m \in {2, 3, 6, 7}, d \in {1, 15, 28, 29}}

DateOf(month, day, clock) == [NoDate EXCEPT !.month = month, !.day = day, !.clock = clock]

FewDates ==
  {DateOf(12, 31, NoClock), DateOf(2, 20, NoClock), DateOf(6, 30, At(25, 30, 1)), DateOf(1, 1, NoClock),
   DateOf(Missing, 1, NoClock), DateOf(Missing, 28, Part("late_night")), DateOf(Missing, 15, NoClock),
   DateOf(8, Missing, NoClock), DateOf(Missing, Missing, NoClock)}

FewWrittenIntervals ==
  {[start |-> st, end |-> DateOf(Missing, 12, NoClock)] :
     st \in {[DateOf(9, 1, NoClock) EXCEPT !.year = 2024], DateOf(9, 1, NoClock),
             [DateOf(Missing, 10, NoClock) EXCEPT !.monthOffset = 1],
             [DateOf(9, 10, Part("night")) EXCEPT !.yearOffset = -1]}}

Recurring(rule, clock) == [node |-> "recurring", rule |-> rule, clock |-> clock]

FewRecurrences ==
  {Recurring([freq |-> "weekly", weekday |-> 4], At(25, 30, 1)),
   Recurring([freq |-> "weekly", weekday |-> 0], At(47, 0, 60)),
   Recurring([freq |-> "monthly", day |-> 31], NoClock),
   Recurring([freq |-> "yearly", month |-> 1, day |-> 1], Part("late_night")),
   Recurring([freq |-> "daily"], At(0, 0, 1))}

Relative(anchor, least, most, unit) ==
  [node |-> "relative", anchor |-> anchor, least |-> least, most |-> most, unit |-> unit, clock |-> NoClock]

About(n) == [node |-> "approx", inner |-> n]
FromTo(m, n) == [node |-> "interval", start |-> m, end |-> n]
Between(after, before) == [node |-> "between", after |-> after, before |-> before]
Anytime == [node |-> "unknown"]

FewExpressions ==
  {<<Relative("a", -5, -2, "hour")>>, <<Relative("a", 1, 1, "day")>>,
   <<Relative("a", -1, 1, "hour"), About(1)>>,
   <<Relative("a", 0, 0, "day"), About(1), About(2)>>,
   <<Relative("a", 0, 0, "day"), Relative("b", 1, 2, "hour"), FromTo(1, 2)>>,
   <<Relative("a", 0, 0, "day"), About(1), Relative("b", 0, 0, "day"), About(3), FromTo(2, 4)>>,
   <<Relative("a", 0, 0, "day"), Relative("b", 0, 0, "day"), FromTo(1, 2), About(3)>>,
   <<Anytime, Relative("b", 0, 0, "day"), FromTo(1, 2)>>,
   <<Dated([NoDate EXCEPT !.year = 1969]), Relative("b", 0, 0, "day"), FromTo(1, 2)>>,
   <<Between(<<"a">>, <<"b">>)>>, <<Between(<<"a", "b">>, <<>>)>>, <<Between(<<>>, <<"b", "a">>), About(1)>>}

-----------------------------------------------------------------------------

FewTicks == {-32, -31, -17, -16, -9, -1, 0, 1, 7, 8, 15, 16, 30, 31}
FewSpans == {w \in FewTicks \X FewTicks : w[1] < w[2]}
FewEarlierSpans == {<<-16, -15>>, <<-9, 14>>}

\* A map of the earth, its image turned by a right angle, a dream that has no place on it, a stage
\* that is turned by half of one, and its mirrored wing.
FewFrames ==
  [earth |-> Frame(NoFrame, NoTransform), map |-> Frame("earth", Affine(2, 0, 0, 2, -3, 1)),
   mirror |-> Frame("map", Affine(0, -1, 1, 0, 4, 0)), dream |-> Frame("earth", NoTransform),
   stage |-> Frame("earth", Affine(1, -1, 1, 1, 0, 0)), wing |-> Frame("stage", Affine(-1, 0, 0, 1, 2, 0))]

In(frame, x0, x1, y0, y1) == [frame |-> frame, box |-> Box(x0, y0, x1, y1)]
FewPlacements ==
  {In(f, x[1], x[2], y[1], y[2]) :
     f \in DOMAIN FewFrames, x \in {<<-5, -5>>, <<-1, 4>>, <<3, 3>>, <<-9, 12>>}, y \in {<<0, 0>>, <<-2, 5>>, <<7, 8>>}}
FewEarlierPlacements == {In("map", 0, 1, 0, 0), In("earth", -9, 12, -2, 5), In("wing", 0, 3, 0, 1)}

Lower == [A |-> "a"]

Writable == {"a", "A", " ", "-"}
Letters(n) == UNION {[1..k -> Writable] : k \in 0..n}
FewTexts == Letters(5)
FewQueries == UNION {[1..k -> {"a", " ", "-"}] : k \in 1..3} \cup {<<"A">>, <<"A", "a">>, <<"a", "A", "a">>}

Said(seq, at, text, indexed) ==
  [owner |-> "alice", conversation |-> "c", sequence |-> seq, at |-> at, text |-> text, indexed |-> indexed, readers |-> {"alice"}]

FewHistories ==
  {[d \in 1..3 |-> Said(seqs[d], ats[d], IF d \in wanted THEN "word" ELSE "other", TRUE)] :
     seqs \in {<<1, 2, 4>>, <<2, 1, 4>>, <<4, 2, 1>>, <<1, 4, 2>>}, ats \in [1..3 -> 1..2], wanted \in SUBSET (1..3)}

\* Texts of a few characters of one to four bytes.
FewContents ==
  {{0} \cup {w[1], w[1] + w[2], w[1] + w[2] + w[3]} : w \in [1..3 -> {0, 1, 2, 4}]}
=============================================================================
