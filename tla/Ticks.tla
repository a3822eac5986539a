------------------------------- MODULE Ticks -------------------------------
(***************************************************************************)
(* The time axis (time/mod.rs): ticks with two infinities, and the proleptic *)
(* Gregorian calendar as numbers of days since 1970-01-01.                  *)
(***************************************************************************)
EXTENDS Integers

CONSTANTS
  MinInt, MaxInt,   \* the least and the greatest integer of the program's type
  TicksPerHour      \* how fine the axis is

ASSUME TicksAssumption ==
  /\ MinInt \in Int /\ MaxInt \in Int /\ MinInt < 0 /\ MaxInt > 0
  /\ TicksPerHour \in Nat \ {0}

NegInf == MinInt
PosInf == MaxInt

Finite(t) == t # NegInf /\ t # PosInf

TicksPerDay == 24 * TicksPerHour

Smaller(a, b) == IF a <= b THEN a ELSE b
Larger(a, b) == IF a >= b THEN a ELSE b

\* saturating_add
Saturated(v) == Larger(MinInt, Smaller(MaxInt, v))

\* The nearest finite tick.
Clamped(v) == Larger(MinInt + 1, Smaller(MaxInt - 1, v))

\* Tick::offset: infinities stay, and a finite tick stays finite.
Offset(t, delta) == IF Finite(t) THEN Clamped(t + delta) ELSE t

LeapYear(y) == (y % 4 = 0 /\ y % 100 # 0) \/ y % 400 = 0

DaysInMonth(y, m) ==
  CASE m \in {1, 3, 5, 7, 8, 10, 12} -> 31
    [] m \in {4, 6, 9, 11}           -> 30
    [] m = 2                         -> IF LeapYear(y) THEN 29 ELSE 28
    [] OTHER                         -> 0

\* days_from_civil: the year begins in March, and 400 years make an era.
DaysFromCivil(year, m, d) ==
  LET y   == IF m <= 2 THEN year - 1 ELSE year
      era == y \div 400
      yoe == y - era * 400
      mp  == IF m > 2 THEN m - 3 ELSE m + 9
      doy == (153 * mp + 2) \div 5 + d - 1
  IN  era * 146097 + yoe * 365 + yoe \div 4 - yoe \div 100 + doy - 719468

\* With a fault: the last day of an era is taken for a day of a year after it.
YearOfEraOff(doe) == (doe - doe \div 1460 + doe \div 36524) \div 365

YearOfEra(doe) == (doe - doe \div 1460 + doe \div 36524 - doe \div 146096) \div 365

\* A day of a year that begins in March; mp months of it have passed.
CivilInMonth(y, doy, mp) ==
  [year  |-> y + (IF mp < 10 THEN 0 ELSE 1),
   month |-> IF mp < 10 THEN mp + 3 ELSE mp - 9,
   day   |-> doy - (153 * mp + 2) \div 5 + 1]

CivilInYear(y, doy) == CivilInMonth(y, doy, (5 * doy + 2) \div 153)

CivilInEra(era, doe, yoe) == CivilInYear(yoe + era * 400, doe - (365 * yoe + yoe \div 4 - yoe \div 100))

CivilFromDays(days) ==
  LET z == days + 719468
  IN  CivilInEra(z \div 146097, z % 146097, YearOfEra(z % 146097))

\* 0 is Monday; 1970-01-01 was a Thursday.
WeekdayFromDays(days) == (days + 3) % 7
=============================================================================
