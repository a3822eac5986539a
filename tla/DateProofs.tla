----------------------------- MODULE DateProofs -----------------------------
(***************************************************************************)
(* Theorems about dates and the times that expressions refer to: months,     *)
(* years and weekdays counted from a reference, times of events that are     *)
(* known more or less well, intervals written as two dates, and dates        *)
(* without a year, in any calendar that days can be counted in.              *)
(***************************************************************************)
EXTENDS LawsProofs

(* From dates to days and back.                                             *)

\* The months of a year that begins in March begin one after another.
LEMMA MonthStarts ==
  /\ \A mp \in 0..12 : MonthStart(mp) \in Int
  /\ \A mp \in 0..11, r \in Int : MonthStart(mp) <= r /\ r < MonthStart(mp + 1) => MonthAt(r) = mp
  /\ MonthStart(11) = 337 /\ MonthStart(12) = 367 /\ \A mp \in 0..11 : MonthStart(mp) >= 0
<1>1. \A mp \in 0..12 : MonthStart(mp) \in Int
  BY SMT DEF MonthStart
<1>2. \A mp \in 0..11, r \in Int : MonthStart(mp) <= r /\ r < MonthStart(mp + 1) => MonthAt(r) = mp
  BY SMT DEF MonthStart, MonthAt
<1>3. MonthStart(11) = 337 /\ MonthStart(12) = 367 /\ \A mp \in 0..11 : MonthStart(mp) >= 0
  BY SMT DEF MonthStart
<1> QED
  BY <1>1, <1>2, <1>3

\* The year from March on that a date is in, and its month there.
MarchYear(y, m) == IF m <= 2 THEN y - 1 ELSE y
MarchMonth(m) == IF m <= 2 THEN m + 9 ELSE m - 3

\* A date's place.
LEMMA PlaceOfDate ==
  ASSUME NEW y \in Int, NEW m \in 1..12, NEW d \in 1..DaysInMonth(y, m)
  PROVE  LET r == MonthStart(MarchMonth(m)) + d - 1
         IN  /\ r \in Int /\ MonthAt(r) = MarchMonth(m)
             /\ \E era \in Int : \E c, p, t : InEra(c, p, t, r) /\ MarchYear(y, m) = YearAt(era, c, p, t)
<1> DEFINE mp == MarchMonth(m)
           v == MarchYear(y, m)
           len == DaysInMonth(y, m)
           r == MonthStart(mp) + d - 1
<1>1. mp \in 0..11 /\ v \in Int
  BY SMT DEF MarchMonth, MarchYear
<1>2. PICK era, c, p, t : /\ era \in Int /\ c \in 0..3 /\ p \in 0..24 /\ t \in 0..3
                          /\ v = YearAt(era, c, p, t)
  <2>1. PICK e \in Int, yoe \in 0..399 : v = 400 * e + yoe
    <3>1. v \div 400 \in Int /\ v % 400 \in 0..399 /\ v = 400 * (v \div 400) + (v % 400)
      BY SMT, <1>1
    <3> QED
      BY <3>1
  <2>2. PICK c \in 0..3, x \in 0..99 : yoe = 100 * c + x
    <3>1. yoe \div 100 \in 0..3 /\ yoe % 100 \in 0..99 /\ yoe = 100 * (yoe \div 100) + (yoe % 100)
      BY SMT
    <3> QED
      BY <3>1
  <2>3. PICK p \in 0..24, t \in 0..3 : x = 4 * p + t
    <3>1. x \div 4 \in 0..24 /\ x % 4 \in 0..3 /\ x = 4 * (x \div 4) + (x % 4)
      BY SMT
    <3> QED
      BY <3>1
  <2> HIDE DEF v
  <2>4. v = YearAt(e, c, p, t)
    BY <2>1, <2>2, <2>3 DEF YearAt, YearInEra
  <2> QED
    BY <2>4
<1>3. CASE mp \in 0..10
  <2>1. m = IF mp < 10 THEN mp + 3 ELSE mp - 9
    BY SMT, <1>3 DEF MarchMonth
  <2>2. len = MonthStart(mp + 1) - MonthStart(mp)
    BY <1>3, <2>1, MonthLengths
  <2>3. MonthStart(mp) \in Int /\ MonthStart(mp + 1) \in Int /\ 0 <= MonthStart(mp) /\ MonthStart(mp + 1) <= 337
    BY SMT, <1>3 DEF MonthStart
  <2>4. d \in Int /\ 1 <= d /\ d <= len
    BY <2>2, <2>3
  <2>5. r \in Int /\ MonthStart(mp) <= r /\ r < MonthStart(mp + 1) /\ 0 <= r /\ r < 365
    BY <2>2, <2>3, <2>4
  <2>6. MonthAt(r) = mp
    BY <1>1, <2>5, MonthStarts
  <2>7. InEra(c, p, t, r)
    BY <1>2, <2>5 DEF InEra
  <2> QED
    BY <1>2, <2>5, <2>6, <2>7
<1>4. CASE mp = 11
  <2>1. m = 2 /\ v = y - 1
    BY SMT, <1>4 DEF MarchMonth, MarchYear
  <2>2. len = IF LeapYear(y) THEN 29 ELSE 28
    BY <2>1 DEF DaysInMonth
  <2>3. v + 1 = y
    BY <2>1
  <2>4. LeapYear(y) <=> t = 3 /\ (p # 24 \/ c = 3)
    BY <1>2, <2>3, LeapPlace
  <2>5. d \in Int /\ 1 <= d /\ d <= 29 /\ (d = 29 => LeapYear(y))
    BY <2>2
  <2>6. r = 336 + d
    BY <1>4, <2>5, MonthStarts
  <2>7. r \in Int /\ 337 <= r /\ r <= 365 /\ (r = 365 => LeapYear(y))
    BY <2>5, <2>6
  <2>8. MonthAt(r) = mp
    BY <1>1, <1>4, <2>7, MonthStarts
  <2>9. InEra(c, p, t, r)
    BY <1>2, <2>4, <2>7 DEF InEra
  <2> QED
    BY <1>2, <2>7, <2>8, <2>9
<1> QED
  BY <1>1, <1>3, <1>4

\* A date of the Gregorian calendar leads to a day that has this date.
LEMMA DateAgain ==
  ASSUME NEW y \in Int, NEW m \in 1..12, NEW d \in 1..DaysInMonth(y, m)
  PROVE  DaysFromCivil(y, m, d) \in Int /\ CivilFromDays(DaysFromCivil(y, m, d)) = TheDate(y, m, d)
<1> DEFINE mp == MarchMonth(m)
           v == MarchYear(y, m)
           r == MonthStart(mp) + d - 1
<1>1. mp \in 0..11 /\ v \in Int /\ d \in Int /\ MonthStart(mp) \in Int
  <2>1. mp \in 0..11 /\ v \in Int
    BY SMT DEF MarchMonth, MarchYear
  <2> QED
    BY <2>1, MonthStarts
<1>2. r \in Int /\ MonthAt(r) = mp
  BY PlaceOfDate
<1>3. PICK era \in Int : \E c, p, t : InEra(c, p, t, r) /\ v = YearAt(era, c, p, t)
  BY PlaceOfDate
<1>4. PICK c, p, t : InEra(c, p, t, r) /\ v = YearAt(era, c, p, t)
  BY <1>3
<1>5. 0 <= r /\ r <= 365 /\ c \in 0..3 /\ p \in 0..24 /\ t \in 0..3
  BY <1>4 DEF InEra
<1>6. CivilInYear(v, r) = DateIn(v, r, mp)
  BY <1>1, <1>2, <1>5, DateInYear
<1>7. DateIn(v, r, mp) = TheDate(y, m, d)
  <2> HIDE DEF r
  <2>1. r - MonthStart(mp) + 1 = d
    BY <1>1 DEF r
  <2>2. (IF mp < 10 THEN v ELSE v + 1) = y
    BY SMT DEF MarchMonth, MarchYear
  <2>3. (IF mp < 10 THEN mp + 3 ELSE mp - 9) = m
    BY SMT DEF MarchMonth
  <2> QED
    BY <2>1, <2>2, <2>3 DEF DateIn, TheDate
<1>8. TheDate(y, m, d).year = y /\ TheDate(y, m, d).month = m /\ TheDate(y, m, d).day = d
  BY DEF TheDate
<1>9. DaysFromCivil(y, m, d) = DayAt(era, c, p, t, r)
  BY <1>4, <1>6, <1>7, <1>8, DayOfPlace
<1>10. DayAt(era, c, p, t, r) \in Int
  BY <1>2, <1>5 DEF DayAt, DayOfEra
<1>11. CivilFromDays(DaysFromCivil(y, m, d)) = CivilInYear(v, r)
  BY <1>4, <1>9, <1>10, CivilOfPlace
<1> QED
  BY <1>6, <1>7, <1>9, <1>10, <1>11

\* The number of days of a month, and of months of a year.
LEMMA LengthsAre ==
  ASSUME NEW cal, Countable(cal), NEW y \in Int, NEW m \in 1..MonthsPerYear(cal)
  PROVE  MonthsPerYear(cal) \in Nat \ {0} /\ MonthLength(cal, y, m) \in Nat \ {0}
<1>1. CASE cal.kind = "gregorian"
  <2>1. MonthsPerYear(cal) = 12 /\ MonthLength(cal, y, m) = DaysInMonth(y, m)
    BY <1>1 DEF MonthsPerYear, MonthLength
  <2>2. m \in {1, 2, 3, 4, 5, 6, 7, 8, 9, 10, 11, 12}
    BY SMT, <2>1
  <2>3. DaysInMonth(y, m) \in {28, 29, 30, 31}
    BY <2>2 DEF DaysInMonth
  <2> QED
    BY <2>1, <2>3
<1>2. CASE cal.kind # "gregorian"
  BY <1>2 DEF MonthsPerYear, MonthLength, Countable
<1> QED
  BY <1>1, <1>2

\* A date that a calendar has leads to a day that has this date.
LEMMA DateOfItsDay ==
  ASSUME NEW cal, Countable(cal), NEW y \in Int, NEW m \in 1..MonthsPerYear(cal), NEW d \in 1..MonthLength(cal, y, m)
  PROVE  /\ DayFromCivil(cal, y, m, d) \in Int
         /\ CivilOfDay(cal, DayFromCivil(cal, y, m, d)) = TheDate(y, m, d)
<1>1. CASE cal.kind = "gregorian"
  <2>1. MonthsPerYear(cal) = 12 /\ MonthLength(cal, y, m) = DaysInMonth(y, m)
    BY <1>1 DEF MonthsPerYear, MonthLength
  <2>2. m \in 1..12 /\ d \in 1..DaysInMonth(y, m)
    BY <2>1
  <2>3. DayFromCivil(cal, y, m, d) = DaysFromCivil(y, m, d)
    BY <1>1 DEF DayFromCivil
  <2>4. \A n : CivilOfDay(cal, n) = CivilFromDays(n)
    BY <1>1 DEF CivilOfDay
  <2> QED
    BY <2>2, <2>3, <2>4, DateAgain
<1>2. CASE cal.kind # "gregorian"
  <2>1. /\ cal.kind = "uniform" /\ cal.first \in Int
        /\ cal.perMonth \in Nat \ {0} /\ cal.perYear \in Nat \ {0}
    BY <1>2 DEF Countable
  <2>2. MonthsPerYear(cal) = cal.perYear /\ MonthLength(cal, y, m) = cal.perMonth
    BY <1>2 DEF MonthsPerYear, MonthLength
  <2>3. PICK q \in Int, a \in 0..cal.perYear - 1, b \in 0..cal.perMonth - 1 : q + cal.first = y /\ a + 1 = m /\ b + 1 = d
    <3>1. y - cal.first \in Int /\ m - 1 \in 0..cal.perYear - 1 /\ d - 1 \in 0..cal.perMonth - 1
      BY <2>1, <2>2
    <3>2. (y - cal.first) + cal.first = y /\ (m - 1) + 1 = m /\ (d - 1) + 1 = d
      BY <2>1, <2>2
    <3> QED
      BY <3>1, <3>2
  <2>4. PICK n : n = DayOfPlan(cal.perMonth, cal.perYear, q, a, b)
    OBVIOUS
  <2>5. n \in Int
    BY <2>1, <2>3, <2>4 DEF DayOfPlan
  <2>6. CivilOfDay(cal, n) = TheDate(y, m, d) /\ DayFromCivil(cal, y, m, d) = n
    BY <2>1, <2>3, <2>4, UniformDate
  <2> QED
    BY <2>5, <2>6
<1> QED
  BY <1>1, <1>2

\* Days of a month follow each other.
LEMMA DayInMonth ==
  ASSUME NEW cal, Countable(cal), NEW y \in Int, NEW m \in 1..MonthsPerYear(cal), NEW d \in Int
  PROVE  DayFromCivil(cal, y, m, d) = DayFromCivil(cal, y, m, 1) + d - 1
<1>1. CASE cal.kind = "gregorian"
  <2>1. MonthsPerYear(cal) = 12 /\ \A k : DayFromCivil(cal, y, m, k) = DaysFromCivil(y, m, k)
    BY <1>1 DEF DayFromCivil, MonthsPerYear
  <2>2. m \in 1..12
    BY <2>1
  <2>3. DaysFromCivil(y, m, d) = DaysFromCivil(y, m, 1) + d - 1
    <3>1. PICK v \in Int : v = IF m <= 2 THEN y - 1 ELSE y
      BY <2>2
    <3>2. PICK mp \in Int : mp = IF m > 2 THEN m - 3 ELSE m + 9
      BY <2>2
    <3>3. PICK e \in Int : e = v \div 400
      BY <3>1
    <3>4. PICK x \in Int : x = (153 * mp + 2) \div 5
      BY <3>2
    <3>5. PICK yoe \in Int : yoe = v - e * 400
      OBVIOUS
    <3>6. PICK u \in Int, w \in Int : u = yoe \div 4 /\ w = yoe \div 100
      BY <3>5
    <3>7. \A k \in Int : DaysFromCivil(y, m, k) = e * 146097 + yoe * 365 + u - w + (x + k - 1) - 719468
      BY <3>1, <3>2, <3>3, <3>4, <3>5, <3>6 DEF DaysFromCivil
    <3>8. 1 \in Int
      OBVIOUS
    <3> QED
      BY <3>7, <3>8
  <2> QED
    BY <2>1, <2>3
<1>2. CASE cal.kind # "gregorian"
  <2>1. /\ cal.kind = "uniform" /\ cal.first \in Int
        /\ cal.perMonth \in Nat \ {0} /\ cal.perYear \in Nat \ {0} /\ MonthsPerYear(cal) = cal.perYear
    BY <1>2 DEF Countable, MonthsPerYear
  <2>2. PICK x \in Int : x = ((y - cal.first) * cal.perYear + m - 1) * cal.perMonth
    BY <2>1
  <2>3. \A k \in Int : DayFromCivil(cal, y, m, k) = x + k - 1
    BY <1>2, <2>2 DEF DayFromCivil
  <2>4. 1 \in Int
    OBVIOUS
  <2> QED
    BY <2>2, <2>3, <2>4
<1> QED
  BY <1>1, <1>2

\* The month after a month.
TheMonth(y, m) == [year |-> y, month |-> m]

\* The first day of a month comes after the last one of the month before.
LEMMA MonthAfter ==
  ASSUME NEW cal, Countable(cal), NEW y \in Int, NEW m \in 1..MonthsPerYear(cal)
  PROVE  LET next == NextMonth(TheMonth(y, m), MonthsPerYear(cal))
         IN  /\ next.year \in Int /\ next.month \in 1..MonthsPerYear(cal)
             /\ DayFromCivil(cal, y, m, 1) + MonthLength(cal, y, m) = DayFromCivil(cal, next.year, next.month, 1)
<1> DEFINE N == MonthsPerYear(cal)
           len == MonthLength(cal, y, m)
<1>1. N \in Nat \ {0} /\ len \in Nat \ {0}
  BY LengthsAre
<1>2. len \in 1..len /\ 1 \in 1..len
  BY <1>1
<1>3. PICK n : n = DayFromCivil(cal, y, m, len)
  OBVIOUS
<1>4. n \in Int /\ CivilOfDay(cal, n) = TheDate(y, m, len)
  BY <1>2, <1>3, DateOfItsDay
<1>5. TheDate(y, m, len).year = y /\ TheDate(y, m, len).month = m
  BY DEF TheDate
<1>6. CivilOfDay(cal, n + 1) = NextDate(TheDate(y, m, len), len, N)
  BY <1>4, <1>5, DaysOfCalendar
<1>7. \A u, v, w : TheDate(u, v, w).year = u /\ TheDate(u, v, w).month = v /\ TheDate(u, v, w).day = w
  BY DEF TheDate
<1>8. \A u, v : CivilOfDay(cal, n + 1) = TheDate(u, v, 1) => DayFromCivil(cal, u, v, 1) = n + 1
  <2>1. n + 1 \in Int
    BY <1>4
  <2> QED
    BY <1>7, <2>1, DaysOfCalendar
<1>9. n + 1 = DayFromCivil(cal, y, m, 1) + len
  <2>1. DayFromCivil(cal, y, m, 1) \in Int
    BY <1>2, DateOfItsDay
  <2>2. n = DayFromCivil(cal, y, m, 1) + len - 1
    BY <1>1, <1>3, DayInMonth
  <2> QED
    BY <1>1, <2>1, <2>2
<1>10. TheMonth(y, m).year = y /\ TheMonth(y, m).month = m
  BY DEF TheMonth
<1>11. m \in Int /\ len \in Int /\ N \in Int /\ 1 <= m /\ m <= N
  BY <1>1
<1> HIDE DEF N, len
<1>12. CASE m < N
  <2>1. NextMonth(TheMonth(y, m), N) = TheMonth(y, m + 1)
    <3>1. [TheMonth(y, m) EXCEPT !.month = @ + 1] = TheMonth(y, m + 1)
      BY DEF TheMonth
    <3> QED
      BY <1>10, <1>12, <3>1 DEF NextMonth
  <2>2. TheMonth(y, m + 1).year = y /\ TheMonth(y, m + 1).month = m + 1
    BY DEF TheMonth
  <2>3. NextDate(TheDate(y, m, len), len, N) = TheDate(y, m + 1, 1)
    BY <1>11, <1>12, NextDateIs
  <2>4. DayFromCivil(cal, y, m + 1, 1) = n + 1
    BY <1>6, <1>8, <2>3
  <2>5. m + 1 \in 1..N
    BY <1>11, <1>12
  <2> QED
    BY <1>9, <2>1, <2>2, <2>4, <2>5 DEF N, len
<1>13. CASE m = N
  <2>1. NextMonth(TheMonth(y, m), N) = TheMonth(y + 1, 1)
    BY <1>10, <1>11, <1>13 DEF NextMonth, TheMonth
  <2>2. TheMonth(y + 1, 1).year = y + 1 /\ TheMonth(y + 1, 1).month = 1
    BY DEF TheMonth
  <2>3. NextDate(TheDate(y, m, len), len, N) = TheDate(y + 1, 1, 1)
    BY <1>11, <1>13, NextDateIs
  <2>4. DayFromCivil(cal, y + 1, 1, 1) = n + 1
    BY <1>6, <1>8, <2>3
  <2>5. 1 \in 1..N /\ y + 1 \in Int
    BY <1>11, <1>13
  <2> QED
    BY <1>9, <2>1, <2>2, <2>4, <2>5 DEF N, len
<1> QED
  BY <1>11, <1>12, <1>13

-----------------------------------------------------------------------------
(* Months.                                                                  *)

\* The k-th month of the year z is delta months after the m-th of the year y.
IsMonthsOn(cal, y, m, delta, z, k) == z * MonthsPerYear(cal) + k - 1 = y * MonthsPerYear(cal) + m - 1 + delta

\* There is one month at a distance from a month.
LEMMA ShiftIs ==
  ASSUME NEW cal, MonthsPerYear(cal) \in Nat \ {0}, NEW y \in Int, NEW m \in Int, NEW delta \in Int,
         NEW z \in Int, NEW k \in 1..MonthsPerYear(cal),
         IsMonthsOn(cal, y, m, delta, z, k)
  PROVE  ShiftMonth(cal, y, m, delta) = TheMonth(z, k)
<1> DEFINE N == MonthsPerYear(cal)
<1>1. N \in Nat \ {0} /\ k - 1 \in 0..N - 1 /\ k \in Int
  OBVIOUS
<1>2. PICK i \in Int : i = y * N + m - 1 + delta
  BY <1>1
<1>3. i = N * z + (k - 1)
  <2> HIDE DEF N
  <2>1. PICK w \in Int : w = z * N /\ w = N * z
    BY <1>1
  <2>2. i = w + k - 1
    BY <1>2, <2>1 DEF N, IsMonthsOn
  <2>3. i = w + (k - 1)
    BY <1>1, <2>1, <2>2
  <2> QED
    BY <2>1, <2>3
<1>4. ShiftMonth(cal, y, m, delta) = TheMonth(i \div N, (i % N) + 1)
  BY <1>2 DEF ShiftMonth, TheMonth
<1> HIDE DEF N
<1>5. i \div N = z /\ i % N = k - 1
  BY <1>1, <1>3, DividedOnce
<1>6. (i % N) + 1 = k
  BY <1>1, <1>5
<1> QED
  BY <1>4, <1>5, <1>6

\* Every month at a distance is one of a year.
LEMMA ShiftExists ==
  ASSUME NEW cal, MonthsPerYear(cal) \in Nat \ {0}, NEW y \in Int, NEW m \in Int, NEW delta \in Int
  PROVE  \E z \in Int, k \in 1..MonthsPerYear(cal) : IsMonthsOn(cal, y, m, delta, z, k)
<1> DEFINE N == MonthsPerYear(cal)
<1>1. N \in Nat \ {0}
  OBVIOUS
<1>2. PICK i \in Int : i = y * N + m - 1 + delta
  BY <1>1
<1> HIDE DEF N
<1>3. i \div N \in Int /\ i % N \in 0..N - 1 /\ i = N * (i \div N) + (i % N)
  BY <1>1, Divided
<1>4. PICK z, x : z = i \div N /\ x = i % N
  OBVIOUS
<1>5. z \in Int /\ x \in 0..N - 1 /\ i = N * z + x
  BY <1>3, <1>4
<1>6. z * N = N * z /\ N * z \in Int
  BY <1>1, <1>5
<1>7. x + 1 \in 1..N /\ z * N + (x + 1) - 1 = i
  BY <1>1, <1>5, <1>6
<1>8. PICK k : k = x + 1
  OBVIOUS
<1>9. k \in 1..N /\ IsMonthsOn(cal, y, m, delta, z, k)
  BY <1>2, <1>7, <1>8 DEF N, IsMonthsOn
<1> QED
  BY <1>5, <1>9 DEF N

\* A month on, and a month back.
LEMMA ShiftSteps ==
  ASSUME NEW cal, MonthsPerYear(cal) \in Nat \ {0}, NEW y \in Int, NEW m \in 1..MonthsPerYear(cal), NEW delta \in Int
  PROVE  /\ ShiftMonth(cal, y, m, 0) = TheMonth(y, m)
         /\ NextMonth(ShiftMonth(cal, y, m, delta), MonthsPerYear(cal)) = ShiftMonth(cal, y, m, delta + 1)
         /\ MonthBefore(ShiftMonth(cal, y, m, delta), MonthsPerYear(cal)) = ShiftMonth(cal, y, m, delta - 1)
<1> DEFINE N == MonthsPerYear(cal)
<1>1. N \in Nat \ {0} /\ m \in Int /\ 1 \in 1..N /\ N \in 1..N
  OBVIOUS
<1>2. PICK z \in Int, k \in 1..N : IsMonthsOn(cal, y, m, delta, z, k)
  BY <1>1, ShiftExists
<1>3. ShiftMonth(cal, y, m, delta) = TheMonth(z, k)
  BY <1>1, <1>2, ShiftIs
<1>4. ShiftMonth(cal, y, m, 0) = TheMonth(y, m)
  <2>1. IsMonthsOn(cal, y, m, 0, y, m) /\ 0 \in Int
    <3>1. PICK w \in Int : w = y * N
      BY <1>1
    <3>2. w + m - 1 = w + m - 1 + 0
      BY <1>1, <3>1
    <3> QED
      BY <3>1, <3>2 DEF IsMonthsOn
  <2> QED
    BY <1>1, <2>1, ShiftIs
<1>5. \A u, v : TheMonth(u, v).year = u /\ TheMonth(u, v).month = v /\ \A w : [TheMonth(u, v) EXCEPT !.month = w] = TheMonth(u, w)
  BY DEF TheMonth
<1>6. k \in Int /\ 1 <= k /\ k <= N
  BY <1>1, <1>2
<1>7. z * N \in Int /\ y * N \in Int /\ (z + 1) * N = z * N + N /\ (z - 1) * N = z * N - N
  BY <1>1, <1>2
<1>8. PICK u, w : u = z * N /\ w = y * N
  OBVIOUS
<1>9. u \in Int /\ w \in Int /\ u + k - 1 = w + m - 1 + delta /\ (z + 1) * N = u + N /\ (z - 1) * N = u - N
  BY <1>2, <1>7, <1>8 DEF IsMonthsOn
<1>10. NextMonth(TheMonth(z, k), N) = ShiftMonth(cal, y, m, delta + 1)
  <2>1. CASE k < N
    <3>1. IsMonthsOn(cal, y, m, delta + 1, z, k + 1) /\ k + 1 \in 1..N /\ delta + 1 \in Int
      <4> HIDE DEF N
      <4>1. u + (k + 1) - 1 = w + m - 1 + (delta + 1) /\ k + 1 \in 1..N
        BY <1>1, <1>6, <1>9, <2>1
      <4> QED
        BY <1>8, <4>1 DEF N, IsMonthsOn
    <3>2. ShiftMonth(cal, y, m, delta + 1) = TheMonth(z, k + 1)
      BY <1>1, <3>1, ShiftIs
    <3>3. NextMonth(TheMonth(z, k), N) = TheMonth(z, k + 1)
      BY <1>5, <2>1 DEF NextMonth
    <3> QED
      BY <3>2, <3>3
  <2>2. CASE k = N
    <3>1. IsMonthsOn(cal, y, m, delta + 1, z + 1, 1) /\ z + 1 \in Int /\ delta + 1 \in Int
      <4> HIDE DEF N
      <4>1. (z + 1) * N + 1 - 1 = w + m - 1 + (delta + 1)
        BY <1>1, <1>6, <1>9, <2>2
      <4> QED
        BY <1>8, <4>1 DEF N, IsMonthsOn
    <3>2. ShiftMonth(cal, y, m, delta + 1) = TheMonth(z + 1, 1)
      BY <1>1, <3>1, ShiftIs
    <3>3. NextMonth(TheMonth(z, k), N) = TheMonth(z + 1, 1)
      <4>1. ~ (k < N)
        BY <1>6, <2>2
      <4> QED
        BY <1>5, <4>1 DEF NextMonth, TheMonth
    <3> QED
      BY <3>2, <3>3
  <2> QED
    BY <1>1, <1>6, <2>1, <2>2
<1>11. MonthBefore(TheMonth(z, k), N) = ShiftMonth(cal, y, m, delta - 1)
  <2>1. CASE k > 1
    <3>1. IsMonthsOn(cal, y, m, delta - 1, z, k - 1) /\ k - 1 \in 1..N /\ delta - 1 \in Int
      <4> HIDE DEF N
      <4>1. u + (k - 1) - 1 = w + m - 1 + (delta - 1) /\ k - 1 \in 1..N
        BY <1>1, <1>6, <1>9, <2>1
      <4> QED
        BY <1>8, <4>1 DEF N, IsMonthsOn
    <3>2. ShiftMonth(cal, y, m, delta - 1) = TheMonth(z, k - 1)
      BY <1>1, <3>1, ShiftIs
    <3>3. MonthBefore(TheMonth(z, k), N) = TheMonth(z, k - 1)
      BY <1>5, <2>1 DEF MonthBefore
    <3> QED
      BY <3>2, <3>3
  <2>2. CASE k = 1
    <3>1. IsMonthsOn(cal, y, m, delta - 1, z - 1, N) /\ z - 1 \in Int /\ delta - 1 \in Int
      <4> HIDE DEF N
      <4>1. (z - 1) * N + N - 1 = w + m - 1 + (delta - 1)
        BY <1>1, <1>6, <1>9, <2>2
      <4> QED
        BY <1>8, <4>1 DEF N, IsMonthsOn
    <3>2. ShiftMonth(cal, y, m, delta - 1) = TheMonth(z - 1, N)
      BY <1>1, <3>1, ShiftIs
    <3>3. MonthBefore(TheMonth(z, k), N) = TheMonth(z - 1, N)
      <4>1. ~ (k > 1)
        BY <1>6, <2>2
      <4> QED
        BY <1>5, <4>1 DEF MonthBefore, TheMonth
    <3> QED
      BY <3>2, <3>3
  <2> QED
    BY <1>1, <1>6, <2>1, <2>2
<1> QED
  BY <1>3, <1>4, <1>10, <1>11

\* The month that many months on, in a year that is at most so many years away.
ShiftsTo(cal, y, m, delta, most, z, k) ==
  /\ z \in Int /\ z - y <= most /\ y - z <= most
  /\ ShiftMonth(cal, y, m, delta) = TheMonth(z, k)

\* A month at a distance is at most as many years away as months.
LEMMA ShiftNear ==
  ASSUME NEW cal, MonthsPerYear(cal) \in Nat \ {0}, NEW y \in Int, NEW m \in 1..MonthsPerYear(cal),
         NEW most \in Nat, NEW delta \in Int, delta <= most, 0 - delta <= most
  PROVE  \E z \in Int, k \in 1..MonthsPerYear(cal) : ShiftsTo(cal, y, m, delta, most, z, k)
<1> DEFINE N == MonthsPerYear(cal)
<1>1. N \in Nat \ {0} /\ m \in Int /\ 1 <= m /\ m <= N /\ delta \in Int /\ -most <= delta /\ delta <= most
  OBVIOUS
<1>2. PICK z \in Int, k \in 1..N : IsMonthsOn(cal, y, m, delta, z, k)
  BY <1>1, ShiftExists
<1>3. ShiftMonth(cal, y, m, delta) = TheMonth(z, k)
  BY <1>1, <1>2, ShiftIs
<1>4. k \in Int /\ 1 <= k /\ k <= N
  BY <1>1, <1>2
<1> HIDE DEF N
<1>5. PICK x \in Int : z = y + x
  <2>1. z = y + (z - y) /\ z - y \in Int
    OBVIOUS
  <2> QED
    BY <2>1
<1>6. x * N \in Int /\ z * N = y * N + x * N /\ y * N \in Int
  BY <1>1, <1>5
<1>7. x * N = m - k + delta
  <2>1. PICK u \in Int, w \in Int : u = y * N /\ w = x * N
    BY <1>6
  <2>2. u + w + k - 1 = u + m - 1 + delta
    BY <1>2, <1>6, <2>1 DEF N, IsMonthsOn
  <2> QED
    BY <1>1, <1>4, <2>1, <2>2
<1>8. x <= most
  <2> SUFFICES ASSUME x >= most + 1 PROVE FALSE
    BY <1>5
  <2>1. PICK u \in Nat : x = most + 1 + u
    <3>1. x = most + 1 + (x - most - 1) /\ x - most - 1 \in Nat
      BY <1>5
    <3> QED
      BY <3>1
  <2>2. x * N = most * N + N + u * N /\ u * N \in Nat /\ most * N \in Nat
    BY <1>1, <2>1
  <2>3. most * N >= most
    BY <1>1
  <2> QED
    BY <1>1, <1>4, <1>7, <2>2, <2>3
<1>9. -most <= x
  <2> SUFFICES ASSUME x <= -most - 1 PROVE FALSE
    BY <1>5
  <2>1. PICK u \in Nat : x = -most - 1 - u
    <3>1. x = -most - 1 - (-most - 1 - x) /\ -most - 1 - x \in Nat
      BY <1>5
    <3> QED
      BY <3>1
  <2>2. x * N = -(most * N) - N - u * N /\ u * N \in Nat /\ most * N \in Nat
    BY <1>1, <2>1
  <2>3. most * N >= most
    BY <1>1
  <2> QED
    BY <1>1, <1>4, <1>7, <2>2, <2>3
<1>10. z - y <= most /\ y - z <= most
  BY <1>5, <1>8, <1>9
<1>11. ShiftsTo(cal, y, m, delta, most, z, k)
  BY <1>3, <1>10 DEF ShiftsTo
<1> QED
  BY <1>11 DEF N

\* Counting month by month leads to the month at a distance.
LEMMA MonthsOnIs ==
  ASSUME NEW cal, MonthsPerYear(cal) \in Nat \ {0}, NEW c, c.year \in Int, c.month \in 1..MonthsPerYear(cal),
         NEW delta \in -MaxShift..MaxShift
  PROVE  MonthsOn(cal, c, delta) = ShiftMonth(cal, c.year, c.month, delta)
<1> DEFINE N == MonthsPerYear(cal)
           OneOn(m) == IF delta > 0 THEN NextMonth(m, N) ELSE MonthBefore(m, N)
           Body(f) == [n \in 0..MaxShift |-> IF n = 0 THEN TheMonth(c.year, c.month) ELSE OneOn(f[n - 1])]
           counted == CHOOSE f : f = Body(f)
           At0(n) == ShiftMonth(cal, c.year, c.month, IF delta > 0 THEN n ELSE 0 - n)
           g == [n \in 0..MaxShift |-> At0(n)]
<1>1. MaxShift \in Nat /\ delta \in Int
  BY LawsAssumption
<1>2. \A k \in Int : /\ NextMonth(ShiftMonth(cal, c.year, c.month, k), N) = ShiftMonth(cal, c.year, c.month, k + 1)
                     /\ MonthBefore(ShiftMonth(cal, c.year, c.month, k), N) = ShiftMonth(cal, c.year, c.month, k - 1)
  BY ShiftSteps
<1>3. ShiftMonth(cal, c.year, c.month, 0) = TheMonth(c.year, c.month)
  <2>1. 0 \in Int
    OBVIOUS
  <2> QED
    BY <2>1, ShiftSteps
<1>4. At0(0) = TheMonth(c.year, c.month)
  <2>1. (IF delta > 0 THEN 0 ELSE 0 - 0) = 0
    OBVIOUS
  <2> QED
    BY <1>3, <2>1
<1>5. ASSUME NEW n \in 1..MaxShift PROVE OneOn(At0(n - 1)) = At0(n)
  <2>1. CASE delta > 0
    <3>1. n - 1 \in Int /\ (n - 1) + 1 = n
      BY <1>1
    <3> QED
      BY <1>2, <2>1, <3>1
  <2>2. CASE ~ (delta > 0)
    <3>1. 0 - (n - 1) \in Int /\ (0 - (n - 1)) - 1 = 0 - n
      BY <1>1
    <3> QED
      BY <1>2, <2>2, <3>1
  <2> QED
    BY <2>1, <2>2
<1> HIDE DEF At0, OneOn
<1>6. \A f, n : n \in 0..MaxShift => Body(f)[n] = IF n = 0 THEN TheMonth(c.year, c.month) ELSE OneOn(f[n - 1])
  OBVIOUS
<1>7. \A n \in 0..MaxShift : Body(g)[n] = g[n]
  <2>1. ASSUME NEW n \in 1..MaxShift PROVE g[n - 1] = At0(n - 1) /\ g[n] = At0(n) /\ n \in 0..MaxShift /\ n # 0
    <3>1. n - 1 \in 0..MaxShift /\ n \in 0..MaxShift /\ n # 0
      BY <1>1
    <3> QED
      BY <3>1
  <2>2. 0 \in 0..MaxShift /\ g[0] = At0(0)
    BY <1>1
  <2>3. Body(g)[0] = g[0]
    BY <1>4, <1>6, <2>2
  <2>4. ASSUME NEW n \in 1..MaxShift PROVE Body(g)[n] = g[n]
    <3> HIDE DEF g, Body
    <3>1. Body(g)[n] = OneOn(g[n - 1])
      BY <1>6, <2>1
    <3> QED
      BY <1>5, <2>1, <3>1
  <2>5. \A n \in 0..MaxShift : n = 0 \/ n \in 1..MaxShift
    BY <1>1
  <2> HIDE DEF g, Body
  <2> QED
    BY <2>3, <2>4, <2>5
<1>8. g = Body(g)
  <2>1. Body(g) = [n \in 0..MaxShift |-> Body(g)[n]] /\ g = [n \in 0..MaxShift |-> g[n]]
    OBVIOUS
  <2> HIDE DEF g, Body
  <2> QED
    BY <1>7, <2>1
<1> HIDE DEF g, Body
<1>9. counted = Body(counted)
  BY <1>8
<1> HIDE DEF counted
<1>10. 0..MaxShift \subseteq {n \in 0..MaxShift : counted[n] = At0(n)}
  <2> DEFINE S == {n \in 0..MaxShift : counted[n] = At0(n)}
  <2>1. 0 \in S
    <3>1. 0 \in 0..MaxShift
      BY <1>1
    <3>2. counted[0] = TheMonth(c.year, c.month)
      BY <1>6, <1>9, <3>1
    <3> QED
      BY <1>4, <3>1, <3>2
  <2>2. ASSUME NEW n \in 1..MaxShift, n - 1 \in S PROVE n \in S
    <3>1. n \in 0..MaxShift /\ n # 0
      BY <1>1
    <3>2. counted[n] = OneOn(counted[n - 1])
      BY <1>6, <1>9, <3>1
    <3> QED
      BY <1>5, <2>2, <3>1, <3>2
  <2> HIDE DEF S
  <2>3. 0..MaxShift \subseteq S
    BY <1>1, <2>1, <2>2, InductionUpTo
  <2> QED
    BY <2>3 DEF S
<1>11. MonthsOn(cal, c, delta) = counted[IF delta < 0 THEN -delta ELSE delta]
  BY DEF MonthsOn, counted, Body, OneOn, TheMonth
<1>12. PICK k : k = IF delta < 0 THEN -delta ELSE delta
  OBVIOUS
<1>13. k \in 0..MaxShift /\ (IF delta > 0 THEN k ELSE 0 - k) = delta
  BY <1>1, <1>12
<1>14. At0(k) = ShiftMonth(cal, c.year, c.month, delta)
  BY <1>13 DEF At0
<1> QED
  BY <1>10, <1>11, <1>12, <1>13, <1>14

-----------------------------------------------------------------------------
(* Years.                                                                   *)

\* 400 years have 146097 days.
InBand(n, y) == 400 * n - 146097 * y >= -287933888 /\ 400 * n - 146097 * y <= -287640912

\* A day and the year of its date grow together.
LEMMA YearBand ==
  ASSUME NEW n \in Int
  PROVE  /\ CivilFromDays(n).year \in Int /\ CivilFromDays(n).month \in 1..12
         /\ InBand(n, CivilFromDays(n).year)
<1>1. PICK era \in Int : \E c, p, t, r : InEra(c, p, t, r) /\ n = DayAt(era, c, p, t, r)
  BY PlaceOfDay
<1>2. PICK c, p, t, r : InEra(c, p, t, r) /\ n = DayAt(era, c, p, t, r)
  BY <1>1
<1>3. c \in 0..3 /\ p \in 0..24 /\ t \in 0..3 /\ r \in Int /\ 0 <= r /\ r <= 365
  BY <1>2 DEF InEra
<1>4. PICK v : v = YearAt(era, c, p, t)
  OBVIOUS
<1>5. CivilFromDays(n) = CivilInYear(v, r) /\ v \in Int /\ v = 400 * era + 100 * c + 4 * p + t
  <2>1. v \in Int /\ v = 400 * era + 100 * c + 4 * p + t
    BY <1>3, <1>4 DEF YearAt, YearInEra
  <2>2. CivilFromDays(n) = CivilInYear(v, r)
    BY <1>2, <1>4, CivilOfPlace
  <2> QED
    BY <2>1, <2>2
<1>6. MonthAt(r) \in 0..11 /\ CivilInYear(v, r) = DateIn(v, r, MonthAt(r))
  BY <1>3, <1>5, DateInYear
<1>7. PICK mp \in 0..11 : CivilFromDays(n) = DateIn(v, r, mp)
  BY <1>5, <1>6
<1>8. PICK y : y = DateIn(v, r, mp).year
  OBVIOUS
<1>9. y \in {v, v + 1} /\ DateIn(v, r, mp).month \in 1..12
  BY SMT, <1>5, <1>8 DEF DateIn
<1>10. n = 146097 * era + 36524 * c + 1461 * p + 365 * t + r - 719468
  BY <1>2, <1>3 DEF DayAt, DayOfEra
<1>11. InBand(n, y)
  BY SMT, <1>3, <1>5, <1>9, <1>10 DEF InBand
<1> QED
  BY <1>5, <1>7, <1>8, <1>9, <1>11

\* The year begins later than the one before.
LEMMA NewYears ==
  ASSUME NEW y \in Int
  PROVE  DaysFromCivil(y, 1, 1) < DaysFromCivil(y + 1, 1, 1)
<1>1. ASSUME NEW x \in Int
      PROVE  \E f \in Int : /\ f = 365 * (x - 1) + (x - 1) \div 4 - (x - 1) \div 100 + (x - 1) \div 400
                            /\ DaysFromCivil(x, 1, 1) = f - 719162
  <2>1. PICK v \in Int, e \in Int, u \in 0..399 : v = x - 1 /\ e = v \div 400 /\ u = v - e * 400 /\ v = 400 * e + u
    <3>1. x - 1 \in Int /\ (x - 1) \div 400 \in Int
      OBVIOUS
    <3>2. PICK v \in Int, e \in Int : v = x - 1 /\ e = v \div 400
      BY <3>1
    <3>3. PICK u \in Int : u = v - e * 400
      OBVIOUS
    <3>4. u \in 0..399 /\ v = 400 * e + u
      BY <3>2, <3>3
    <3> QED
      BY <3>2, <3>3, <3>4
  <2>2. PICK a \in Int, b \in Int : a = u \div 4 /\ b = u \div 100
    OBVIOUS
  <2>3. v \div 4 = 100 * e + a /\ v \div 100 = 4 * e + b /\ v \div 400 = e
    BY <2>1, <2>2
  <2>4. DaysFromCivil(x, 1, 1) = e * 146097 + u * 365 + a - b + 306 - 719468
    <3>1. (153 * 10 + 2) \div 5 + 1 - 1 = 306
      OBVIOUS
    <3> QED
      BY <2>1, <2>2, <3>1 DEF DaysFromCivil
  <2>5. PICK f \in Int : f = 365 * v + v \div 4 - v \div 100 + v \div 400
    OBVIOUS
  <2>6. DaysFromCivil(x, 1, 1) = f - 719162
    BY <2>1, <2>2, <2>3, <2>4, <2>5
  <2> QED
    BY <2>1, <2>5, <2>6
<1>2. PICK f \in Int : f = 365 * (y - 1) + (y - 1) \div 4 - (y - 1) \div 100 + (y - 1) \div 400 /\ DaysFromCivil(y, 1, 1) = f - 719162
  BY <1>1
<1>3. PICK z \in Int : z = y + 1
  OBVIOUS
<1>4. PICK g \in Int : g = 365 * (z - 1) + (z - 1) \div 4 - (z - 1) \div 100 + (z - 1) \div 400 /\ DaysFromCivil(z, 1, 1) = g - 719162
  BY <1>1
<1>5. f < g
  BY <1>2, <1>3, <1>4
<1> QED
  BY <1>2, <1>3, <1>4, <1>5

\* A calendar whose days have a length, with what is asked about it.
Counts(cal) ==
  /\ Countable(cal)
  /\ cal.kind = "gregorian" => cal.offset \in Int
  /\ cal.kind = "uniform" => cal.epoch \in Int /\ cal.perDay \in Nat \ {0}

\* The length of its days, weeks and years.
LEMMA LengthsOf ==
  ASSUME NEW cal, Counts(cal)
  PROVE  /\ DayLength(cal) \in Nat \ {0} /\ CalOrigin(cal) \in Int
         /\ DaysPerWeek(cal) \in Nat \ {0} /\ LongYear(cal) \in Nat \ {0} /\ MonthsPerYear(cal) \in Nat \ {0}
<1>1. CASE cal.kind = "gregorian"
  <2>1. DayLength(cal) = TicksPerDay /\ CalOrigin(cal) = -cal.offset /\ DaysPerWeek(cal) = 7 /\ LongYear(cal) = 366
        /\ MonthsPerYear(cal) = 12
    BY <1>1 DEF DayLength, CalOrigin, DaysPerWeek, LongYear, MonthsPerYear
  <2> QED
    BY <1>1, <2>1, DayOfTicks DEF Counts
<1>2. CASE cal.kind # "gregorian"
  <2>1. /\ cal.kind = "uniform" /\ cal.epoch \in Int /\ cal.perDay \in Nat \ {0}
        /\ cal.perMonth \in Nat \ {0} /\ cal.perYear \in Nat \ {0} /\ cal.perWeek \in Nat \ {0}
    BY <1>2 DEF Counts, Countable
  <2>2. DayLength(cal) = cal.perDay /\ CalOrigin(cal) = cal.epoch /\ DaysPerWeek(cal) = cal.perWeek
        /\ LongYear(cal) = cal.perMonth * cal.perYear /\ MonthsPerYear(cal) = cal.perYear
    BY <1>2, <2>1 DEF DayLength, CalOrigin, DaysPerWeek, LongYear, MonthsPerYear
  <2>3. cal.perMonth * cal.perYear \in Nat \ {0}
    BY <2>1, Rows
  <2> QED
    BY <2>1, <2>2, <2>3
<1> QED
  BY <1>1, <1>2

\* What a day's date is made of.
LEMMA DateParts ==
  ASSUME NEW cal, Countable(cal), NEW n \in Int
  PROVE  /\ CivilOfDay(cal, n).year \in Int
         /\ CivilOfDay(cal, n).month \in 1..MonthsPerYear(cal)
<1>1. CASE cal.kind = "gregorian"
  <2>1. CivilOfDay(cal, n) = CivilFromDays(n) /\ MonthsPerYear(cal) = 12
    BY <1>1 DEF CivilOfDay, MonthsPerYear
  <2> QED
    BY <2>1, YearBand
<1>2. CASE cal.kind # "gregorian"
  <2>1. /\ cal.kind = "uniform" /\ cal.first \in Int
        /\ cal.perMonth \in Nat \ {0} /\ cal.perYear \in Nat \ {0} /\ MonthsPerYear(cal) = cal.perYear
    BY <1>2 DEF Countable, MonthsPerYear
  <2>2. PICK q \in Int : \E a \in 0..cal.perYear - 1 : \E b \in 0..cal.perMonth - 1 : n = DayOfPlan(cal.perMonth, cal.perYear, q, a, b)
    BY <2>1, UniformPlace
  <2>3. PICK a \in 0..cal.perYear - 1 : \E b \in 0..cal.perMonth - 1 : n = DayOfPlan(cal.perMonth, cal.perYear, q, a, b)
    BY <2>2
  <2>4. PICK b \in 0..cal.perMonth - 1 : n = DayOfPlan(cal.perMonth, cal.perYear, q, a, b)
    BY <2>3
  <2>5. CivilOfDay(cal, n) = TheDate(q + cal.first, a + 1, b + 1)
    BY <2>1, <2>4, UniformDate
  <2>6. CivilOfDay(cal, n).year = q + cal.first /\ CivilOfDay(cal, n).month = a + 1
    BY <2>5 DEF TheDate
  <2> QED
    BY <2>1, <2>6
<1> QED
  BY <1>1, <1>2

\* The days of a year of equal months.
LEMMA UniformYear ==
  ASSUME NEW cal, Countable(cal), cal.kind = "uniform", NEW n \in Int
  PROVE  /\ LongYear(cal) * (CivilOfDay(cal, n).year - cal.first) <= n
         /\ n < LongYear(cal) * (CivilOfDay(cal, n).year - cal.first) + LongYear(cal)
<1>1. cal.first \in Int /\ cal.perMonth \in Nat \ {0} /\ cal.perYear \in Nat \ {0}
  BY DEF Countable
<1>2. LongYear(cal) = cal.perMonth * cal.perYear /\ cal.perMonth * cal.perYear \in Nat \ {0}
  BY <1>1, Rows DEF LongYear
<1>3. CivilOfDay(cal, n).year = n \div (cal.perMonth * cal.perYear) + cal.first
  BY DEF CivilOfDay
<1>4. PICK L \in Nat \ {0} : L = LongYear(cal)
  BY <1>2
<1>5. n \div L \in Int /\ L * (n \div L) <= n /\ n < L * (n \div L) + L
  BY <1>4, DayIs
<1>6. PICK q \in Int : q = n \div L
  BY <1>5
<1>7. CivilOfDay(cal, n).year - cal.first = q
  BY <1>1, <1>2, <1>3, <1>4, <1>6
<1> QED
  BY <1>4, <1>5, <1>6, <1>7

\* Days whose years are some years apart.
LEMMA YearsApart ==
  ASSUME NEW cal, Countable(cal), NEW n \in Int, NEW o \in Int, NEW k \in Nat,
         CivilOfDay(cal, o).year - CivilOfDay(cal, n).year \in -k..k
  PROVE  o - n <= (k + 3) * LongYear(cal) /\ n - o <= (k + 3) * LongYear(cal)
<1>1. CASE cal.kind = "gregorian"
  <2>1. CivilOfDay(cal, n) = CivilFromDays(n) /\ CivilOfDay(cal, o) = CivilFromDays(o) /\ LongYear(cal) = 366
    BY <1>1 DEF CivilOfDay, LongYear
  <2>2. PICK y \in Int, z \in Int : y = CivilFromDays(n).year /\ z = CivilFromDays(o).year
    BY YearBand
  <2>3. InBand(n, y) /\ InBand(o, z)
    BY <2>2, YearBand
  <2>4. -k <= z - y /\ z - y <= k
    BY <2>1, <2>2
  <2>5. o - n <= (k + 3) * 366 /\ n - o <= (k + 3) * 366
    BY SMT, <2>2, <2>3, <2>4 DEF InBand
  <2> QED
    BY <2>1, <2>5
<1>2. CASE cal.kind # "gregorian"
  <2>1. cal.kind = "uniform" /\ cal.first \in Int
    BY <1>2 DEF Countable
  <2>2. PICK y \in Int, z \in Int : y = CivilOfDay(cal, n).year - cal.first /\ z = CivilOfDay(cal, o).year - cal.first
    BY <2>1, DateParts
  <2>3. PICK L \in Nat \ {0} : L = LongYear(cal)
    <3>1. cal.perMonth \in Nat \ {0} /\ cal.perYear \in Nat \ {0}
      BY <2>1 DEF Countable
    <3> QED
      BY <1>2, <3>1, Rows DEF LongYear
  <2>4. L * y <= n /\ n < L * y + L /\ L * z <= o /\ o < L * z + L
    BY <2>1, <2>2, <2>3, UniformYear
  <2>5. z - y \in -k..k
    <3>1. CivilOfDay(cal, n).year \in Int /\ CivilOfDay(cal, o).year \in Int
      BY DateParts
    <3> QED
      BY <2>1, <2>2, <3>1
  <2>6. PICK x \in Int : x = z - y /\ -k <= x /\ x <= k
    BY <2>5
  <2>7. L * z = L * y + L * x /\ L * y \in Int /\ L * x \in Int
    BY <2>3, <2>2, <2>6
  <2>8. L * x <= L * k /\ -(L * k) <= L * x /\ L * k \in Nat
    <3>1. PICK u \in Nat, v \in Nat : k = x + u /\ x = v - k
      <4>1. k - x \in Nat /\ x + k \in Nat /\ k = x + (k - x) /\ x = (x + k) - k
        BY <2>6
      <4> QED
        BY <4>1
    <3>2. L * k = L * x + L * u /\ L * x = L * v - L * k /\ L * u \in Nat /\ L * v \in Nat /\ L * k \in Nat
      BY <2>3, <2>6, <3>1
    <3> QED
      BY <2>7, <3>2
  <2>9. (k + 3) * L = L * k + 3 * L
    BY <2>3
  <2>10. o - n <= (k + 3) * L /\ n - o <= (k + 3) * L
    BY <2>3, <2>4, <2>7, <2>8, <2>9
  <2> QED
    BY <2>3, <2>10
<1> QED
  BY <1>1, <1>2

\* Every calendar's year begins later than the one before.
LEMMA LaterYear ==
  ASSUME NEW cal, Countable(cal), NEW y \in Int
  PROVE  DayFromCivil(cal, y, 1, 1) < DayFromCivil(cal, y + 1, 1, 1)
<1>1. CASE cal.kind = "gregorian"
  <2>1. \A z : DayFromCivil(cal, z, 1, 1) = DaysFromCivil(z, 1, 1)
    BY <1>1 DEF DayFromCivil
  <2> QED
    BY <2>1, NewYears
<1>2. CASE cal.kind # "gregorian"
  <2>1. /\ cal.kind = "uniform" /\ cal.first \in Int
        /\ cal.perMonth \in Nat \ {0} /\ cal.perYear \in Nat \ {0}
    BY <1>2 DEF Countable
  <2>2. PICK k \in Nat \ {0}, n \in Nat \ {0}, f \in Int : k = cal.perMonth /\ n = cal.perYear /\ f = cal.first
    BY <2>1
  <2>3. PICK x \in Int : x = (y - f) * n * k
    BY <2>2
  <2>4. n * k \in Nat \ {0}
    BY <2>2, Rows
  <2>5. (y + 1 - f) * n * k = x + n * k
    BY <2>2, <2>3
  <2>6. DayFromCivil(cal, y, 1, 1) = x /\ DayFromCivil(cal, y + 1, 1, 1) = x + n * k
    <3>1. \A z \in Int : DayFromCivil(cal, z, 1, 1) = (z - f) * n * k
      <4> SUFFICES ASSUME NEW z \in Int PROVE DayFromCivil(cal, z, 1, 1) = (z - f) * n * k
        OBVIOUS
      <4>1. DayFromCivil(cal, z, 1, 1) = ((z - f) * n + 1 - 1) * k + 1 - 1
        BY <1>2, <2>2 DEF DayFromCivil
      <4>2. PICK u \in Int : u = (z - f) * n
        BY <2>2
      <4>3. u + 1 - 1 = u
        BY <4>2
      <4>4. PICK w \in Int : w = u * k
        BY <2>2, <4>2
      <4>5. w + 1 - 1 = w
        BY <4>4
      <4> QED
        BY <4>1, <4>2, <4>3, <4>4, <4>5
    <3>2. y \in Int /\ y + 1 \in Int
      OBVIOUS
    <3> QED
      BY <2>3, <2>5, <3>1, <3>2
  <2> QED
    BY <2>3, <2>4, <2>6
<1> QED
  BY <1>1, <1>2

-----------------------------------------------------------------------------
(* Days that are counted from a reference.                                  *)

\* A day that is fewer than so many days from that of a tick.
Near(cal, r, far, n) == n \in Int /\ n - DayOf(cal, r) < far /\ DayOf(cal, r) - n < far

\* A tick that is at least so many days from both ends of time.
Inside(cal, r, far) == r \in (MinInt + far * DayLength(cal))..(MaxInt - far * DayLength(cal))

\* The day of a tick.
LEMMA DayOfIs ==
  ASSUME NEW cal, Counts(cal), NEW t \in Int
  PROVE  /\ DayOf(cal, t) \in Int
         /\ DayLength(cal) * DayOf(cal, t) \in Int
         /\ DayLength(cal) * DayOf(cal, t) <= t - CalOrigin(cal)
         /\ t - CalOrigin(cal) < DayLength(cal) * DayOf(cal, t) + DayLength(cal)
<1>1. DayLength(cal) \in Nat \ {0} /\ CalOrigin(cal) \in Int
  BY LengthsOf
<1>2. PICK x \in Int : x = t - CalOrigin(cal)
  BY <1>1
<1>3. DayOf(cal, t) = x \div DayLength(cal)
  BY <1>2 DEF DayOf
<1> QED
  BY <1>1, <1>2, <1>3, DayIs

\* A day that is near begins where it should, and that is in the day.
LEMMA NearDay ==
  ASSUME NEW cal, Counts(cal), NEW r \in Int, NEW far \in Nat, Inside(cal, r, far), NEW n, Near(cal, r, far, n)
  PROVE  /\ DayStart(cal, n) \in Int
         /\ DayStart(cal, n) = DayLength(cal) * n + CalOrigin(cal)
         /\ DayOf(cal, DayStart(cal, n)) = n
<1>1. PICK D \in Nat \ {0}, o \in Int : D = DayLength(cal) /\ o = CalOrigin(cal)
  BY LengthsOf
<1>2. PICK d \in Int : d = DayOf(cal, r)
  BY DayOfIs
<1>3. D * d \in Int /\ D * d <= r - o /\ r - o < D * d + D
  BY <1>1, <1>2, DayOfIs
<1>4. n \in Int /\ n <= d + far - 1 /\ n >= d - far + 1
  BY <1>2 DEF Near
<1>5. PICK w \in Int : w = D * n
  BY <1>1, <1>4
<1>6. w <= D * d + far * D - D /\ w >= D * d - far * D + D /\ far * D \in Nat
  <2>1. PICK u \in Nat, v \in Nat : n + u = d + far - 1 /\ n = d - far + 1 + v
    <3>1. d + far - 1 - n \in Nat /\ n - (d - far + 1) \in Nat
      BY <1>2, <1>4
    <3>2. n + (d + far - 1 - n) = d + far - 1 /\ n = d - far + 1 + (n - (d - far + 1))
      BY <1>2, <1>4
    <3> QED
      BY <3>1, <3>2
  <2>2. D * n + D * u = D * d + D * far - D /\ D * n = D * d - D * far + D + D * v
    <3>1. D * (n + u) = D * (d + far - 1) /\ D * n = D * (d - far + 1 + v)
      BY <2>1
    <3>2. /\ D * (n + u) = D * n + D * u /\ D * (d + far - 1) = D * d + D * far - D
          /\ D * (d - far + 1 + v) = D * d - D * far + D + D * v
      BY <1>1, <1>2, <1>4, <2>1
    <3> QED
      BY <3>1, <3>2
  <2>3. D * u \in Nat /\ D * v \in Nat /\ D * far \in Nat /\ far * D = D * far
    BY <1>1, <2>1
  <2> QED
    BY <1>3, <1>5, <2>2, <2>3
<1>7. r >= MinInt + far * D /\ r <= MaxInt - far * D /\ MinInt \in Int /\ MaxInt \in Int
  BY <1>1, DayOfTicks DEF Inside
<1>8. PICK x \in Int : x = w + o
  BY <1>5
<1>9. MinInt + 1 <= x /\ x <= MaxInt - 1
  BY <1>1, <1>3, <1>6, <1>7, <1>8
<1>10. DayStart(cal, n) = Clamped(x)
  <2>1. n * D = w
    BY <1>1, <1>4, <1>5
  <2> QED
    BY <1>1, <1>8, <2>1 DEF DayStart
<1>11. Clamped(x) = x
  BY <1>7, <1>9 DEF Clamped, Larger, Smaller
<1>12. DayOf(cal, x) = n
  <2>1. x - o = D * n + 0 /\ 0 \in 0..D - 1
    BY <1>1, <1>5, <1>8
  <2>2. (D * n + 0) \div D = n
    BY <1>1, <1>4, <2>1, DividedOnce
  <2> QED
    BY <1>1, <2>1, <2>2 DEF DayOf
<1> QED
  BY <1>1, <1>5, <1>8, <1>10, <1>11, <1>12

\* The time from the beginning of a day to that of a later one.
LEMMA DaysBetween ==
  ASSUME NEW cal, Counts(cal), NEW r \in Int, NEW far \in Nat, Inside(cal, r, far),
         NEW n, Near(cal, r, far, n), NEW m, Near(cal, r, far, m), n < m
  PROVE  LET w == Within(DayStart(cal, n), DayStart(cal, m))
         IN  /\ w.es \in Int /\ w.le \in Int /\ w.le - w.es = DayLength(cal) * m - DayLength(cal) * n
             /\ DayOf(cal, w.es) = n /\ DayOf(cal, w.le) = m
<1>1. PICK D \in Nat \ {0}, o \in Int : D = DayLength(cal) /\ o = CalOrigin(cal)
  BY LengthsOf
<1>2. PICK a, b : a = DayStart(cal, n) /\ b = DayStart(cal, m)
  OBVIOUS
<1>3. a \in Int /\ b \in Int /\ a = D * n + o /\ b = D * m + o /\ DayOf(cal, a) = n /\ DayOf(cal, b) = m
  BY <1>1, <1>2, NearDay
<1>4. n \in Int /\ m \in Int
  BY DEF Near
<1>5. D * m >= D * n + D /\ D * n \in Int /\ D * m \in Int
  <2>1. PICK u \in Nat : m = n + 1 + u
    <3>1. m - (n + 1) \in Nat /\ m = n + 1 + (m - (n + 1))
      BY <1>4
    <3> QED
      BY <3>1
  <2>2. D * m = D * n + D + D * u /\ D * u \in Nat /\ D * n \in Int
    BY <1>1, <1>4, <2>1
  <2> QED
    BY <1>1, <2>2
<1>6. a < b
  BY <1>1, <1>3, <1>5
<1>7. Within(a, b).es = a /\ Within(a, b).le = b
  BY <1>3, <1>6 DEF Within, Normalized, Range4, Smaller, Larger
<1>8. b - a = D * m - D * n
  BY <1>1, <1>3, <1>5
<1> QED
  BY <1>1, <1>2, <1>3, <1>7, <1>8

\* So many days: more than are counted from a reference.
Far(cal) == (MaxShift + 5) * LongYear(cal) + 3 * DaysPerWeek(cal) + 10

\* A number of days.
LEMMA FarIs ==
  ASSUME NEW cal, Counts(cal)
  PROVE  /\ MaxShift \in Nat /\ Far(cal) \in Nat \ {0}
         /\ (MaxShift + 4) * LongYear(cal) < Far(cal) /\ 3 * DaysPerWeek(cal) + 8 < Far(cal)
<1>1. PICK L \in Nat \ {0}, W \in Nat \ {0}, k \in Nat : L = LongYear(cal) /\ W = DaysPerWeek(cal) /\ k = MaxShift
  BY LengthsOf, LawsAssumption
<1>2. PICK x \in Nat : x = (k + 4) * L
  <2>1. k + 4 \in Nat \ {0}
    OBVIOUS
  <2> QED
    BY <2>1, Rows
<1>3. (k + 5) * L = x + L
  BY <1>1, <1>2
<1> QED
  BY <1>1, <1>2, <1>3 DEF Far

\* The references are as far from both ends of time.
LEMMA ReferencesInside ==
  ASSUME NEW cal \in Calendars, NEW r \in References
  PROVE  Counts(cal) /\ r \in Int /\ Inside(cal, r, Far(cal))
<1>1. Countable(cal) /\ r \in Int
  BY LawsAssumption
<1>2. cal.kind = "gregorian" => cal.offset \in Int
  BY RecurrencesAssumption, DayOfTicks
<1>3. cal.kind = "uniform" => cal.epoch \in Int /\ cal.perDay \in Nat \ {0}
  BY ReferencesAssumption
<1>4. Inside(cal, r, Far(cal))
  BY ReferencesAssumption DEF Inside, Far
<1> QED
  BY <1>1, <1>2, <1>3, <1>4 DEF Counts

\* So they are no missing ones, and what their calendars have is not missing.
LEMMA ReferenceIsThere ==
  ASSUME NEW cal, Counts(cal), NEW r \in Int, Inside(cal, r, Far(cal))
  PROVE  r # Missing /\ cal.kind # "opaque" /\ DaysPerWeek(cal) # Missing
<1>1. PICK D \in Nat \ {0}, f \in Nat \ {0}, W \in Nat \ {0} : D = DayLength(cal) /\ f = Far(cal) /\ W = DaysPerWeek(cal)
  BY LengthsOf, FarIs
<1>2. f * D \in Nat \ {0}
  BY Rows
<1>3. r >= MinInt + f * D /\ MinInt \in Int /\ MinInt < 0
  BY <1>1, <1>2, DayOfTicks, TicksAssumption DEF Inside
<1>4. r # MinInt /\ W # MinInt
  BY <1>1, <1>2, <1>3
<1>5. cal.kind # "opaque"
  BY DEF Counts, Countable
<1> QED
  BY <1>1, <1>4, <1>5 DEF Missing

\* The first day of a month that is not too many years from the reference.
LEMMA MonthNear ==
  ASSUME NEW cal, Counts(cal), NEW r \in Int, Inside(cal, r, Far(cal)),
         NEW y \in Int, y - CivilOf(cal, r).year <= MaxShift + 1, CivilOf(cal, r).year - y <= MaxShift + 1,
         NEW m \in 1..MonthsPerYear(cal)
  PROVE  /\ Near(cal, r, Far(cal), DayFromCivil(cal, y, m, 1))
         /\ CivilOfDay(cal, DayFromCivil(cal, y, m, 1)) = TheDate(y, m, 1)
<1>1. Countable(cal)
  BY DEF Counts
<1>2. 1 \in 1..MonthLength(cal, y, m)
  BY <1>1, LengthsAre
<1>3. PICK n \in Int : n = DayFromCivil(cal, y, m, 1) /\ CivilOfDay(cal, n) = TheDate(y, m, 1)
  BY <1>1, <1>2, DateOfItsDay
<1>4. PICK d \in Int : d = DayOf(cal, r)
  BY DayOfIs
<1>5. PICK k \in Nat : k = MaxShift + 1
  BY FarIs
<1>6. CivilOfDay(cal, n).year - CivilOfDay(cal, d).year \in -k..k
  <2>1. CivilOfDay(cal, n).year = y /\ CivilOf(cal, r) = CivilOfDay(cal, d) /\ CivilOfDay(cal, d).year \in Int
    BY <1>1, <1>3, <1>4, DateParts DEF CivilOf, TheDate
  <2> QED
    BY <1>5, <2>1
<1>7. n - d <= (k + 3) * LongYear(cal) /\ d - n <= (k + 3) * LongYear(cal)
  BY <1>1, <1>6, YearsApart
<1>8. k + 3 = MaxShift + 4
  BY <1>5, FarIs
<1>9. PICK x \in Int : x = (MaxShift + 4) * LongYear(cal)
  <2>1. MaxShift \in Nat /\ LongYear(cal) \in Nat
    BY FarIs, LengthsOf
  <2> QED
    BY <2>1
<1>10. n - d <= x /\ d - n <= x /\ x < Far(cal) /\ Far(cal) \in Int
  BY <1>7, <1>8, <1>9, FarIs
<1>11. n - d < Far(cal) /\ d - n < Far(cal)
  BY <1>9, <1>10
<1> QED
  BY <1>3, <1>4, <1>11 DEF Near

-----------------------------------------------------------------------------
(* Months and years that are counted.                                       *)

\* What an expression of one node is resolved to.
LEMMA SimplyResolved ==
  ASSUME NEW cal, NEW r, NEW ast, ast.node \in {"reference", "weekday"}
  PROVE  /\ ast.node = "reference" => Ast(cal, r, <<>>, <<ast>>) = RelativeToReference(cal, r, ast)
         /\ ast.node = "weekday" => Ast(cal, r, <<>>, <<ast>>) = WeekdayAst(cal, r, ast)
<1>1. Ast(cal, r, <<>>, <<ast>>) = SimpleAst(cal, r, <<>>, ast)
  BY OneNode
<1>2. ast.node = "reference" => SimpleAst(cal, r, <<>>, ast) = RelativeToReference(cal, r, ast)
  BY DEF SimpleAst
<1>3. ast.node = "weekday" => SimpleAst(cal, r, <<>>, ast) = WeekdayAst(cal, r, ast)
  BY DEF SimpleAst
<1> QED
  BY <1>1, <1>2, <1>3

\* How fine a time is says nothing of the time.
LEMMA FinenessAside ==
  ASSUME NEW cal, NEW w
  PROVE  /\ IsResolved(WithGranularity(cal, Resolved(w)))
         /\ WithGranularity(cal, Resolved(w)).range = w
BY DEF Resolved, WithGranularity, IsResolved

\* A window of days that are near, one after the other.
LEMMA WindowOfDays ==
  ASSUME NEW cal, Counts(cal), NEW r \in Int, Inside(cal, r, Far(cal)),
         NEW n, Near(cal, r, Far(cal), n), NEW m, Near(cal, r, Far(cal), m), n < m,
         NEW t, t = WithGranularity(cal, Resolved(Within(DayStart(cal, n), DayStart(cal, m))))
  PROVE  /\ IsResolved(t)
         /\ t.range.le - t.range.es = DayLength(cal) * m - DayLength(cal) * n
         /\ DayOf(cal, t.range.es) = n /\ DayOf(cal, t.range.le) = m
<1>1. Far(cal) \in Nat
  BY FarIs
<1>2. IsResolved(t) /\ t.range = Within(DayStart(cal, n), DayStart(cal, m))
  BY FinenessAside
<1> QED
  BY <1>1, <1>2, DaysBetween

\* Months and years that are counted from a reference are the ones that are meant.
LEMMA MonthsRight ==
  ASSUME NEW cal, Counts(cal), NEW r \in Int, Inside(cal, r, Far(cal)),
         NEW delta \in -MaxShift..MaxShift, NEW ast, ast.node = "reference", ast.unit \in {"month", "year"},
         ast.least = delta, ast.most = delta,
         NEW t, t = ResolvedExpression(cal, r, <<>>, <<ast>>)
  PROVE  IsResolved(t) /\ MonthsCounted(cal, ast, CivilOf(cal, r), CivilOf(cal, t.range.es), CivilOf(cal, t.range.le))
<1> DEFINE N == MonthsPerYear(cal)
           c == CivilOf(cal, r)
           u == ScaledUnit(cal, ast.unit)
<1>1. Countable(cal) /\ MaxShift \in Nat /\ delta \in Int /\ -MaxShift <= delta /\ delta <= MaxShift /\ N \in Nat \ {0}
  BY FarIs, LengthsOf DEF Counts
<1>2. DayOf(cal, r) \in Int
  BY DayOfIs
<1>3. c.year \in Int /\ c.month \in 1..N
  BY <1>1, <1>2, DateParts DEF CivilOf
<1>4. Ast(cal, r, <<>>, <<ast>>) = RelativeToDay(cal, r, c, ast, u)
  BY SimplyResolved DEF RelativeToReference
<1>5. r # Missing /\ cal.kind # "opaque"
  BY ReferenceIsThere
<1> HIDE DEF c, N, u
<1>6. CASE ast.unit = "month"
  <2>1. PICK z \in Int, k \in 1..N : ShiftsTo(cal, c.year, c.month, delta, MaxShift, z, k)
    <3>1. delta <= MaxShift /\ 0 - delta <= MaxShift
      BY <1>1
    <3>2. \E z \in Int, k \in 1..MonthsPerYear(cal) : ShiftsTo(cal, c.year, c.month, delta, MaxShift, z, k)
      BY <1>1, <1>3, <3>1, ShiftNear DEF N
    <3> QED
      BY <3>2 DEF N
  <2>2. /\ z \in Int /\ z - c.year <= MaxShift /\ c.year - z <= MaxShift
        /\ ShiftMonth(cal, c.year, c.month, delta) = TheMonth(z, k)
    BY <2>1 DEF ShiftsTo
  <2>3. PICK next : next = NextMonth(TheMonth(z, k), N)
    OBVIOUS
  <2>4. /\ next.year \in Int /\ next.month \in 1..N
        /\ DayFromCivil(cal, z, k, 1) + MonthLength(cal, z, k) = DayFromCivil(cal, next.year, next.month, 1)
    BY <1>1, <2>1, <2>2, <2>3, MonthAfter DEF N
  <2>5. next.year = z \/ next.year = z + 1
    BY <2>3 DEF NextMonth, TheMonth
  <2>6. PICK first, last : first = DayFromCivil(cal, z, k, 1) /\ last = DayFromCivil(cal, next.year, next.month, 1)
    OBVIOUS
  <2>7. /\ z - c.year <= MaxShift + 1 /\ c.year - z <= MaxShift + 1
        /\ next.year - c.year <= MaxShift + 1 /\ c.year - next.year <= MaxShift + 1
    BY <1>1, <1>3, <2>2, <2>4, <2>5
  <2>8. Near(cal, r, Far(cal), first) /\ CivilOfDay(cal, first) = TheDate(z, k, 1)
    BY <2>1, <2>2, <2>6, <2>7, MonthNear DEF N, c
  <2>9. Near(cal, r, Far(cal), last) /\ CivilOfDay(cal, last) = TheDate(next.year, next.month, 1)
    BY <2>4, <2>6, <2>7, MonthNear DEF N, c
  <2>10. first < last
    <3>1. MonthLength(cal, z, k) \in Nat \ {0}
      BY <1>1, <2>1, <2>2, LengthsAre DEF N
    <3>2. first \in Int
      BY <2>8 DEF Near
    <3> QED
      BY <2>4, <2>6, <3>1, <3>2
  <2>11. Ast(cal, r, <<>>, <<ast>>) = Resolved(Within(DayStart(cal, first), DayStart(cal, last)))
    <3>1. BoundsOfMonth(cal, ShiftMonth(cal, c.year, c.month, delta)) = <<DayStart(cal, first), DayStart(cal, last)>>
      BY <2>2, <2>4, <2>6 DEF BoundsOfMonth, MonthBounds, TheMonth
    <3>2. RelativeToDay(cal, r, c, ast, u)
            = Resolved(Within(BoundsOfMonth(cal, ShiftMonth(cal, c.year, c.month, delta))[1],
                              BoundsOfMonth(cal, ShiftMonth(cal, c.year, c.month, delta))[2]))
      BY <1>5, <1>6 DEF RelativeToDay
    <3> QED
      BY <1>4, <3>1, <3>2
  <2>12. IsResolved(t) /\ DayOf(cal, t.range.es) = first /\ DayOf(cal, t.range.le) = last
    BY <2>8, <2>9, <2>10, <2>11, WindowOfDays DEF ResolvedExpression
  <2>13. CivilOf(cal, t.range.es) = TheDate(z, k, 1) /\ CivilOf(cal, t.range.le) = TheDate(next.year, next.month, 1)
    BY <2>8, <2>9, <2>12 DEF CivilOf
  <2>14. MonthsOn(cal, c, delta) = TheMonth(z, k)
    BY <1>1, <1>3, <2>2, MonthsOnIs DEF N
  <2>15. MonthsCounted(cal, ast, c, TheDate(z, k, 1), TheDate(next.year, next.month, 1))
    <3>1. TheDate(z, k, 1).day = 1 /\ TheDate(next.year, next.month, 1).day = 1
      BY DEF TheDate
    <3>2. TheDate(z, k, 1).year = TheMonth(z, k).year /\ TheDate(z, k, 1).month = TheMonth(z, k).month
      BY DEF TheDate, TheMonth
    <3>3. /\ TheDate(next.year, next.month, 1).month = NextMonth(TheMonth(z, k), MonthsPerYear(cal)).month
          /\ TheDate(next.year, next.month, 1).year = NextMonth(TheMonth(z, k), MonthsPerYear(cal)).year
      BY <2>3 DEF TheDate, N
    <3> QED
      BY <1>6, <2>14, <3>1, <3>2, <3>3 DEF MonthsCounted
  <2> QED
    BY <2>12, <2>13, <2>15 DEF c
<1>7. CASE ast.unit = "year"
  <2>1. PICK y \in Int : y = c.year + delta
    BY <1>1, <1>3
  <2>2. /\ y - c.year <= MaxShift + 1 /\ c.year - y <= MaxShift + 1
        /\ (y + 1) - c.year <= MaxShift + 1 /\ c.year - (y + 1) <= MaxShift + 1 /\ y + 1 \in Int
    BY <1>1, <1>3, <2>1
  <2>3. 1 \in 1..N
    BY <1>1
  <2>4. PICK first, last : first = DayFromCivil(cal, y, 1, 1) /\ last = DayFromCivil(cal, y + 1, 1, 1)
    OBVIOUS
  <2>5. Near(cal, r, Far(cal), first) /\ CivilOfDay(cal, first) = TheDate(y, 1, 1)
    BY <2>2, <2>3, <2>4, MonthNear DEF N, c
  <2>6. Near(cal, r, Far(cal), last) /\ CivilOfDay(cal, last) = TheDate(y + 1, 1, 1)
    BY <2>2, <2>3, <2>4, MonthNear DEF N, c
  <2>7. first < last
    BY <1>1, <2>4, LaterYear
  <2>8. Ast(cal, r, <<>>, <<ast>>) = Resolved(Within(DayStart(cal, first), DayStart(cal, last)))
    <3>1. YearBounds(cal, y) = <<DayStart(cal, first), DayStart(cal, last)>>
      BY <2>4 DEF YearBounds
    <3>2. RelativeToDay(cal, r, c, ast, u) = Resolved(Within(YearBounds(cal, y)[1], YearBounds(cal, y)[2]))
      BY <1>5, <1>7, <2>1 DEF RelativeToDay
    <3> QED
      BY <1>4, <3>1, <3>2
  <2>9. IsResolved(t) /\ DayOf(cal, t.range.es) = first /\ DayOf(cal, t.range.le) = last
    BY <2>5, <2>6, <2>7, <2>8, WindowOfDays DEF ResolvedExpression
  <2>10. CivilOf(cal, t.range.es) = TheDate(y, 1, 1) /\ CivilOf(cal, t.range.le) = TheDate(y + 1, 1, 1)
    BY <2>5, <2>6, <2>9 DEF CivilOf
  <2>11. MonthsCounted(cal, ast, c, TheDate(y, 1, 1), TheDate(y + 1, 1, 1))
    BY <1>7, <2>1 DEF MonthsCounted, TheDate
  <2> QED
    BY <2>9, <2>10, <2>11 DEF c
<1> QED
  BY <1>6, <1>7

-----------------------------------------------------------------------------
(* Days of the week.                                                        *)

\* How far the first day is into its week.
WeekShift(cal) == IF cal.kind = "gregorian" THEN 3 ELSE 0

\* The days of the week follow one another.
LEMMA WeekdayIs ==
  ASSUME NEW cal, Countable(cal), NEW n \in Int
  PROVE  Weekday(cal, n) = (n + WeekShift(cal)) % DaysPerWeek(cal)
<1>1. CASE cal.kind = "gregorian"
  <2>1. DaysPerWeek(cal) = 7 /\ WeekShift(cal) = 3
    BY <1>1 DEF DaysPerWeek, WeekShift
  <2> QED
    BY <1>1, <2>1 DEF Weekday, WeekdayFromDays
<1>2. CASE cal.kind # "gregorian"
  <2>1. cal.kind = "uniform"
    BY <1>2 DEF Countable
  <2>2. DaysPerWeek(cal) = cal.perWeek /\ WeekShift(cal) = 0 /\ n + 0 = n
    BY <1>2, <2>1 DEF DaysPerWeek, WeekShift
  <2> QED
    BY <1>2, <2>2 DEF Weekday
<1> QED
  BY <1>1, <1>2

\* A day that is at most some weeks away, and the one of its week that is asked for.
Named(cal, d, w, day) ==
  /\ day \in Int /\ d - day <= 3 * DaysPerWeek(cal) + 6 /\ day - d <= 3 * DaysPerWeek(cal) + 6
  /\ w < DaysPerWeek(cal) => Weekday(cal, day) = w

\* A day that is named by its week and its place there is in that week.
LEMMA NamedDay ==
  ASSUME NEW cal, Counts(cal), NEW d \in Int, NEW weeks \in Int, weeks >= 0 - 2, weeks <= 1, NEW w \in 0..6,
         NEW day, day = d - Weekday(cal, d) + weeks * DaysPerWeek(cal) + w
  PROVE  Named(cal, d, w, day) /\ (w < DaysPerWeek(cal) => InWeekMeant(cal, weeks, day, d))
<1>1. Countable(cal)
  BY DEF Counts
<1>2. PICK W \in Nat \ {0}, s \in Int : W = DaysPerWeek(cal) /\ s = WeekShift(cal)
  <2>1. WeekShift(cal) \in Int /\ DaysPerWeek(cal) \in Nat \ {0}
    BY LengthsOf DEF WeekShift
  <2> QED
    BY <2>1
<1>3. PICK q \in Int, v \in 0..W - 1 : q = (d + s) \div W /\ v = (d + s) % W /\ d + s = W * q + v
  <2>1. d + s \in Int
    OBVIOUS
  <2> QED
    BY <2>1, Divided
<1>4. Weekday(cal, d) = v
  BY <1>1, <1>2, <1>3, WeekdayIs
<1>5. weeks \in {0 - 2, 0 - 1, 0, 1} /\ weeks \in Int /\ w \in Int /\ 0 <= w /\ w <= 6
  BY SMT
<1>6. PICK e \in Int : e = weeks * W
  BY <1>5
<1>7. e <= W /\ -(2 * W) <= e
  BY <1>5, <1>6
<1>8. day = d - v + e + w
  BY <1>2, <1>4, <1>6
<1>9. day \in Int /\ d - day <= 3 * W + 6 /\ day - d <= 3 * W + 6
  BY <1>3, <1>5, <1>7, <1>8
<1>10. ASSUME w < W PROVE Weekday(cal, day) = w
  <2>1. PICK p \in Int : p = q + weeks
    BY <1>5
  <2>2. PICK x \in Int : x = W * q
    BY <1>3
  <2>3. W * p = x + e
    BY <1>5, <1>6, <2>1, <2>2
  <2>4. day + s = W * p + w
    <3>1. v \in Int /\ d + s = x + v
      BY <1>3, <2>2
    <3>2. day + s = x + e + w
      BY <1>5, <1>8, <3>1
    <3> QED
      BY <1>5, <2>3, <3>2
  <2>5. w \in 0..W - 1
    BY <1>5, <1>10
  <2>6. (day + s) % W = w
    BY <2>1, <2>4, <2>5, DividedOnce
  <2> QED
    BY <1>1, <1>2, <1>9, <2>6, WeekdayIs
<1>11. ASSUME w < W PROVE InWeekMeant(cal, weeks, day, d)
  <2>1. PICK first \in Int : first = d - v
    <3>1. v \in Int
      BY <1>3
    <3>2. d - v \in Int
      BY <3>1
    <3> QED
      BY <3>2
  <2>2. first \in (d - W + 1)..d
    BY <1>3, <2>1
  <2>3. Weekday(cal, first) = 0
    <3>1. PICK x \in Int : x = W * q
      BY <1>3
    <3>2. first + s = W * q + 0 /\ 0 \in 0..W - 1
      BY <1>3, <2>1, <3>1
    <3>3. (first + s) % W = 0
      BY <3>2, DividedOnce
    <3> QED
      BY <1>1, <1>2, <3>3, WeekdayIs
  <2>4. day \in (first + e)..(first + e + W - 1)
    BY <1>5, <1>8, <1>11, <2>1
  <2> QED
    BY <1>2, <1>6, <2>2, <2>3, <2>4 DEF InWeekMeant
<1> QED
  BY <1>2, <1>9, <1>10, <1>11 DEF Named

\* The last such day of the week.
LEMMA LastSuchDay ==
  ASSUME NEW cal, Counts(cal), NEW d \in Int, NEW w \in 0..6,
         NEW day, day = d - ((Weekday(cal, d) - w) % DaysPerWeek(cal))
  PROVE  Named(cal, d, w, day) /\ day <= d /\ d - day < DaysPerWeek(cal)
<1>1. Countable(cal)
  BY DEF Counts
<1>2. PICK W \in Nat \ {0}, s \in Int : W = DaysPerWeek(cal) /\ s = WeekShift(cal)
  <2>1. WeekShift(cal) \in Int /\ DaysPerWeek(cal) \in Nat \ {0}
    BY LengthsOf DEF WeekShift
  <2> QED
    BY <2>1
<1>3. PICK q \in Int, v \in 0..W - 1 : q = (d + s) \div W /\ v = (d + s) % W /\ d + s = W * q + v
  <2>1. d + s \in Int
    OBVIOUS
  <2> QED
    BY <2>1, Divided
<1>4. Weekday(cal, d) = v
  BY <1>1, <1>2, <1>3, WeekdayIs
<1>5. w \in Int /\ 0 <= w /\ v \in Int
  BY <1>2, <1>3
<1>6. PICK p \in Int, x \in 0..W - 1 : p = (v - w) \div W /\ x = (v - w) % W /\ v - w = W * p + x
  <2>1. v - w \in Int
    BY <1>5
  <2> QED
    BY <2>1, Divided
<1>7. day = d - x /\ x \in Int /\ 0 <= x /\ x < W
  <2>1. day = d - x
    BY <1>2, <1>4, <1>6
  <2>2. x \in Int /\ 0 <= x /\ x < W
    <3>1. x \in 0..W - 1 /\ W \in Int
      BY <1>6
    <3> QED
      BY <3>1
  <2> QED
    BY <2>1, <2>2
<1>8. day \in Int /\ day <= d /\ d - day < W
  BY <1>7
<1>9. ASSUME w < W PROVE Weekday(cal, day) = w
  <2>1. PICK a \in Int, b \in Int, u \in Int : a = W * q /\ b = W * p /\ u = q + p
    <3>1. W * q \in Int /\ W * p \in Int /\ q + p \in Int
      OBVIOUS
    <3> QED
      BY <3>1
  <2>2. W * u = a + b
    <3>1. W * (q + p) = W * q + W * p
      OBVIOUS
    <3> QED
      BY <2>1, <3>1
  <2>3. day + s = W * u + w
    <3>1. d + s = a + v /\ v - w = b + x
      BY <1>3, <1>6, <2>1
    <3> QED
      BY <1>5, <1>7, <2>1, <2>2, <3>1
  <2>4. w \in 0..W - 1
    BY <1>5, <1>9
  <2>5. (day + s) % W = w
    BY <2>1, <2>3, <2>4, DividedOnce
  <2> QED
    BY <1>1, <1>2, <1>8, <2>5, WeekdayIs
<1>10. d - day <= 3 * W + 6 /\ day - d <= 3 * W + 6
  BY <1>7
<1> QED
  BY <1>2, <1>8, <1>9, <1>10 DEF Named

\* One day that is near is what a window of one day gives back.
LEMMA WindowOfDay ==
  ASSUME NEW cal, Counts(cal), NEW r \in Int, Inside(cal, r, Far(cal)),
         NEW day \in Int, DayOf(cal, r) - day <= 3 * DaysPerWeek(cal) + 6, day - DayOf(cal, r) <= 3 * DaysPerWeek(cal) + 6,
         NEW t, t = WithGranularity(cal, DayWindow(cal, day, day, NoClock))
  PROVE  IsResolved(t) /\ t.range.le - t.range.es = DayLength(cal) /\ DayOf(cal, t.range.es) = day
<1>1. PICK d \in Int, f \in Int, W \in Int, D \in Nat \ {0} : d = DayOf(cal, r) /\ f = Far(cal) /\ W = 3 * DaysPerWeek(cal) /\ D = DayLength(cal)
  <2>1. DaysPerWeek(cal) \in Nat /\ DayLength(cal) \in Nat \ {0}
    BY LengthsOf
  <2>2. DayOf(cal, r) \in Int
    BY DayOfIs
  <2>3. Far(cal) \in Int
    BY FarIs
  <2>4. 3 * DaysPerWeek(cal) \in Int
    BY <2>1
  <2> QED
    BY <2>1, <2>2, <2>3, <2>4
<1>2. W + 8 < f /\ d - day <= W + 6 /\ day - d <= W + 6
  BY <1>1, FarIs
<1>3. day + 1 \in Int /\ day < day + 1
  OBVIOUS
<1>4. Near(cal, r, Far(cal), day) /\ Near(cal, r, Far(cal), day + 1)
  BY <1>1, <1>2, <1>3 DEF Near
<1>5. DayWindow(cal, day, day, NoClock) = Resolved(Within(DayStart(cal, day), DayStart(cal, day + 1)))
  BY DEF DayWindow
<1>6. /\ IsResolved(t) /\ t.range.le - t.range.es = DayLength(cal) * (day + 1) - DayLength(cal) * day
      /\ DayOf(cal, t.range.es) = day
  BY <1>3, <1>4, <1>5, WindowOfDays
<1>7. D * (day + 1) - D * day = D
  BY <1>1
<1> QED
  BY <1>1, <1>6, <1>7

\* A whole week that is near is what its window gives back.
LEMMA WindowOfWeek ==
  ASSUME NEW cal, Counts(cal), NEW r \in Int, Inside(cal, r, Far(cal)),
         NEW weeks \in Int, weeks >= 0 - 2, weeks <= 1, NEW n, n = DaysPerWeek(cal),
         NEW day, day = DayOf(cal, r) - Weekday(cal, DayOf(cal, r)) + weeks * n,
         NEW t, t = WithGranularity(cal, DayWindow(cal, day, day + n - 1, NoClock))
  PROVE  /\ IsResolved(t) /\ t.range.le - t.range.es = n * DayLength(cal) /\ DayOf(cal, t.range.es) = day
         /\ Weekday(cal, day) = 0 /\ InWeekMeant(cal, weeks, day, DayOf(cal, r))
<1>1. PICK d \in Int, f \in Int, W \in Nat \ {0}, D \in Nat \ {0} : d = DayOf(cal, r) /\ f = Far(cal) /\ W = n /\ D = DayLength(cal)
  <2>1. DaysPerWeek(cal) \in Nat \ {0} /\ DayLength(cal) \in Nat \ {0}
    BY LengthsOf
  <2>2. DayOf(cal, r) \in Int
    BY DayOfIs
  <2>3. Far(cal) \in Int
    BY FarIs
  <2> QED
    BY <2>1, <2>2, <2>3
<1>2. 3 * W + 8 < f
  BY <1>1, FarIs
<1>3. /\ Named(cal, d, 0, day) /\ InWeekMeant(cal, weeks, day, d)
  <2>1. Weekday(cal, d) \in Int /\ weeks * n \in Int
    <3>1. Countable(cal)
      BY DEF Counts
    <3>2. PICK s \in Int : s = WeekShift(cal)
      BY LengthsOf DEF WeekShift
    <3>3. d + s \in Int
      OBVIOUS
    <3>4. (d + s) % W \in 0..W - 1
      BY <3>3, Divided
    <3>5. (d + s) % W \in Int
      BY <3>4
    <3> QED
      BY <1>1, <3>1, <3>2, <3>5, WeekdayIs
  <2>2. day = d - Weekday(cal, d) + weeks * n + 0
    BY <1>1, <2>1
  <2>3. 0 \in 0..6 /\ 0 < DaysPerWeek(cal)
    BY <1>1
  <2> QED
    BY <1>1, <2>2, <2>3, NamedDay
<1>4. day \in Int /\ Weekday(cal, day) = 0
  BY <1>1, <1>3 DEF Named
<1>5. PICK last \in Int : last = day + W
  BY <1>4
<1>6. /\ d - day <= 3 * W - 1 /\ last - d <= 3 * W
  <2>1. PICK first \in (d - W + 1)..d : day \in (first + weeks * W)..(first + weeks * W + W - 1)
    BY <1>1, <1>3 DEF InWeekMeant
  <2>2. weeks \in {0 - 2, 0 - 1, 0, 1}
    BY SMT
  <2>3. PICK e \in Int : e = weeks * W
    BY <1>1
  <2>4. e <= W /\ -(2 * W) <= e
    BY <2>2, <2>3
  <2>5. first \in Int /\ first <= d /\ d - W + 1 <= first
    BY <2>1
  <2>6. day >= first + e /\ day <= first + e + W - 1
    BY <2>1, <2>3
  <2> QED
    BY <1>1, <1>4, <1>5, <2>4, <2>5, <2>6
<1>7. day < last /\ last - d < f /\ d - last < f /\ day - d < f /\ d - day < f
  BY <1>1, <1>2, <1>4, <1>5, <1>6
<1>8. Near(cal, r, Far(cal), day) /\ Near(cal, r, Far(cal), last)
  BY <1>1, <1>4, <1>7 DEF Near
<1>9. DayWindow(cal, day, day + n - 1, NoClock) = Resolved(Within(DayStart(cal, day), DayStart(cal, last)))
  <2>1. (day + n - 1) + 1 = last
    BY <1>1, <1>4, <1>5
  <2> QED
    BY <2>1 DEF DayWindow
<1>10. /\ IsResolved(t) /\ t.range.le - t.range.es = DayLength(cal) * last - DayLength(cal) * day
       /\ DayOf(cal, t.range.es) = day
  BY <1>4, <1>7, <1>8, <1>9, WindowOfDays
<1>11. D * last - D * day = W * D
  <2>1. D * (day + W) = D * day + D * W
    BY <1>4
  <2>2. D * W = W * D /\ D * day \in Int /\ D * W \in Int
    BY <1>4
  <2> QED
    BY <1>5, <2>1, <2>2
<1> QED
  BY <1>1, <1>3, <1>4, <1>10, <1>11

\* A day of the week, or all of it, is what is meant.
LEMMA WeeksRight ==
  ASSUME NEW cal, Counts(cal), NEW r \in Int, Inside(cal, r, Far(cal)),
         NEW weeks \in {Missing, -2, -1, 0, 1}, NEW w \in 0..6 \cup {Missing}, w # Missing \/ weeks # Missing,
         NEW ast, ast.node = "weekday", ast.weeks = weeks, ast.weekday = w, ast.clock = NoClock,
         NEW t, t = ResolvedExpression(cal, r, <<>>, <<ast>>)
  PROVE  IsResolved(t) /\ WeeksCounted(cal, ast, t, DayOf(cal, t.range.es), DayOf(cal, r))
<1>1. PICK d \in Int, n \in Nat \ {0} : d = DayOf(cal, r) /\ n = DaysPerWeek(cal)
  BY DayOfIs, LengthsOf
<1>2. Missing \in Int /\ Missing < -3
  BY RangesAssumption, DayOfTicks DEF Missing
<1>3. r # Missing /\ cal.kind # "opaque" /\ n # Missing
  BY <1>1, ReferenceIsThere
<1>4. Ast(cal, r, <<>>, <<ast>>) = DayOfWeek(cal, r, ast, d, Weekday(cal, d), n)
  BY <1>1, SimplyResolved DEF WeekdayAst
<1>5. CASE weeks # Missing /\ w # Missing
  <2>1. PICK day : day = d - Weekday(cal, d) + weeks * DaysPerWeek(cal) + w
    OBVIOUS
  <2>2. weeks \in Int /\ weeks >= 0 - 2 /\ weeks <= 1 /\ w \in 0..6
    BY <1>5
  <2>3. Named(cal, d, w, day) /\ (w < DaysPerWeek(cal) => InWeekMeant(cal, weeks, day, d))
    BY <2>1, <2>2, NamedDay
  <2>4. DayOfWeek(cal, r, ast, d, Weekday(cal, d), n) = DayWindow(cal, day, day, NoClock)
    BY <1>1, <1>3, <1>5, <2>1 DEF DayOfWeek
  <2>5. IsResolved(t) /\ t.range.le - t.range.es = DayLength(cal) /\ DayOf(cal, t.range.es) = day
    BY <1>1, <1>4, <2>3, <2>4, WindowOfDay DEF ResolvedExpression, Named
  <2>6. WeekdayCounted(cal, ast, day, d)
    BY <1>5, <2>3 DEF WeekdayCounted, Named
  <2> QED
    BY <1>1, <1>5, <2>5, <2>6 DEF WeeksCounted
<1>6. CASE weeks = Missing
  <2>0. w # Missing /\ w \in 0..6
    BY <1>6
  <2>1. PICK day : day = d - ((Weekday(cal, d) - w) % DaysPerWeek(cal))
    OBVIOUS
  <2>2. Named(cal, d, w, day) /\ day <= d /\ d - day < DaysPerWeek(cal)
    BY <2>0, <2>1, LastSuchDay
  <2>4. DayOfWeek(cal, r, ast, d, Weekday(cal, d), n) = DayWindow(cal, day, day, NoClock)
    BY <1>1, <1>3, <1>6, <2>0, <2>1 DEF DayOfWeek
  <2>5. IsResolved(t) /\ t.range.le - t.range.es = DayLength(cal) /\ DayOf(cal, t.range.es) = day
    BY <1>1, <1>4, <2>2, <2>4, WindowOfDay DEF ResolvedExpression, Named
  <2>6. WeekdayCounted(cal, ast, day, d)
    BY <1>6, <2>2 DEF WeekdayCounted, Named
  <2> QED
    BY <1>1, <2>0, <2>5, <2>6 DEF WeeksCounted
<1>7. CASE weeks # Missing /\ w = Missing
  <2>1. PICK day : day = d - Weekday(cal, d) + weeks * n
    OBVIOUS
  <2>2. weeks \in Int /\ weeks >= 0 - 2 /\ weeks <= 1
    BY <1>7
  <2>3. DayOfWeek(cal, r, ast, d, Weekday(cal, d), n) = DayWindow(cal, day, day + n - 1, NoClock)
    BY <1>3, <1>7, <2>1 DEF DayOfWeek
  <2>4. t = WithGranularity(cal, DayWindow(cal, day, day + n - 1, NoClock))
    BY <1>4, <2>3 DEF ResolvedExpression
  <2>5. /\ IsResolved(t) /\ t.range.le - t.range.es = n * DayLength(cal) /\ DayOf(cal, t.range.es) = day
        /\ Weekday(cal, day) = 0 /\ InWeekMeant(cal, weeks, day, DayOf(cal, r))
    BY <1>1, <2>1, <2>2, <2>4, WindowOfWeek
  <2> QED
    BY <1>1, <1>7, <2>5 DEF WeeksCounted, WeekCounted
<1> QED
  BY <1>5, <1>6, <1>7

\* What is asked about months is answered right.
LEMMA AfterCountsMonths ==
  ASSUME CountsMonths
  PROVE  \A t \in {ResolvedExpression(question'.cal, question'.r, <<>>, <<question'.ast>>)} :
           /\ IsResolved(t)
           /\ MonthsCounted(question'.cal, question'.ast, CivilOf(question'.cal, question'.r),
                            CivilOf(question'.cal, t.range.es), CivilOf(question'.cal, t.range.le))
<1>1. PICK cal \in Calendars, r \in References, delta \in -MaxShift..MaxShift, unit \in {"month", "year"} :
        question' = [about |-> "months", cal |-> cal, r |-> r,
                     ast |-> [node |-> "reference", unit |-> unit, least |-> delta, most |-> delta, clock |-> NoClock]]
  BY DEF CountsMonths
<1>2. PICK ast : ast = [node |-> "reference", unit |-> unit, least |-> delta, most |-> delta, clock |-> NoClock]
  OBVIOUS
<1>3. question'.cal = cal /\ question'.r = r /\ question'.ast = ast
  BY <1>1, <1>2
<1>4. ast.node = "reference" /\ ast.unit \in {"month", "year"} /\ ast.least = delta /\ ast.most = delta
  BY <1>2
<1>5. Counts(cal) /\ r \in Int /\ Inside(cal, r, Far(cal))
  BY ReferencesInside
<1>6. PICK t : t = ResolvedExpression(cal, r, <<>>, <<ast>>)
  OBVIOUS
<1>7. IsResolved(t) /\ MonthsCounted(cal, ast, CivilOf(cal, r), CivilOf(cal, t.range.es), CivilOf(cal, t.range.le))
  BY <1>4, <1>5, <1>6, MonthsRight
<1> QED
  BY <1>3, <1>6, <1>7

\* And so is what is asked about days of the week.
LEMMA AfterCountsWeeks ==
  ASSUME CountsWeeks
  PROVE  \A t \in {ResolvedExpression(question'.cal, question'.r, <<>>, <<question'.ast>>)} :
           /\ IsResolved(t)
           /\ WeeksCounted(question'.cal, question'.ast, t, DayOf(question'.cal, t.range.es), DayOf(question'.cal, question'.r))
<1>1. PICK cal \in Calendars, r \in References, w \in 0..6 \cup {Missing}, weeks \in {Missing, -2, -1, 0, 1} :
        /\ w # Missing \/ weeks # Missing
        /\ question' = [about |-> "weeks", cal |-> cal, r |-> r,
                        ast |-> [node |-> "weekday", weeks |-> weeks, weekday |-> w, clock |-> NoClock]]
  BY DEF CountsWeeks
<1>2. PICK ast : ast = [node |-> "weekday", weeks |-> weeks, weekday |-> w, clock |-> NoClock]
  OBVIOUS
<1>3. question'.cal = cal /\ question'.r = r /\ question'.ast = ast
  BY <1>1, <1>2
<1>4. ast.node = "weekday" /\ ast.weeks = weeks /\ ast.weekday = w /\ ast.clock = NoClock
  BY <1>2
<1>5. Counts(cal) /\ r \in Int /\ Inside(cal, r, Far(cal))
  BY ReferencesInside
<1>6. PICK t : t = ResolvedExpression(cal, r, <<>>, <<ast>>)
  OBVIOUS
<1>7. IsResolved(t) /\ WeeksCounted(cal, ast, t, DayOf(cal, t.range.es), DayOf(cal, r))
  BY <1>1, <1>4, <1>5, <1>6, WeeksRight
<1> QED
  BY <1>3, <1>6, <1>7

\* So many months or years ago or ahead, and a week, or a day of it, are the time that one
\* reaches by counting: the month's first day to the next one's, and the days of the week that is
\* meant; in every calendar and from every reference that is further from both ends of time
\* (resolve.rs).
THEOREM CountedOn == Spec => []MonthsAndWeeksCounted
<1>1. Init => MonthsAndWeeksCounted
  BY DEF Init, Subjects, MonthsAndWeeksCounted
<1>2. ASSUME MonthsAndWeeksCounted, [Next]_question PROVE MonthsAndWeeksCounted'
  <2>1. CASE question' = question
    BY <1>2, <2>1 DEF MonthsAndWeeksCounted
  <2>2. CASE Next
    <3>1. question'.about = "months" => CountsMonths
      BY <2>2, AskedBy
    <3>2. question'.about = "weeks" => CountsWeeks
      BY <2>2, AskedBy
    <3> QED
      BY <3>1, <3>2, AfterCountsMonths, AfterCountsWeeks DEF MonthsAndWeeksCounted
  <2> QED
    BY <1>2, <2>1, <2>2
<1> QED
  BY <1>1, <1>2, PTL DEF Spec

-----------------------------------------------------------------------------
(* Times of events of which more or less is known.                          *)

\* Bounds that are ticks.
InTicks(r) ==
  /\ r.es \in Int /\ r.ls \in Int /\ r.ee \in Int /\ r.le \in Int
  /\ MinInt <= r.es /\ r.es <= MaxInt /\ MinInt <= r.ls /\ r.ls <= MaxInt
  /\ MinInt <= r.ee /\ r.ee <= MaxInt /\ MinInt <= r.le /\ r.le <= MaxInt

\* In the right order, neither at the end of time nor at its beginning.
Proper(r) == r.es <= r.ls /\ r.ee <= r.le /\ r.es <= r.le /\ r.es < MaxInt /\ r.le > MinInt

\* One range knows less of a time than the other.
Sharper(v, s) == InTicks(v) /\ InTicks(s) /\ Proper(s) /\ Includes(v, s)

\* Normalizing keeps this.
LEMMA NormalizedSharper ==
  ASSUME NEW v, NEW s, Sharper(v, s)
  PROVE  Sharper(Normalized(v), Normalized(s))
<1>1. PICK a \in Int, b \in Int, c \in Int, d \in Int : a = v.es /\ b = v.ls /\ c = v.ee /\ d = v.le
  BY DEF Sharper, InTicks
<1>2. PICK e \in Int, f \in Int, g \in Int, h \in Int : e = s.es /\ f = s.ls /\ g = s.ee /\ h = s.le
  BY DEF Sharper, InTicks
<1>3. /\ a <= e /\ f <= b /\ c <= g /\ h <= d
      /\ e <= f /\ g <= h /\ e <= h /\ e < MaxInt /\ h > MinInt
  BY <1>1, <1>2 DEF Sharper, Proper, Includes
<1>4. /\ MinInt <= a /\ a <= MaxInt /\ MinInt <= b /\ b <= MaxInt /\ MinInt <= c /\ c <= MaxInt /\ MinInt <= d /\ d <= MaxInt
      /\ MinInt <= e /\ e <= MaxInt /\ MinInt <= f /\ f <= MaxInt /\ MinInt <= g /\ g <= MaxInt /\ MinInt <= h /\ h <= MaxInt
  BY <1>1, <1>2 DEF Sharper, InTicks
<1>5. MinInt \in Int /\ MaxInt \in Int
  BY DayOfTicks
<1>6. Normalized(v) = Range4(a, Smaller(b, d), Larger(c, a), d)
  BY <1>1, <1>3 DEF Normalized, Range4, Smaller, Larger
<1>7. Normalized(s) = Range4(e, Smaller(f, h), Larger(g, e), h)
  BY <1>2, <1>3 DEF Normalized, Range4, Smaller, Larger
<1>8. PICK p \in Int, q \in Int, x \in Int, y \in Int : p = Smaller(b, d) /\ q = Larger(c, a) /\ x = Smaller(f, h) /\ y = Larger(g, e)
  BY DEF Smaller, Larger
<1>9. /\ x <= p /\ q <= y /\ e <= x /\ y <= h
      /\ MinInt <= p /\ p <= MaxInt /\ MinInt <= q /\ q <= MaxInt /\ MinInt <= x /\ x <= MaxInt /\ MinInt <= y /\ y <= MaxInt
  BY <1>3, <1>4, <1>5, <1>8 DEF Smaller, Larger
<1>10. InTicks(Range4(a, p, q, d)) /\ InTicks(Range4(e, x, y, h))
  BY <1>4, <1>9 DEF InTicks, Range4
<1>11. Proper(Range4(e, x, y, h)) /\ Includes(Range4(a, p, q, d), Range4(e, x, y, h))
  BY <1>3, <1>9 DEF Proper, Includes, Range4
<1> QED
  BY <1>6, <1>7, <1>8, <1>10, <1>11 DEF Sharper

\* What is later stays later, and what is finite stays finite.
LEMMA OffsetLater ==
  ASSUME NEW t \in Int, NEW u \in Int, MinInt <= t, t <= u, u <= MaxInt, NEW d \in Int, NEW e \in Int, d <= e
  PROVE  /\ Offset(t, d) \in Int /\ Offset(u, e) \in Int
         /\ MinInt <= Offset(t, d) /\ Offset(t, d) <= Offset(u, e) /\ Offset(u, e) <= MaxInt
         /\ t < MaxInt => Offset(t, d) < MaxInt
         /\ u > MinInt => Offset(u, e) > MinInt
         /\ Finite(t) => Finite(Offset(t, d))
         /\ Finite(u) => Finite(Offset(u, e))
<1>1. MinInt \in Int /\ MaxInt \in Int /\ MinInt < 0 /\ 0 < MaxInt
  BY TicksAssumption
<1>2. PICK x \in Int, y \in Int : x = t + d /\ y = u + e /\ x <= y
  <2>1. t + d \in Int /\ u + e \in Int /\ t + d <= u + e
    OBVIOUS
  <2> QED
    BY <2>1
<1>3. /\ Clamped(x) \in Int /\ Clamped(y) \in Int /\ Clamped(x) <= Clamped(y)
      /\ MinInt < Clamped(x) /\ Clamped(x) < MaxInt /\ MinInt < Clamped(y) /\ Clamped(y) < MaxInt
  BY <1>1, <1>2 DEF Clamped, Smaller, Larger
<1>4. Offset(t, d) = IF t # MinInt /\ t # MaxInt THEN Clamped(x) ELSE t
  BY <1>2 DEF Offset, Finite, NegInf, PosInf
<1>5. Offset(u, e) = IF u # MinInt /\ u # MaxInt THEN Clamped(y) ELSE u
  BY <1>2 DEF Offset, Finite, NegInf, PosInf
<1>6. \A z : Finite(z) <=> z # MinInt /\ z # MaxInt
  BY DEF Finite, NegInf, PosInf
<1> QED
  BY <1>1, <1>3, <1>4, <1>5, <1>6

\* Moving both keeps what is known of them, by the same or by more for the vaguer one.
LEMMA ShiftSharper ==
  ASSUME NEW v, NEW s, Sharper(v, s), NEW l \in Int, NEW m \in Int, NEW k \in Int, NEW n \in Int, l <= k, k <= n, n <= m
  PROVE  Sharper(Shift(v, l, m), Shift(s, k, n))
<1>1. PICK a \in Int, b \in Int, c \in Int, d \in Int : a = v.es /\ b = v.ls /\ c = v.ee /\ d = v.le
  BY DEF Sharper, InTicks
<1>2. PICK e \in Int, f \in Int, g \in Int, h \in Int : e = s.es /\ f = s.ls /\ g = s.ee /\ h = s.le
  BY DEF Sharper, InTicks
<1>3. /\ a <= e /\ f <= b /\ c <= g /\ h <= d
      /\ e <= f /\ g <= h /\ e <= h /\ e < MaxInt /\ h > MinInt
  BY <1>1, <1>2 DEF Sharper, Proper, Includes
<1>4. /\ MinInt <= a /\ a <= MaxInt /\ MinInt <= b /\ b <= MaxInt /\ MinInt <= c /\ c <= MaxInt /\ MinInt <= d /\ d <= MaxInt
      /\ MinInt <= e /\ e <= MaxInt /\ MinInt <= f /\ f <= MaxInt /\ MinInt <= g /\ g <= MaxInt /\ MinInt <= h /\ h <= MaxInt
  BY <1>1, <1>2 DEF Sharper, InTicks
<1>5. /\ Offset(a, l) <= Offset(e, k) /\ Offset(f, n) <= Offset(b, m)
      /\ Offset(c, l) <= Offset(g, k) /\ Offset(h, n) <= Offset(d, m)
  BY <1>3, <1>4, OffsetLater
<1>6. Offset(e, k) <= Offset(f, n) /\ Offset(g, k) <= Offset(h, n) /\ Offset(e, k) <= Offset(h, n)
  BY <1>3, <1>4, OffsetLater
<1>7. Offset(e, k) < MaxInt /\ Offset(h, n) > MinInt
  BY <1>3, <1>4, OffsetLater
<1>8. \A x, y \in Int : MinInt <= x /\ x <= MaxInt => Offset(x, y) \in Int /\ MinInt <= Offset(x, y) /\ Offset(x, y) <= MaxInt
  BY OffsetLater
<1>9. InTicks(Range4(Offset(a, l), Offset(b, m), Offset(c, l), Offset(d, m)))
  BY <1>4, <1>8 DEF InTicks, Range4
<1>10. InTicks(Range4(Offset(e, k), Offset(f, n), Offset(g, k), Offset(h, n)))
  BY <1>4, <1>8 DEF InTicks, Range4
<1>11. Proper(Range4(Offset(e, k), Offset(f, n), Offset(g, k), Offset(h, n)))
  BY <1>6, <1>7 DEF Proper, Range4
<1>12. Includes(Range4(Offset(a, l), Offset(b, m), Offset(c, l), Offset(d, m)),
                Range4(Offset(e, k), Offset(f, n), Offset(g, k), Offset(h, n)))
  BY <1>5 DEF Includes, Range4
<1>13. Sharper(Range4(Offset(a, l), Offset(b, m), Offset(c, l), Offset(d, m)),
               Range4(Offset(e, k), Offset(f, n), Offset(g, k), Offset(h, n)))
  BY <1>9, <1>10, <1>11, <1>12 DEF Sharper
<1>14. /\ Shift(v, l, m) = Normalized(Range4(Offset(a, l), Offset(b, m), Offset(c, l), Offset(d, m)))
       /\ Shift(s, k, n) = Normalized(Range4(Offset(e, k), Offset(f, n), Offset(g, k), Offset(h, n)))
  BY <1>1, <1>2 DEF Shift
<1> QED
  BY <1>13, <1>14, NormalizedSharper

\* What an event's time turns out to be is sharper than what was known of it.
LEMMA EventSharper ==
  ASSUME NEW r, InSightRange(r), NEW i \in Intervals(r, Horizon)
  PROVE  /\ Sharper(r, Exact(i.s, i.e)) /\ i.s \in Int /\ i.e \in Int
         /\ Exact(i.s, i.e) = Range4(i.s, i.s, i.e, i.e)
<1> DEFINE least(t) == IF t = NegInf THEN -Horizon ELSE IF t = PosInf THEN Horizon ELSE t
<1>1. /\ Horizon \in Nat /\ Horizon >= 3 /\ MinInt < -Horizon /\ Horizon < MaxInt
      /\ MinInt \in Int /\ MaxInt \in Int
  BY RangesAssumption, DayOfTicks
<1>2. PICK u \in Int, x \in Int : u = i.s /\ x = i.e /\ u < x /\ u \in least(r.es)..least(r.ls) /\ x \in least(r.ee)..least(r.le)
  <2>1. i \in [s : least(r.es)..least(r.ls), e : least(r.ee)..least(r.le)] /\ i.s < i.e
    BY DEF Intervals
  <2>2. i.s \in least(r.es)..least(r.ls) /\ i.e \in least(r.ee)..least(r.le)
    BY <2>1
  <2>3. \A y, z : \A n \in y..z : n \in Int
    OBVIOUS
  <2> HIDE DEF least
  <2>4. i.s \in Int /\ i.e \in Int
    BY <2>2, <2>3
  <2> QED
    BY <2>1, <2>2, <2>4
<1>3. \A t \in Int : InSight(t) => MinInt < t /\ t < MaxInt /\ -Horizon <= t /\ t <= Horizon /\ least(t) = t
  BY <1>1 DEF InSight, NegInf, PosInf
<1>4. \A t : InSight(t) => t \in Int
  BY <1>1 DEF InSight
<1>5. /\ r.es = MinInt \/ InSight(r.es)
      /\ r.ls = MaxInt \/ InSight(r.ls)
      /\ r.ee = MinInt \/ InSight(r.ee)
      /\ r.le = MaxInt \/ InSight(r.le)
  BY DEF InSightRange, NegInf, PosInf
<1>6. /\ r.es \in Int /\ r.ls \in Int /\ r.ee \in Int /\ r.le \in Int
  BY <1>1, <1>4, <1>5
<1>7. least(MinInt) = -Horizon /\ least(MaxInt) = Horizon
  BY <1>1 DEF NegInf, PosInf
<1>8. /\ MinInt <= r.es /\ r.es <= MaxInt /\ MinInt <= r.ls /\ r.ls <= MaxInt
      /\ MinInt <= r.ee /\ r.ee <= MaxInt /\ MinInt <= r.le /\ r.le <= MaxInt
  BY <1>1, <1>3, <1>5, <1>6
<1>9. /\ -Horizon <= least(r.es) /\ r.es <= least(r.es) /\ least(r.ls) <= r.ls /\ least(r.ls) <= Horizon
      /\ -Horizon <= least(r.ee) /\ r.ee <= least(r.ee) /\ least(r.le) <= r.le /\ least(r.le) <= Horizon
      /\ least(r.es) \in Int /\ least(r.ls) \in Int /\ least(r.ee) \in Int /\ least(r.le) \in Int
  BY <1>1, <1>3, <1>5, <1>6, <1>7
<1> HIDE DEF least
<1>10. least(r.es) <= u /\ u <= least(r.ls) /\ least(r.ee) <= x /\ x <= least(r.le)
  BY <1>2, <1>9
<1>11. r.es <= u /\ u <= r.ls /\ r.ee <= x /\ x <= r.le /\ MinInt < u /\ u < MaxInt /\ MinInt < x /\ x < MaxInt
  BY <1>1, <1>6, <1>9, <1>10
<1>12. Exact(u, x) = Range4(u, u, x, x)
  BY <1>2 DEF Exact, Normalized, Range4, Smaller, Larger
<1>13. InTicks(r)
  BY <1>6, <1>8 DEF InTicks
<1>14. InTicks(Range4(u, u, x, x)) /\ Proper(Range4(u, u, x, x)) /\ Includes(r, Range4(u, u, x, x))
  BY <1>1, <1>2, <1>11 DEF InTicks, Proper, Includes, Range4
<1> QED
  BY <1>2, <1>12, <1>13, <1>14 DEF Sharper

\* A time that is resolved is resolved from less too, to a vaguer one.
Follows(v, s) == IsResolved(s) => IsResolved(v) /\ Sharper(v.range, s.range)

\* Dividing what is not negative.
LEMMA DividedNat ==
  ASSUME NEW x \in Nat, NEW d \in Nat \ {0}
  PROVE  x \div d \in Nat
<1>1. PICK q \in Int, r \in 0..d - 1 : q = x \div d /\ x = d * q + r
  BY Divided
<1>2. ASSUME q < 0 PROVE FALSE
  <2>1. PICK p \in Nat : q = 0 - 1 - p
    <3>1. 0 - 1 - q \in Nat /\ q = 0 - 1 - (0 - 1 - q)
      BY <1>2
    <3> QED
      BY <3>1
  <2>2. d * q = 0 - d - d * p /\ d * p \in Nat
    BY <2>1
  <2>3. r < d
    OBVIOUS
  <2> QED
    BY <1>1, <2>2, <2>3
<1> QED
  BY <1>1, <1>2

\* How long a unit is, in the calendar's own days.
LEMMA UnitLasts ==
  ASSUME NEW cal, Counts(cal), NEW unit \in Units
  PROVE  ScaledUnit(cal, unit) \in Nat
<1>1. TicksPerHour \in Nat \ {0} /\ TicksPerDay \in Nat \ {0} /\ DayLength(cal) \in Nat \ {0}
  BY TicksAssumption, DayOfTicks, LengthsOf
<1>2. PICK ticks \in Nat : ticks = CASE unit = "minute" -> TicksPerMinute
                                     [] unit = "hour"   -> TicksPerHour
                                     [] unit = "day"    -> TicksPerDay
                                     [] unit = "week"   -> 7 * TicksPerDay
                                     [] unit = "month"  -> (TicksPerHour * 2629746) \div 3600
                                     [] unit = "year"   -> (TicksPerHour * 31556952) \div 3600
  <2>1. TicksPerMinute \in Nat
    <3>1. 60 \in Nat \ {0} /\ TicksPerHour \in Nat
      BY <1>1
    <3> QED
      BY <3>1, DividedNat DEF TicksPerMinute
  <2>2. (TicksPerHour * 2629746) \div 3600 \in Nat /\ (TicksPerHour * 31556952) \div 3600 \in Nat
    <3>1. 3600 \in Nat \ {0} /\ TicksPerHour * 2629746 \in Nat /\ TicksPerHour * 31556952 \in Nat
      BY SMT, <1>1
    <3> QED
      BY <3>1, DividedNat
  <2>3. 7 * TicksPerDay \in Nat
    BY <1>1
  <2>4. unit \in {"minute", "hour", "day", "week", "month", "year"}
    BY DEF Units
  <2> QED
    BY <1>1, <2>1, <2>2, <2>3, <2>4
<1>3. ScaledUnit(cal, unit) = IF cal.kind = "gregorian" THEN ticks ELSE (ticks * DayLength(cal)) \div TicksPerDay
  BY <1>2 DEF ScaledUnit
<1>4. (ticks * DayLength(cal)) \div TicksPerDay \in Nat
  <2>1. ticks * DayLength(cal) \in Nat
    BY <1>1
  <2> QED
    BY <1>1, <2>1, DividedNat
<1> QED
  BY <1>3, <1>4

\* An event that is found, on the calendar's own axis.
LEMMA FoundIs ==
  ASSUME NEW cal, NEW a, NEW b, NEW n \in {"a", "b"}
  PROVE  LET t == Anchored(cal, Known(cal, a, b)[n])
         IN  IsResolved(t) /\ t.range = IF n = "a" THEN a ELSE b
<1>1. PICK r : r = IF n = "a" THEN a ELSE b
  OBVIOUS
<1>2. Known(cal, a, b)[n] = Found(cal, r)
  BY <1>1 DEF Known
<1>3. Found(cal, r).axis = cal.axis /\ IsResolved(Found(cal, r)) /\ Found(cal, r).range = r
  BY DEF Found, IsResolved
<1>4. Anchored(cal, Found(cal, r)) = Found(cal, r)
  BY <1>3 DEF Anchored
<1> QED
  BY <1>1, <1>2, <1>3, <1>4

\* Some units before or after an event.
LEMMA RelativeIs ==
  ASSUME NEW cal, cal.kind # "opaque", NEW a, NEW b, NEW ast, RelatesTo(ast, {"a", "b"})
  PROVE  SimpleAst(cal, Missing, Known(cal, a, b), ast)
           = Resolved(Shift(IF ast.anchor = "a" THEN a ELSE b,
                            ast.least * ScaledUnit(cal, ast.unit), ast.most * ScaledUnit(cal, ast.unit)))
<1>1. ast.node = "relative" /\ ast.anchor \in {"a", "b"}
  BY DEF RelatesTo
<1>2. PICK t : t = Anchored(cal, Known(cal, a, b)[ast.anchor])
  OBVIOUS
<1>3. IsResolved(t) /\ t.range = IF ast.anchor = "a" THEN a ELSE b
  BY <1>1, <1>2, FoundIs
<1>4. SimpleAst(cal, Missing, Known(cal, a, b), ast) = RelativeToEvent(cal, t, ast)
  BY <1>1, <1>2 DEF SimpleAst
<1>5. RelativeToEvent(cal, t, ast) = Resolved(Shift(t.range, ast.least * ScaledUnit(cal, ast.unit), ast.most * ScaledUnit(cal, ast.unit)))
  BY <1>3 DEF RelativeToEvent
<1> QED
  BY <1>3, <1>4, <1>5

\* It follows the event.
LEMMA RelativeFollows ==
  ASSUME NEW cal, Counts(cal), NEW a, NEW b, NEW x, NEW y, Sharper(a, x), Sharper(b, y),
         NEW ast, RelatesTo(ast, {"a", "b"}),
         NEW v, v = SimpleAst(cal, Missing, Known(cal, a, b), ast),
         NEW s, s = SimpleAst(cal, Missing, Known(cal, x, y), ast)
  PROVE  IsResolved(v) /\ IsResolved(s) /\ Sharper(v.range, s.range)
<1>1. cal.kind # "opaque"
  BY DEF Counts, Countable
<1>2. PICK u \in Nat : u = ScaledUnit(cal, ast.unit)
  BY UnitLasts DEF RelatesTo
<1>3. PICK l \in Int, m \in Int : l = ast.least * u /\ m = ast.most * u /\ l <= m
  <2>1. PICK least \in Int, w \in Nat : ast.least = least /\ ast.most = least + w
    <3>1. ast.least \in Int /\ ast.most - ast.least \in Nat /\ ast.most = ast.least + (ast.most - ast.least)
      BY DEF RelatesTo
    <3> QED
      BY <3>1
  <2>2. least * u \in Int /\ w * u \in Nat /\ (least + w) * u = least * u + w * u
    BY <1>2
  <2> QED
    BY <2>1, <2>2
<1>4. PICK r, q : r = (IF ast.anchor = "a" THEN a ELSE b) /\ q = (IF ast.anchor = "a" THEN x ELSE y)
  OBVIOUS
<1>5. Sharper(r, q)
  BY <1>4
<1>6. v = Resolved(Shift(r, l, m)) /\ s = Resolved(Shift(q, l, m))
  BY <1>1, <1>2, <1>3, <1>4, RelativeIs
<1>7. Sharper(Shift(r, l, m), Shift(q, l, m))
  BY <1>3, <1>5, ShiftSharper
<1>8. \A z : IsResolved(Resolved(z)) /\ Resolved(z).range = z
  BY DEF IsResolved, Resolved
<1> QED
  BY <1>6, <1>7, <1>8

\* What a time has.
IsTime(t) == "error" \in DOMAIN t /\ "range" \in DOMAIN t

\* Times that are resolved, and that are not.
LEMMA MadeTimes ==
  /\ \A r : IsTime(Resolved(r)) /\ IsResolved(Resolved(r)) /\ Resolved(r).range = r
  /\ \A kind : IsTime(Unresolved(kind)) /\ Unresolved(kind).error = kind
  /\ \A kind : kind # "none" => ~ IsResolved(Unresolved(kind))
<1>1. \A r : IsTime(Resolved(r)) /\ IsResolved(Resolved(r)) /\ Resolved(r).range = r
  BY DEF IsTime, IsResolved, Resolved
<1>2. \A kind : Unresolved(kind).error = kind
  BY DEF Unresolved, Resolved
<1>3. \A kind : IsTime(Unresolved(kind))
  BY DEF IsTime, Unresolved, Resolved
<1> QED
  BY <1>1, <1>2, <1>3 DEF IsResolved

\* A number and finitely many others have a greatest one, and a least one.
LEMMA GreatestIs ==
  ASSUME NEW N \in Nat, NEW f, \A n \in 1..N : f[n] \in Int, NEW c \in Int
  PROVE  \E x \in {c} \cup {f[n] : n \in 1..N} : \A y \in {c} \cup {f[n] : n \in 1..N} : x >= y
<1> DEFINE upTo(k) == {c} \cup {f[n] : n \in 1..k}
           S == {k \in 0..N : \E x \in upTo(k) : \A y \in upTo(k) : x >= y}
<1>1. 0 \in S
  <2>1. \A y \in upTo(0) : y = c
    OBVIOUS
  <2>2. c \in upTo(0) /\ \A y \in upTo(0) : c >= y
    BY <2>1
  <2> QED
    BY <2>2
<1>2. ASSUME NEW k \in 1..N, k - 1 \in S PROVE k \in S
  <2>1. PICK x \in upTo(k - 1) : \A y \in upTo(k - 1) : x >= y
    BY <1>2
  <2>2. \A y : y \in upTo(k) <=> y \in upTo(k - 1) \/ y = f[k]
    <3>1. \A n : n \in 1..k <=> n \in 1..(k - 1) \/ n = k
      OBVIOUS
    <3> QED
      BY <3>1
  <2>3. x \in Int /\ f[k] \in Int
    <3>1. \A n \in 1..(k - 1) : f[n] \in Int
      OBVIOUS
    <3> QED
      BY <3>1
  <2> HIDE DEF upTo
  <2>4. CASE f[k] <= x
    <3>1. x \in upTo(k) /\ \A y \in upTo(k) : x >= y
      BY <2>1, <2>2, <2>3, <2>4
    <3> QED
      BY <3>1
  <2>5. CASE ~ (f[k] <= x)
    <3>1. \A y \in upTo(k - 1) : y \in Int
      <4>1. \A n \in 1..(k - 1) : f[n] \in Int
        OBVIOUS
      <4> QED
        BY <4>1 DEF upTo
    <3>2. f[k] \in upTo(k) /\ \A y \in upTo(k) : f[k] >= y
      BY <2>1, <2>2, <2>3, <2>5, <3>1
    <3> QED
      BY <3>2
  <2> QED
    BY <2>4, <2>5
<1> HIDE DEF S
<1>3. N \in S
  BY <1>1, <1>2, InductionUpTo
<1> QED
  BY <1>3 DEF S

LEMMA LeastIs ==
  ASSUME NEW N \in Nat, NEW f, \A n \in 1..N : f[n] \in Int, NEW c \in Int
  PROVE  \E x \in {c} \cup {f[n] : n \in 1..N} : \A y \in {c} \cup {f[n] : n \in 1..N} : x <= y
<1>1. PICK g : g = [n \in 1..N |-> -f[n]]
  OBVIOUS
<1>2. \A n \in 1..N : g[n] = -f[n] /\ g[n] \in Int
  BY <1>1
<1>3. PICK d \in Int : d = -c
  OBVIOUS
<1>4. PICK x \in {d} \cup {g[n] : n \in 1..N} : \A y \in {d} \cup {g[n] : n \in 1..N} : x >= y
  BY <1>2, GreatestIs
<1>5. CASE x = d
  <2>1. \A n \in 1..N : d >= g[n]
    BY <1>4, <1>5
  <2>2. \A n \in 1..N : c <= f[n]
    BY <1>2, <1>3, <2>1
  <2> QED
    BY <2>2
<1>6. CASE \E n \in 1..N : x = g[n]
  <2>1. PICK n \in 1..N : x = g[n]
    BY <1>6
  <2>2. g[n] >= d /\ \A m \in 1..N : g[n] >= g[m]
    BY <1>4, <2>1
  <2>3. f[n] <= c /\ \A m \in 1..N : f[n] <= f[m]
    BY <1>2, <1>3, <2>2
  <2> QED
    BY <2>3
<1> QED
  BY <1>4, <1>5, <1>6

\* The last of the first ends of some events, and the first of their last starts.
LastEnd(events) == Max({NegInf} \cup {events[n].range.ee : n \in DOMAIN events})
FirstStart(events) == Min({PosInf} \cup {events[n].range.ls : n \in DOMAIN events})

\* Knowing less of as many events.
AllSharper(vs, ss, N) ==
  /\ DOMAIN vs = 1..N /\ DOMAIN ss = 1..N
  /\ \A n \in 1..N : Sharper(vs[n].range, ss[n].range)

LEMMA LastEndFollows ==
  ASSUME NEW N \in Nat, NEW vs, NEW ss, AllSharper(vs, ss, N)
  PROVE  /\ LastEnd(vs) \in Int /\ LastEnd(ss) \in Int
         /\ MinInt <= LastEnd(vs) /\ LastEnd(vs) <= LastEnd(ss) /\ LastEnd(ss) <= MaxInt
<1> DEFINE A == {NegInf} \cup {vs[n].range.ee : n \in 1..N}
           B == {NegInf} \cup {ss[n].range.ee : n \in 1..N}
<1>1. PICK f, g : f = [n \in 1..N |-> vs[n].range.ee] /\ g = [n \in 1..N |-> ss[n].range.ee]
  OBVIOUS
<1>2. \A n \in 1..N : f[n] = vs[n].range.ee /\ g[n] = ss[n].range.ee
  BY <1>1
<1>3. \A n \in 1..N : /\ f[n] \in Int /\ g[n] \in Int /\ f[n] <= g[n]
                      /\ MinInt <= f[n] /\ f[n] <= MaxInt /\ MinInt <= g[n] /\ g[n] <= MaxInt
  BY <1>2 DEF AllSharper, Sharper, Includes, InTicks
<1>4. NegInf = MinInt /\ MinInt \in Int /\ MaxInt \in Int /\ MinInt <= MaxInt
  BY DayOfTicks DEF NegInf
<1>5. A = {NegInf} \cup {f[n] : n \in 1..N} /\ B = {NegInf} \cup {g[n] : n \in 1..N}
  BY <1>2
<1>6. (\E x \in A : \A y \in A : x >= y) /\ (\E x \in B : \A y \in B : x >= y)
  <2>1. PICK c \in Int : c = NegInf
    BY <1>4
  <2>2. \A n \in 1..N : f[n] \in Int
    BY <1>3
  <2>3. \A n \in 1..N : g[n] \in Int
    BY <1>3
  <2>4. \E x \in {c} \cup {f[n] : n \in 1..N} : \A y \in {c} \cup {f[n] : n \in 1..N} : x >= y
    BY <2>2, GreatestIs
  <2>5. \E x \in {c} \cup {g[n] : n \in 1..N} : \A y \in {c} \cup {g[n] : n \in 1..N} : x >= y
    BY <2>3, GreatestIs
  <2> HIDE DEF A, B
  <2> QED
    BY <1>5, <2>1, <2>4, <2>5
<1>7. LastEnd(vs) = Max(A) /\ LastEnd(ss) = Max(B)
  BY DEF LastEnd, AllSharper
<1>8. A \subseteq Int /\ B \subseteq Int
  BY <1>3, <1>4, <1>5
<1>9. MinInt \in A /\ \A n \in 1..N : g[n] \in B
  BY <1>4, <1>5
<1>10. \A z \in A : z = MinInt \/ \E n \in 1..N : z = f[n]
  BY <1>4, <1>5
<1>11. \A z \in B : z = MinInt \/ \E n \in 1..N : z = g[n]
  BY <1>4, <1>5
<1>12. MinInt \in B
  BY <1>4, <1>5
<1> HIDE DEF A, B
<1>13. PICK p, q : p = Max(A) /\ q = Max(B)
  OBVIOUS
<1>14. p \in A /\ \A y \in A : p >= y
  BY <1>6, <1>13 DEF Max
<1>15. q \in B /\ \A y \in B : q >= y
  BY <1>6, <1>13 DEF Max
<1>16. p \in Int /\ q \in Int /\ MinInt <= p /\ q <= MaxInt
  BY <1>3, <1>4, <1>8, <1>9, <1>11, <1>14, <1>15
<1>17. p <= q
  <2>1. CASE p = MinInt
    BY <1>12, <1>15, <1>16, <2>1
  <2>2. ASSUME NEW n \in 1..N, p = f[n] PROVE p <= q
    <3>1. f[n] <= g[n] /\ g[n] <= q /\ f[n] \in Int /\ g[n] \in Int
      BY <1>3, <1>9, <1>15, <1>16
    <3> QED
      BY <1>16, <2>2, <3>1
  <2> QED
    BY <1>10, <1>14, <2>1, <2>2
<1> QED
  BY <1>7, <1>13, <1>16, <1>17

LEMMA FirstStartFollows ==
  ASSUME NEW N \in Nat, NEW vs, NEW ss, AllSharper(vs, ss, N)
  PROVE  /\ FirstStart(vs) \in Int /\ FirstStart(ss) \in Int
         /\ MinInt <= FirstStart(ss) /\ FirstStart(ss) <= FirstStart(vs) /\ FirstStart(vs) <= MaxInt
<1> DEFINE A == {PosInf} \cup {vs[n].range.ls : n \in 1..N}
           B == {PosInf} \cup {ss[n].range.ls : n \in 1..N}
<1>1. PICK f, g : f = [n \in 1..N |-> vs[n].range.ls] /\ g = [n \in 1..N |-> ss[n].range.ls]
  OBVIOUS
<1>2. \A n \in 1..N : f[n] = vs[n].range.ls /\ g[n] = ss[n].range.ls
  BY <1>1
<1>3. \A n \in 1..N : /\ f[n] \in Int /\ g[n] \in Int /\ g[n] <= f[n]
                      /\ MinInt <= f[n] /\ f[n] <= MaxInt /\ MinInt <= g[n] /\ g[n] <= MaxInt
  BY <1>2 DEF AllSharper, Sharper, Includes, InTicks
<1>4. PosInf = MaxInt /\ MinInt \in Int /\ MaxInt \in Int /\ MinInt <= MaxInt
  BY DayOfTicks DEF PosInf
<1>5. A = {PosInf} \cup {f[n] : n \in 1..N} /\ B = {PosInf} \cup {g[n] : n \in 1..N}
  BY <1>2
<1>6. (\E x \in A : \A y \in A : x <= y) /\ (\E x \in B : \A y \in B : x <= y)
  <2>1. PICK c \in Int : c = PosInf
    BY <1>4
  <2>2. \A n \in 1..N : f[n] \in Int
    BY <1>3
  <2>3. \A n \in 1..N : g[n] \in Int
    BY <1>3
  <2>4. \E x \in {c} \cup {f[n] : n \in 1..N} : \A y \in {c} \cup {f[n] : n \in 1..N} : x <= y
    BY <2>2, LeastIs
  <2>5. \E x \in {c} \cup {g[n] : n \in 1..N} : \A y \in {c} \cup {g[n] : n \in 1..N} : x <= y
    BY <2>3, LeastIs
  <2> HIDE DEF A, B
  <2> QED
    BY <1>5, <2>1, <2>4, <2>5
<1>7. FirstStart(vs) = Min(A) /\ FirstStart(ss) = Min(B)
  BY DEF FirstStart, AllSharper
<1>8. A \subseteq Int /\ B \subseteq Int
  BY <1>3, <1>4, <1>5
<1>9. MaxInt \in A /\ \A n \in 1..N : g[n] \in B
  BY <1>4, <1>5
<1>10. \A z \in A : z = MaxInt \/ \E n \in 1..N : z = f[n]
  BY <1>4, <1>5
<1>11. \A z \in B : z = MaxInt \/ \E n \in 1..N : z = g[n]
  BY <1>4, <1>5
<1>12. MaxInt \in B
  BY <1>4, <1>5
<1> HIDE DEF A, B
<1>13. PICK p, q : p = Min(A) /\ q = Min(B)
  OBVIOUS
<1>14. p \in A /\ \A y \in A : p <= y
  BY <1>6, <1>13 DEF Min
<1>15. q \in B /\ \A y \in B : q <= y
  BY <1>6, <1>13 DEF Min
<1>16. p \in Int /\ q \in Int /\ p <= MaxInt /\ MinInt <= q
  BY <1>3, <1>4, <1>8, <1>9, <1>11, <1>14, <1>15
<1>17. q <= p
  <2>1. CASE p = MaxInt
    BY <1>12, <1>15, <1>16, <2>1
  <2>2. ASSUME NEW n \in 1..N, p = f[n] PROVE q <= p
    <3>1. g[n] <= f[n] /\ q <= g[n] /\ f[n] \in Int /\ g[n] \in Int
      BY <1>3, <1>9, <1>15, <1>16
    <3> QED
      BY <1>16, <2>2, <3>1
  <2> QED
    BY <1>10, <1>14, <2>1, <2>2
<1> QED
  BY <1>7, <1>13, <1>16, <1>17

\* The anchors of an expression are found.
LEMMA AnchorsFound ==
  ASSUME NEW cal, NEW a, NEW b, NEW names \in Seq({"a", "b"})
  PROVE  /\ DOMAIN Anchors(cal, Known(cal, a, b), names) = 1..Len(names)
         /\ \A n \in 1..Len(names) :
              LET t == Anchors(cal, Known(cal, a, b), names)[n]
              IN  IsResolved(t) /\ t.range = IF names[n] = "a" THEN a ELSE b
         /\ \E T : Anchors(cal, Known(cal, a, b), names) \in Seq(T) /\ \A t \in T : IsResolved(t)
<1> DEFINE t(name) == Anchored(cal, Known(cal, a, b)[name])
           T == {t("a"), t("b")}
           times == Anchors(cal, Known(cal, a, b), names)
<1>1. DOMAIN names = 1..Len(names) /\ \A n \in 1..Len(names) : names[n] \in {"a", "b"}
  OBVIOUS
<1>2. times = [n \in 1..Len(names) |-> t(names[n])]
  BY <1>1 DEF Anchors
<1>3. \A name \in {"a", "b"} : IsResolved(t(name)) /\ t(name).range = IF name = "a" THEN a ELSE b
  BY FoundIs
<1> HIDE DEF t
<1>4. \A n \in 1..Len(names) : t(names[n]) \in T
  BY <1>1
<1>5. Len(names) \in Nat
  OBVIOUS
<1>6. times \in Seq(T)
  BY <1>2, <1>4, <1>5
<1>7. \A u \in T : IsResolved(u)
  BY <1>3
<1>8. DOMAIN times = 1..Len(names) /\ \A n \in 1..Len(names) : times[n] = t(names[n])
  BY <1>2
<1>9. \A n \in 1..Len(names) : IsResolved(times[n]) /\ times[n].range = IF names[n] = "a" THEN a ELSE b
  BY <1>1, <1>3, <1>8
<1> HIDE DEF times, T
<1>10. \E U : times \in Seq(U) /\ \A u \in U : IsResolved(u)
  BY <1>6, <1>7
<1> QED
  BY <1>8, <1>9, <1>10 DEF times

\* Among events that are found.
LEMMA BetweenIs ==
  ASSUME NEW T, NEW U, \A t \in T : IsResolved(t), \A t \in U : IsResolved(t), NEW after \in Seq(T), NEW before \in Seq(U)
  PROVE  BetweenEvents(after, before)
           = IF LastEnd(after) >= FirstStart(before) THEN Unresolved("contradiction")
             ELSE Resolved(Within(LastEnd(after), FirstStart(before)))
<1>1. PICK all : all = after \o before
  OBVIOUS
<1>2. all \in Seq(T \cup U)
  <2>1. after \in Seq(T \cup U) /\ before \in Seq(T \cup U)
    OBVIOUS
  <2> QED
    BY <1>1, <2>1
<1>3. \A n \in DOMAIN all : all[n] \in T \cup U
  BY <1>2
<1>4. \A n \in DOMAIN all : IsResolved(all[n])
  BY <1>3
<1>5. Failing(all) = {}
  BY <1>4 DEF Failing
<1> QED
  BY <1>1, <1>5 DEF BetweenEvents, LastEnd, FirstStart

\* It follows the events, if there are any on a side.
LEMMA BetweenFollows ==
  ASSUME NEW cal, NEW a, NEW b, NEW x, NEW y, Sharper(a, x), Sharper(b, y),
         NEW after \in Seq({"a", "b"}), NEW before \in Seq({"a", "b"}),
         NEW v, v = BetweenEvents(Anchors(cal, Known(cal, a, b), after), Anchors(cal, Known(cal, a, b), before)),
         NEW s, s = BetweenEvents(Anchors(cal, Known(cal, x, y), after), Anchors(cal, Known(cal, x, y), before))
  PROVE  Follows(v, s) /\ IsTime(v) /\ IsTime(s)
<1>1. PICK p, q, u, w : /\ p = Anchors(cal, Known(cal, a, b), after) /\ q = Anchors(cal, Known(cal, a, b), before)
                        /\ u = Anchors(cal, Known(cal, x, y), after) /\ w = Anchors(cal, Known(cal, x, y), before)
  OBVIOUS
<1>2. AllSharper(p, u, Len(after)) /\ Len(after) \in Nat
  <2>1. /\ DOMAIN p = 1..Len(after) /\ DOMAIN u = 1..Len(after)
        /\ \A n \in 1..Len(after) : p[n].range = (IF after[n] = "a" THEN a ELSE b) /\ u[n].range = (IF after[n] = "a" THEN x ELSE y)
    BY <1>1, AnchorsFound
  <2> QED
    BY <2>1 DEF AllSharper
<1>3. AllSharper(q, w, Len(before)) /\ Len(before) \in Nat
  <2>1. /\ DOMAIN q = 1..Len(before) /\ DOMAIN w = 1..Len(before)
        /\ \A n \in 1..Len(before) : q[n].range = (IF before[n] = "a" THEN a ELSE b) /\ w[n].range = (IF before[n] = "a" THEN x ELSE y)
    BY <1>1, AnchorsFound
  <2> QED
    BY <2>1 DEF AllSharper
<1>4. PICK k \in Int, l \in Int, m \in Int, n \in Int :
        k = LastEnd(p) /\ l = FirstStart(q) /\ m = LastEnd(u) /\ n = FirstStart(w)
  BY <1>2, <1>3, LastEndFollows, FirstStartFollows
<1>5. MinInt <= k /\ k <= m /\ m <= MaxInt /\ MinInt <= n /\ n <= l /\ l <= MaxInt
  BY <1>2, <1>3, <1>4, LastEndFollows, FirstStartFollows
<1>7. v = IF k >= l THEN Unresolved("contradiction") ELSE Resolved(Within(k, l))
  <2>1. PICK T : p \in Seq(T) /\ \A t \in T : IsResolved(t)
    BY <1>1, AnchorsFound
  <2>2. PICK U : q \in Seq(U) /\ \A t \in U : IsResolved(t)
    BY <1>1, AnchorsFound
  <2> QED
    BY <1>1, <1>4, <2>1, <2>2, BetweenIs
<1>8. s = IF m >= n THEN Unresolved("contradiction") ELSE Resolved(Within(m, n))
  <2>1. PICK T : u \in Seq(T) /\ \A t \in T : IsResolved(t)
    BY <1>1, AnchorsFound
  <2>2. PICK U : w \in Seq(U) /\ \A t \in U : IsResolved(t)
    BY <1>1, AnchorsFound
  <2> QED
    BY <1>1, <1>4, <2>1, <2>2, BetweenIs
<1>9. IsTime(v) /\ IsTime(s)
  BY <1>7, <1>8, MadeTimes
<1>10. CASE m < n
  <2>1. v = Resolved(Within(k, l)) /\ s = Resolved(Within(m, n))
    BY <1>5, <1>7, <1>8, <1>10
  <2>2. Sharper(Range4(k, l, k, l), Range4(m, n, m, n))
    <3>1. MinInt \in Int /\ MaxInt \in Int /\ MinInt < 0 /\ 0 < MaxInt
      BY DayOfTicks
    <3>2. /\ MinInt <= k /\ k <= MaxInt /\ MinInt <= l /\ l <= MaxInt
          /\ MinInt <= m /\ m <= MaxInt /\ m < MaxInt /\ MinInt <= n /\ MinInt < n /\ n <= MaxInt
      BY <1>5, <1>10, <3>1
    <3>3. ASSUME NEW e \in Int, NEW f \in Int, MinInt <= e, e <= MaxInt, MinInt <= f, f <= MaxInt
          PROVE  InTicks(Range4(e, f, e, f))
      BY <3>3 DEF InTicks, Range4
    <3>4. Proper(Range4(m, n, m, n))
      BY <1>10, <3>2 DEF Proper, Range4
    <3>5. Includes(Range4(k, l, k, l), Range4(m, n, m, n))
      BY <1>5 DEF Includes, Range4
    <3> QED
      BY <3>2, <3>3, <3>4, <3>5 DEF Sharper
  <2>3. Sharper(Within(k, l), Within(m, n))
    BY <2>2, NormalizedSharper DEF Within
  <2> QED
    BY <1>9, <2>1, <2>3, MadeTimes DEF Follows
<1>11. CASE ~ (m < n)
  <2>1. s = Unresolved("contradiction")
    BY <1>8, <1>11
  <2> QED
    BY <1>9, <2>1, MadeTimes DEF Follows
<1> QED
  BY <1>10, <1>11

\* From one time to another.
LEMMA IntervalFollows ==
  ASSUME NEW p, NEW q, NEW u, NEW w, Sharper(p.range, u.range), Sharper(q.range, w.range),
         IsResolved(p), IsResolved(q), IsResolved(u), IsResolved(w)
  PROVE  Follows(IntervalOf(p, q), IntervalOf(u, w))
<1>1. PICK a \in Int, b \in Int, c \in Int, d \in Int : a = p.range.es /\ b = p.range.le /\ c = q.range.es /\ d = q.range.le
  BY DEF Sharper, InTicks
<1>2. PICK e \in Int, f \in Int, g \in Int, h \in Int : e = u.range.es /\ f = u.range.le /\ g = w.range.es /\ h = w.range.le
  BY DEF Sharper, InTicks
<1>3. /\ a <= e /\ f <= b /\ c <= g /\ h <= d
      /\ e <= f /\ g <= h /\ e < MaxInt /\ h > MinInt
  BY <1>1, <1>2 DEF Sharper, Proper, Includes
<1>4. /\ MinInt <= a /\ a <= MaxInt /\ MinInt <= b /\ b <= MaxInt /\ MinInt <= c /\ c <= MaxInt /\ MinInt <= d /\ d <= MaxInt
      /\ MinInt <= e /\ e <= MaxInt /\ MinInt <= f /\ f <= MaxInt /\ MinInt <= g /\ g <= MaxInt /\ MinInt <= h /\ h <= MaxInt
  BY <1>1, <1>2 DEF Sharper, InTicks
<1>5. \A z : Finite(z) <=> z # MinInt /\ z # MaxInt
  BY DEF Finite, NegInf, PosInf
<1>6. MinInt \in Int /\ MaxInt \in Int
  BY DayOfTicks
<1>7. \A z : IsResolved(Resolved(z)) /\ Resolved(z).range = z
  BY DEF IsResolved, Resolved
<1>8. CASE Finite(e) /\ Finite(h) /\ e >= h
  <2>1. IntervalOf(u, w) = Unresolved("contradiction")
    BY <1>2, <1>8 DEF IntervalOf
  <2>2. ~ IsResolved(Unresolved("contradiction"))
    BY DEF IsResolved, Unresolved, Resolved
  <2> QED
    BY <2>1, <2>2 DEF Follows
<1>9. CASE ~ (Finite(e) /\ Finite(h) /\ e >= h)
  <2>1. ~ (Finite(a) /\ Finite(d) /\ a >= d) /\ e <= h
    BY <1>3, <1>4, <1>5, <1>6, <1>9
  <2>2. IntervalOf(u, w) = Resolved(Normalized(Range4(e, f, g, h)))
    BY <1>2, <1>9 DEF IntervalOf
  <2>3. IntervalOf(p, q) = Resolved(Normalized(Range4(a, b, c, d)))
    BY <1>1, <2>1 DEF IntervalOf
  <2>4. InTicks(Range4(a, b, c, d)) /\ InTicks(Range4(e, f, g, h))
    BY <1>4 DEF InTicks, Range4
  <2>5. Proper(Range4(e, f, g, h)) /\ Includes(Range4(a, b, c, d), Range4(e, f, g, h))
    BY <1>3, <2>1 DEF Proper, Includes, Range4
  <2>6. Sharper(Normalized(Range4(a, b, c, d)), Normalized(Range4(e, f, g, h)))
    BY <2>4, <2>5, NormalizedSharper DEF Sharper
  <2> QED
    BY <1>7, <2>2, <2>3, <2>6 DEF Follows
<1> QED
  BY <1>8, <1>9

\* The more a time leaves open, the more "about" adds to it.
LEMMA FuzzMore ==
  ASSUME NEW cal, Counts(cal), NEW w \in Nat, NEW x \in Nat, w <= x
  PROVE  ApproxFuzz(cal, w) \in Nat /\ ApproxFuzz(cal, x) \in Nat /\ ApproxFuzz(cal, w) <= ApproxFuzz(cal, x)
<1>1. PICK hour \in Nat : hour = DayLength(cal) \div 24
  <2>1. DayLength(cal) \in Nat /\ 24 \in Nat \ {0}
    BY LengthsOf
  <2> QED
    BY <2>1, DividedNat
<1>2. PICK half \in Nat : half = hour \div 2 /\ half <= hour
  <2>1. hour \div 2 \in Nat /\ hour \div 2 <= hour
    BY SMT
  <2> QED
    BY <2>1
<1>3. w # NoWidth /\ x # NoWidth
  BY DEF NoWidth
<1>4. ApproxFuzz(cal, w) = IF w <= hour THEN half ELSE w
  BY <1>1, <1>2, <1>3 DEF ApproxFuzz
<1>5. ApproxFuzz(cal, x) = IF x <= hour THEN half ELSE x
  BY <1>1, <1>2, <1>3 DEF ApproxFuzz
<1> QED
  BY <1>2, <1>4, <1>5

\* How much a time leaves open, if it is finite.
LEMMA WidthMore ==
  ASSUME NEW v, NEW s, Sharper(v, s), Finite(v.es), Finite(v.le)
  PROVE  Width(v) \in Nat /\ Width(s) \in Nat /\ Width(s) <= Width(v)
<1>1. PICK a \in Int, d \in Int, e \in Int, h \in Int : a = v.es /\ d = v.le /\ e = s.es /\ h = s.le
  BY DEF Sharper, InTicks
<1>2. /\ a <= e /\ h <= d /\ e <= h /\ e < MaxInt /\ h > MinInt
      /\ MinInt <= a /\ a <= MaxInt /\ MinInt <= d /\ d <= MaxInt
      /\ MinInt <= e /\ e <= MaxInt /\ MinInt <= h /\ h <= MaxInt
  BY <1>1 DEF Sharper, InTicks, Proper, Includes
<1>3. MinInt \in Int /\ MaxInt \in Int /\ MinInt < 0 /\ MaxInt > 0
  BY DayOfTicks
<1>4. \A z : Finite(z) <=> z # MinInt /\ z # MaxInt
  BY DEF Finite, NegInf, PosInf
<1>5. Finite(a) /\ Finite(d) /\ Finite(e) /\ Finite(h)
  BY <1>1, <1>2, <1>3, <1>4
<1>6. Width(v) = Saturated(d - a) /\ Width(s) = Saturated(h - e)
  BY <1>1, <1>5 DEF Width
<1>7. PICK x \in Nat, y \in Nat : x = h - e /\ y = d - a /\ x <= y
  <2>1. h - e \in Nat /\ d - a \in Nat /\ h - e <= d - a
    BY <1>2
  <2> QED
    BY <2>1
<1>8. Saturated(x) \in Nat /\ Saturated(y) \in Nat /\ Saturated(x) <= Saturated(y)
  BY <1>3, <1>7 DEF Saturated, Smaller, Larger
<1> QED
  BY <1>6, <1>7, <1>8

\* About a time that is finite.
LEMMA ApproxFollows ==
  ASSUME NEW cal, Counts(cal), NEW v, NEW s, Follows(v, s), IsTime(v), IsTime(s),
         IsResolved(v) => Width(v.range) # NoWidth
  PROVE  /\ Follows(Approximately(cal, v), Approximately(cal, s))
         /\ IsTime(Approximately(cal, v)) /\ IsTime(Approximately(cal, s))
<1>1. ASSUME NEW t, IsTime(t)
      PROVE  /\ IsTime(Approximately(cal, t)) /\ (IsResolved(Approximately(cal, t)) <=> IsResolved(t))
             /\ (IsResolved(t) => Approximately(cal, t).range = Widen(t.range, ApproxFuzz(cal, Width(t.range))))
  <2>1. PICK x : x = Widen(t.range, ApproxFuzz(cal, Width(t.range)))
    OBVIOUS
  <2>2. IsTime([t EXCEPT !.range = x]) /\ [t EXCEPT !.range = x].range = x /\ [t EXCEPT !.range = x].error = t.error
    BY <1>1 DEF IsTime
  <2>3. Approximately(cal, t) = IF IsResolved(t) THEN [t EXCEPT !.range = x] ELSE t
    BY <2>1 DEF Approximately
  <2> QED
    BY <1>1, <2>1, <2>2, <2>3 DEF IsResolved
<1>2. ASSUME IsResolved(s)
      PROVE  IsResolved(v) /\ Sharper(Widen(v.range, ApproxFuzz(cal, Width(v.range))), Widen(s.range, ApproxFuzz(cal, Width(s.range))))
  <2>1. IsResolved(v) /\ Sharper(v.range, s.range)
    BY <1>2 DEF Follows
  <2>2. PICK a, b : a = v.range /\ b = s.range
    OBVIOUS
  <2>3. Sharper(a, b) /\ Finite(a.es) /\ Finite(a.le)
    BY <2>1, <2>2 DEF Width
  <2>4. PICK w \in Nat, x \in Nat : w = ApproxFuzz(cal, Width(b)) /\ x = ApproxFuzz(cal, Width(a)) /\ w <= x
    BY <2>3, WidthMore, FuzzMore
  <2>5. PICK y \in Int, z \in Int : y = -x /\ z = -w /\ y <= z /\ z <= w
    <3>1. -x \in Int /\ -w \in Int /\ -x <= -w /\ -w <= w
      BY <2>4
    <3> QED
      BY <3>1
  <2>6. Sharper(Shift(a, y, x), Shift(b, z, w))
    BY <2>3, <2>4, <2>5, ShiftSharper
  <2>7. Widen(a, x) = Shift(a, y, x) /\ Widen(b, w) = Shift(b, z, w)
    BY <2>5 DEF Widen
  <2> QED
    BY <2>1, <2>2, <2>4, <2>6, <2>7
<1>3. Follows(Approximately(cal, v), Approximately(cal, s))
  BY <1>1, <1>2 DEF Follows
<1> QED
  BY <1>1, <1>3

\* All of time.
LEMMA AllOfTime == Sharper(UnknownRange, UnknownRange)
<1>1. UnknownRange = Range4(MinInt, MaxInt, MinInt, MaxInt)
  BY DayOfTicks DEF UnknownRange, Within, Normalized, Range4, Smaller, Larger, NegInf, PosInf
<1>2. Sharper(Range4(MinInt, MaxInt, MinInt, MaxInt), Range4(MinInt, MaxInt, MinInt, MaxInt))
  BY DayOfTicks DEF Sharper, InTicks, Proper, Includes, Range4
<1> QED
  BY <1>1, <1>2

\* A stretch of time is as sharp as itself.
LEMMA WithinTicks ==
  ASSUME NEW p \in Int, NEW q \in Int, MinInt <= p, p <= q, q <= MaxInt, p < MaxInt, MinInt < q
  PROVE  Sharper(Within(p, q), Within(p, q)) /\ Within(p, q) = Range4(p, q, p, q)
<1>1. MinInt \in Int /\ MaxInt \in Int
  BY DayOfTicks
<1>2. p <= MaxInt /\ MinInt <= q
  BY <1>1
<1>3. Within(p, q) = Range4(p, q, p, q)
  BY DEF Within, Normalized, Range4, Smaller, Larger
<1>4. Sharper(Range4(p, q, p, q), Range4(p, q, p, q))
  BY <1>2 DEF Sharper, InTicks, Proper, Includes, Range4
<1> QED
  BY <1>3, <1>4

\* A time that no event has to do with.
Alone(t) == IsTime(t) /\ (IsResolved(t) => Sharper(t.range, t.range))

\* A date does not.
LEMMA DateAlone ==
  ASSUME NEW cal \in Calendars, NEW node, DatesTicks(node)
  PROVE  Alone(DateAst(cal, Missing, node))
<1>1. PICK d, t : d = node.date /\ t = DateAst(cal, Missing, node)
  OBVIOUS
<1>2. CASE d.year = Missing
  <2>1. t = Unresolved("needs_reference")
    BY <1>1, <1>2 DEF DateAst
  <2> QED
    BY <1>1, <2>1, MadeTimes DEF Alone
<1>3. CASE d.year # Missing /\ DateBounds(cal, d, Missing) = NoBounds
  <2>1. Window(NoBounds) = Unresolved("unsupported")
    BY DEF Window
  <2>2. ~ IsResolved(Unresolved("unsupported")) /\ IsTime(Unresolved("unsupported"))
    BY MadeTimes
  <2>3. t = Unresolved("unsupported")
    BY <1>1, <1>3, <2>1, <2>2 DEF DateAst, OfDate, Uncertain
  <2> QED
    BY <1>1, <2>2, <2>3 DEF Alone
<1>4. CASE d.year # Missing /\ DateBounds(cal, d, Missing) # NoBounds
  <2>1. PICK b : b = DateBounds(cal, d, Missing)
    OBVIOUS
  <2>2. PICK p \in Int, q \in Int : p = b[1] /\ q = b[2] /\ MinInt <= p /\ p <= MaxInt /\ MinInt <= q /\ q <= MaxInt
                                    /\ p < MaxInt /\ q > MinInt /\ p <= q
    <3>1. b[1] \in MinInt..MaxInt /\ b[2] \in MinInt..MaxInt /\ b[1] < MaxInt /\ b[2] > MinInt /\ b[1] <= b[2]
      BY <1>1, <1>4, <2>1 DEF DatesTicks
    <3>2. \A z \in MinInt..MaxInt : z \in Int /\ MinInt <= z /\ z <= MaxInt
      BY DayOfTicks
    <3> QED
      BY <3>1, <3>2
  <2>3. Sharper(Within(p, q), Within(p, q)) /\ Within(p, q) = Range4(p, q, p, q)
    BY <2>2, WithinTicks
  <2>4. Window(b) = Resolved(Within(p, q))
    BY <1>4, <2>1, <2>2 DEF Window
  <2>5. CASE d.uncertain
    <3>1. t = Uncertain(Resolved(Within(p, q)))
      BY <1>1, <1>4, <2>1, <2>4, <2>5 DEF DateAst, OfDate
    <3>2. PICK e \in Int : e = Offset(q, 60 * TicksPerDay) /\ q <= e /\ e <= MaxInt
      <4>1. PICK k \in Nat : k = 60 * TicksPerDay
        BY DayOfTicks
      <4>2. Offset(q, 0) \in Int /\ Offset(q, k) \in Int /\ Offset(q, 0) <= Offset(q, k) /\ Offset(q, k) <= MaxInt
        <5>1. q \in Int /\ 0 \in Int /\ k \in Int /\ 0 <= k /\ q <= q /\ MinInt <= q /\ q <= MaxInt
          BY <2>2
        <5> QED
          BY <5>1, OffsetLater, Zenon
      <4>3. Offset(q, 0) = q
        BY <2>2, DayOfTicks DEF Offset, Finite, Clamped, Smaller, Larger, NegInf, PosInf
      <4> QED
        BY <4>1, <4>2, <4>3
    <3>3. Resolved(Within(p, q)).range.es = p /\ Resolved(Within(p, q)).range.le = q
      BY <2>3, MadeTimes DEF Range4
    <3>4. Uncertain(Resolved(Within(p, q))) = Resolved(Within(p, e))
      BY <3>2, <3>3, MadeTimes DEF Uncertain
    <3>5. p <= e /\ MinInt < e
      BY <2>2, <3>2, DayOfTicks
    <3>6. Sharper(Within(p, e), Within(p, e))
      BY <2>2, <3>2, <3>5, WithinTicks
    <3> QED
      BY <1>1, <3>1, <3>4, <3>6, MadeTimes DEF Alone
  <2>6. CASE ~ d.uncertain
    <3>1. t = Resolved(Within(p, q))
      BY <1>1, <1>4, <2>1, <2>4, <2>6 DEF DateAst, OfDate
    <3> QED
      BY <1>1, <2>3, <3>1, MadeTimes DEF Alone
  <2> QED
    BY <2>5, <2>6
<1> QED
  BY <1>2, <1>3, <1>4

\* Nor does what is counted from a reference, of which there is none, and what recurs.
LEMMA OthersAlone ==
  ASSUME NEW cal, NEW lookup, NEW node, node.node \in {"reference", "weekday", "recurring", "unknown", "unparsed"}
  PROVE  /\ SimpleAst(cal, Missing, lookup, node) = SimpleAst(cal, Missing, <<>>, node)
         /\ Alone(SimpleAst(cal, Missing, lookup, node))
<1>1. CASE node.node = "reference"
  <2>1. SimpleAst(cal, Missing, lookup, node) = RelativeToReference(cal, Missing, node)
    BY <1>1 DEF SimpleAst
  <2>2. SimpleAst(cal, Missing, <<>>, node) = RelativeToReference(cal, Missing, node)
    BY <1>1 DEF SimpleAst
  <2>3. RelativeToReference(cal, Missing, node) = Unresolved("needs_reference")
    BY DEF RelativeToReference, RelativeToDay
  <2> QED
    BY <2>1, <2>2, <2>3, MadeTimes DEF Alone
<1>2. CASE node.node = "weekday"
  <2>1. SimpleAst(cal, Missing, lookup, node) = WeekdayAst(cal, Missing, node)
    BY <1>2 DEF SimpleAst
  <2>2. SimpleAst(cal, Missing, <<>>, node) = WeekdayAst(cal, Missing, node)
    BY <1>2 DEF SimpleAst
  <2>3. WeekdayAst(cal, Missing, node) = Unresolved("needs_reference")
    BY DEF WeekdayAst, DayOfWeek
  <2> QED
    BY <2>1, <2>2, <2>3, MadeTimes DEF Alone
<1>3. CASE node.node = "recurring"
  <2>1. PICK t : t = RecurringAst(cal, node)
    OBVIOUS
  <2>2. SimpleAst(cal, Missing, lookup, node) = t
    BY <1>3, <2>1 DEF SimpleAst
  <2>3. SimpleAst(cal, Missing, <<>>, node) = t
    BY <1>3, <2>1 DEF SimpleAst
  <2>4. CASE cal.kind # "gregorian"
    <3>1. t = Unresolved("unsupported")
      BY <2>1, <2>4 DEF RecurringAst
    <3> QED
      BY <2>2, <2>3, <3>1, MadeTimes DEF Alone
  <2>5. CASE cal.kind = "gregorian"
    <3>1. IsTime(t) /\ t.range = UnknownRange
      BY <2>1, <2>5 DEF IsTime, RecurringAst, Resolved
    <3> QED
      BY <2>2, <2>3, <3>1, AllOfTime DEF Alone
  <2> QED
    BY <2>4, <2>5
<1>4. CASE node.node = "unknown"
  <2>1. SimpleAst(cal, Missing, lookup, node) = Unresolved("unknown") /\ SimpleAst(cal, Missing, <<>>, node) = Unresolved("unknown")
    BY <1>4 DEF SimpleAst
  <2> QED
    BY <2>1, MadeTimes DEF Alone
<1>5. CASE node.node = "unparsed"
  <2>1. SimpleAst(cal, Missing, lookup, node) = Unresolved("unparsed") /\ SimpleAst(cal, Missing, <<>>, node) = Unresolved("unparsed")
    BY <1>5 DEF SimpleAst
  <2> QED
    BY <2>1, MadeTimes DEF Alone
<1> QED
  BY <1>1, <1>2, <1>3, <1>4, <1>5

\* A time from less and a time from more.
Goes(v, s) == IsTime(v) /\ IsTime(s) /\ Follows(v, s)

LEMMA SimpleGoes ==
  ASSUME NEW cal \in Calendars, Counts(cal), NEW a, NEW b, NEW x, NEW y, Sharper(a, x), Sharper(b, y), NEW node, Simple(node)
  PROVE  Goes(SimpleAst(cal, Missing, Known(cal, a, b), node), SimpleAst(cal, Missing, Known(cal, x, y), node))
<1>1. PICK v, s : v = SimpleAst(cal, Missing, Known(cal, a, b), node) /\ s = SimpleAst(cal, Missing, Known(cal, x, y), node)
  OBVIOUS
<1>2. CASE RelatesTo(node, {"a", "b"})
  <2>1. cal.kind # "opaque"
    BY DEF Counts, Countable
  <2>2. IsTime(v) /\ IsTime(s)
    BY <1>1, <1>2, <2>1, RelativeIs, MadeTimes
  <2>3. IsResolved(v) /\ IsResolved(s) /\ Sharper(v.range, s.range)
    BY <1>1, <1>2, RelativeFollows
  <2> QED
    BY <1>1, <2>2, <2>3 DEF Goes, Follows
<1>3. CASE node.node = "between" /\ {node.after, node.before} \subseteq Seq({"a", "b"})
  <2>1. v = BetweenEvents(Anchors(cal, Known(cal, a, b), node.after), Anchors(cal, Known(cal, a, b), node.before))
    BY <1>1, <1>3 DEF SimpleAst
  <2>2. s = BetweenEvents(Anchors(cal, Known(cal, x, y), node.after), Anchors(cal, Known(cal, x, y), node.before))
    BY <1>1, <1>3 DEF SimpleAst
  <2>3. node.after \in Seq({"a", "b"}) /\ node.before \in Seq({"a", "b"})
    BY <1>3
  <2>4. Follows(v, s) /\ IsTime(v) /\ IsTime(s)
    BY <2>1, <2>2, <2>3, BetweenFollows
  <2> QED
    BY <1>1, <2>4 DEF Goes
<1>4. CASE DatesTicks(node)
  <2>1. node.node = "date"
    BY <1>4 DEF DatesTicks
  <2>2. v = DateAst(cal, Missing, node) /\ s = DateAst(cal, Missing, node)
    BY <1>1, <2>1 DEF SimpleAst
  <2>3. Alone(DateAst(cal, Missing, node))
    BY <1>4, DateAlone
  <2> QED
    BY <1>1, <2>2, <2>3 DEF Goes, Follows, Alone
<1>5. CASE node.node \in {"reference", "weekday", "recurring", "unknown", "unparsed"}
  <2>1. v = s /\ Alone(v)
    BY <1>1, <1>5, OthersAlone
  <2> QED
    BY <1>1, <2>1 DEF Goes, Follows, Alone
<1> QED
  BY <1>2, <1>3, <1>4, <1>5 DEF Simple

\* From one time to another, if both follow.
LEMMA IntervalGoes ==
  ASSUME NEW p, NEW q, NEW u, NEW w, Goes(p, u), Goes(q, w)
  PROVE  Goes(IntervalOf(p, q), IntervalOf(u, w))
<1>1. ASSUME NEW t, NEW z PROVE IsTime(IntervalOf(t, z))
  <2>1. (\E r : IntervalOf(t, z) = Resolved(r)) \/ (\E kind : IntervalOf(t, z) = Unresolved(kind))
    BY DEF IntervalOf
  <2> QED
    BY <2>1, MadeTimes
<1>2. CASE IsResolved(u) /\ IsResolved(w)
  <2>1. IsResolved(p) /\ IsResolved(q) /\ Sharper(p.range, u.range) /\ Sharper(q.range, w.range)
    BY <1>2 DEF Goes, Follows
  <2>2. Follows(IntervalOf(p, q), IntervalOf(u, w))
    BY <1>2, <2>1, IntervalFollows
  <2> QED
    BY <1>1, <2>2 DEF Goes
<1>3. CASE ~ (IsResolved(u) /\ IsResolved(w))
  <2>1. IntervalOf(u, w) = IF ~ IsResolved(u) THEN Unresolved(u.error) ELSE Unresolved(w.error)
    BY <1>3 DEF IntervalOf
  <2>2. ~ IsResolved(IntervalOf(u, w))
    BY <1>3, <2>1, MadeTimes DEF IsResolved
  <2> QED
    BY <1>1, <2>2 DEF Goes, Follows
<1> QED
  BY <1>2, <1>3

\* The times of an expression's nodes, from less and from more.
LEMMA NodeGoes ==
  ASSUME NEW cal \in Calendars, Counts(cal), NEW a, NEW b, NEW x, NEW y, Sharper(a, x), Sharper(b, y),
         NEW ast, NEW n \in Nat, NEW vs, NEW ss,
         \A m \in 1..(n - 1) : Goes(vs[m], ss[m]),
         \/ Simple(ast[n])
         \/ ast[n].node = "approx" /\ ast[n].inner \in 1..(n - 1)
         \/ ast[n].node = "interval" /\ {ast[n].start, ast[n].end} \subseteq 1..(n - 1),
         ast[n].node = "approx" /\ IsResolved(vs[ast[n].inner]) => Width(vs[ast[n].inner].range) # NoWidth
  PROVE  Goes(TimeOfNode(cal, Missing, Known(cal, a, b), ast, n, vs), TimeOfNode(cal, Missing, Known(cal, x, y), ast, n, ss))
<1>1. PICK node : node = ast[n]
  OBVIOUS
<1>2. PICK vt, st : vt = [m \in 1..(n - 1) |-> vs[m]] /\ st = [m \in 1..(n - 1) |-> ss[m]]
  OBVIOUS
<1>3. \A m \in 1..(n - 1) : vt[m] = vs[m] /\ st[m] = ss[m] /\ Goes(vt[m], st[m])
  BY <1>2
<1>4. /\ TimeOfNode(cal, Missing, Known(cal, a, b), ast, n, vs) = NodeTime(cal, Missing, Known(cal, a, b), ast, node, vt)
      /\ TimeOfNode(cal, Missing, Known(cal, x, y), ast, n, ss) = NodeTime(cal, Missing, Known(cal, x, y), ast, node, st)
  BY <1>1, <1>2 DEF TimeOfNode
<1>5. CASE Simple(node)
  <2>1. node.node # "approx" /\ node.node # "interval"
    BY <1>5 DEF Simple, RelatesTo, DatesTicks
  <2>2. /\ NodeTime(cal, Missing, Known(cal, a, b), ast, node, vt) = SimpleAst(cal, Missing, Known(cal, a, b), node)
        /\ NodeTime(cal, Missing, Known(cal, x, y), ast, node, st) = SimpleAst(cal, Missing, Known(cal, x, y), node)
    BY <2>1 DEF NodeTime
  <2> QED
    BY <1>4, <1>5, <2>2, SimpleGoes
<1>6. CASE node.node = "approx" /\ node.inner \in 1..(n - 1)
  <2>1. PICK v, s : v = vt[node.inner] /\ s = st[node.inner]
    OBVIOUS
  <2>2. Goes(v, s) /\ (IsResolved(v) => Width(v.range) # NoWidth)
    BY <1>1, <1>3, <1>6, <2>1
  <2>3. /\ NodeTime(cal, Missing, Known(cal, a, b), ast, node, vt) = Approximately(cal, v)
        /\ NodeTime(cal, Missing, Known(cal, x, y), ast, node, st) = Approximately(cal, s)
    BY <1>6, <2>1 DEF NodeTime
  <2> QED
    BY <1>4, <2>2, <2>3, ApproxFollows DEF Goes
<1>7. CASE node.node = "interval" /\ {node.start, node.end} \subseteq 1..(n - 1)
  <2>1. ASSUME NEW m \in 1..(n - 1) PROVE Goes(EndOf(ast, m, vt), EndOf(ast, m, st))
    <3>1. CASE ast[m].node = "unknown"
      <4>1. EndOf(ast, m, vt) = Resolved(UnknownRange) /\ EndOf(ast, m, st) = Resolved(UnknownRange)
        BY <3>1 DEF EndOf
      <4> QED
        BY <4>1, MadeTimes, AllOfTime DEF Goes, Follows
    <3>2. CASE ast[m].node # "unknown"
      BY <1>3, <3>2 DEF EndOf
    <3> QED
      BY <3>1, <3>2
  <2>2. /\ NodeTime(cal, Missing, Known(cal, a, b), ast, node, vt) = IntervalOf(EndOf(ast, node.start, vt), EndOf(ast, node.end, vt))
        /\ NodeTime(cal, Missing, Known(cal, x, y), ast, node, st) = IntervalOf(EndOf(ast, node.start, st), EndOf(ast, node.end, st))
    BY <1>7 DEF NodeTime
  <2>3. Goes(EndOf(ast, node.start, vt), EndOf(ast, node.start, st)) /\ Goes(EndOf(ast, node.end, vt), EndOf(ast, node.end, st))
    BY <1>7, <2>1
  <2> QED
    BY <1>4, <2>2, <2>3, IntervalGoes
<1> QED
  BY <1>1, <1>5, <1>6, <1>7

\* An expression's time follows what is known of the events it refers to, however it nests.
LEMMA ExpressionFollows ==
  ASSUME NEW cal \in Calendars, Counts(cal), NEW ast \in Expressions, NEW a, NEW b, NEW x, NEW y, Sharper(a, x), Sharper(b, y),
         NEW vs, vs = Times(cal, Missing, Known(cal, a, b), ast),
         NEW ss, ss = Times(cal, Missing, Known(cal, x, y), ast),
         ~ AboutUnbounded(ast, vs)
  PROVE  Follows(vs[Len(ast)], ss[Len(ast)])
<1>1. PICK N \in Nat : N = Len(ast) /\ N >= 1 /\ DOMAIN ast = 1..N
  <2>1. ast # <<>> /\ ast \in Seq(Range(ast))
    BY ExpressionsAssumption
  <2>2. PICK R : ast \in Seq(R)
    BY <2>1
  <2>3. Len(ast) \in Nat /\ DOMAIN ast = 1..Len(ast) /\ Len(ast) # 0
    BY <2>1, <2>2
  <2>4. Len(ast) >= 1
    BY <2>3
  <2> QED
    BY <2>3, <2>4
<1>2. ASSUME NEW n \in 1..N
      PROVE  /\ vs[n] = TimeOfNode(cal, Missing, Known(cal, a, b), ast, n, vs)
             /\ ss[n] = TimeOfNode(cal, Missing, Known(cal, x, y), ast, n, ss)
  BY <1>1, TimesAre
<1>3. ASSUME NEW n \in 1..N
      PROVE  /\ \/ Simple(ast[n])
                \/ ast[n].node = "approx" /\ ast[n].inner \in 1..(n - 1)
                \/ ast[n].node = "interval" /\ {ast[n].start, ast[n].end} \subseteq 1..(n - 1)
             /\ ast[n].node = "approx" /\ IsResolved(vs[ast[n].inner]) => Width(vs[ast[n].inner].range) # NoWidth
  <2>1. n \in DOMAIN ast
    BY <1>1
  <2> QED
    BY <2>1, ExpressionsAssumption DEF AboutUnbounded
<1> DEFINE S == {k \in 0..N : \A m \in 1..k : Goes(vs[m], ss[m])}
<1>4. 0 \in S
  OBVIOUS
<1>5. ASSUME NEW n \in 1..N, n - 1 \in S PROVE n \in S
  <2>1. \A m \in 1..(n - 1) : Goes(vs[m], ss[m])
    BY <1>5
  <2>2. n \in Nat
    OBVIOUS
  <2>3. Goes(vs[n], ss[n])
    BY <1>2, <1>3, <2>1, <2>2, NodeGoes
  <2>4. \A m \in 1..n : m \in 1..(n - 1) \/ m = n
    OBVIOUS
  <2>5. \A m \in 1..n : Goes(vs[m], ss[m])
    BY <2>1, <2>3, <2>4
  <2> QED
    BY <2>5
<1> HIDE DEF S
<1>6. N \in S
  BY <1>4, <1>5, InductionUpTo
<1>7. Goes(vs[N], ss[N])
  BY <1>1, <1>6 DEF S
<1> QED
  BY <1>1, <1>7 DEF Goes

\* What is asked about events is answered right.
LEMMA AfterRefersToEvents ==
  ASSUME RefersToEvents
  PROVE  LET ast == question'.ast
             times(a, b) == Times(question'.cal, Missing, Known(question'.cal, a, b), ast)
         IN  \A vague \in {times(question'.a, question'.b)} :
               ~ AboutUnbounded(ast, vague) =>
                 \A i \in Intervals(question'.a, Horizon), j \in Intervals(question'.b, Horizon) :
                   Vaguer(vague[Len(ast)], times(Exact(i.s, i.e), Exact(j.s, j.e))[Len(ast)])
<1>1. PICK cal \in Calendars, ast \in Expressions, a \in Events, b \in Events :
        question' = [about |-> "events", cal |-> cal, ast |-> ast, a |-> a, b |-> b]
  BY DEF RefersToEvents
<1>2. question'.cal = cal /\ question'.ast = ast /\ question'.a = a /\ question'.b = b
  BY <1>1
<1>3. Counts(cal)
  <2>1. Countable(cal)
    BY LawsAssumption
  <2>2. cal.kind = "gregorian" => cal.offset \in Int
    BY RecurrencesAssumption, DayOfTicks
  <2>3. cal.kind = "uniform" => cal.epoch \in Int /\ cal.perDay \in Nat \ {0}
    BY ReferencesAssumption
  <2> QED
    BY <2>1, <2>2, <2>3 DEF Counts
<1>4. InSightRange(a) /\ InSightRange(b)
  BY RangesAssumption
<1>5. PICK vague : vague = Times(cal, Missing, Known(cal, a, b), ast)
  OBVIOUS
<1>6. ASSUME ~ AboutUnbounded(ast, vague), NEW i \in Intervals(a, Horizon), NEW j \in Intervals(b, Horizon)
      PROVE  Vaguer(vague[Len(ast)], Times(cal, Missing, Known(cal, Exact(i.s, i.e), Exact(j.s, j.e)), ast)[Len(ast)])
  <2>1. PICK x, y : x = Exact(i.s, i.e) /\ y = Exact(j.s, j.e)
    OBVIOUS
  <2>2. Sharper(a, x) /\ Sharper(b, y)
    BY <1>4, <1>6, <2>1, EventSharper
  <2>3. PICK sharp : sharp = Times(cal, Missing, Known(cal, x, y), ast)
    OBVIOUS
  <2>4. Follows(vague[Len(ast)], sharp[Len(ast)])
    BY <1>3, <1>5, <1>6, <2>2, <2>3, ExpressionFollows
  <2> QED
    BY <2>1, <2>3, <2>4 DEF Follows, Sharper, Vaguer
<1> QED
  BY <1>2, <1>5, <1>6

\* The less is known of events, the vaguer is the time of an expression that refers to them, and
\* it is never wrong: for any ranges, calendars and distances, and expressions that nest as deep
\* as they like, unless they say "about" of what has an unknown bound (resolve.rs, range.rs).
THEOREM VagueButRight == Spec => []VaguerEventsVaguerTimes
<1>1. Init => VaguerEventsVaguerTimes
  BY DEF Init, Subjects, VaguerEventsVaguerTimes
<1>2. ASSUME VaguerEventsVaguerTimes, [Next]_question PROVE VaguerEventsVaguerTimes'
  <2>1. CASE question' = question
    BY <1>2, <2>1 DEF VaguerEventsVaguerTimes
  <2>2. CASE Next
    <3>1. question'.about = "events" => RefersToEvents
      BY <2>2, AskedBy
    <3> QED
      BY <3>1, AfterRefersToEvents DEF VaguerEventsVaguerTimes
  <2> QED
    BY <1>2, <2>1, <2>2
<1> QED
  BY <1>1, <1>2, PTL DEF Spec

-----------------------------------------------------------------------------
(* Intervals that are written as two dates.                                 *)

\* A day of a month that has it begins where it should, and is not cut off.
LEMMA DayThere ==
  ASSUME NEW cal, Counts(cal), NEW m, NEW first \in Int, NEW last \in Int, HasDays(cal, m, first, last),
         NEW d \in first..last
  PROVE  LET n == DayFromCivil(cal, m.year, m.month, d)
         IN  /\ n \in Int /\ n = DayFromCivil(cal, m.year, m.month, 1) + d - 1
             /\ CivilOfDay(cal, n) = TheDate(m.year, m.month, d)
             /\ DayStart(cal, n) = DayLength(cal) * n + CalOrigin(cal)
             /\ DayStart(cal, n + 1) = DayLength(cal) * n + DayLength(cal) + CalOrigin(cal)
             /\ DayStart(cal, n) \in Int /\ DayStart(cal, n + 1) \in Int
             /\ MinInt < DayStart(cal, n) /\ DayStart(cal, n + 1) < MaxInt
<1> DEFINE y == m.year
           k == m.month
<1>1. y \in Int /\ k \in 1..MonthsPerYear(cal) /\ Countable(cal)
  BY DEF HasDays, Counts
<1>2. PICK len \in Nat \ {0} : len = MonthLength(cal, y, k)
  BY <1>1, LengthsAre
<1>3. 1 \in 1..len /\ d \in 1..len
  BY <1>2 DEF HasDays
<1>4. PICK D \in Nat \ {0}, o \in Int : D = DayLength(cal) /\ o = CalOrigin(cal)
  BY LengthsOf
<1>5. PICK f \in Int : f = DayFromCivil(cal, y, k, 1)
  BY <1>1, <1>2, <1>3, DateOfItsDay
<1>6. PICK n \in Int : n = DayFromCivil(cal, y, k, d) /\ n = f + d - 1 /\ CivilOfDay(cal, n) = TheDate(y, k, d)
  <2>1. DayFromCivil(cal, y, k, d) = f + d - 1
    BY <1>1, <1>3, <1>5, DayInMonth
  <2>2. DayFromCivil(cal, y, k, d) \in Int /\ CivilOfDay(cal, DayFromCivil(cal, y, k, d)) = TheDate(y, k, d)
    BY <1>1, <1>2, <1>3, DateOfItsDay
  <2> QED
    BY <2>1, <2>2
<1>7. PICK t \in Int : t = f * D + o
  BY <1>4, <1>5
<1>8. PICK far \in Nat : far = len + 2
  OBVIOUS
<1>9. Inside(cal, t, far)
  BY <1>2, <1>4, <1>5, <1>7, <1>8 DEF HasDays, Inside
<1>10. DayOf(cal, t) = f
  <2>1. t - o = D * f + 0 /\ 0 \in 0..D - 1
    BY <1>4, <1>5, <1>7
  <2>2. (D * f + 0) \div D = f
    BY <1>4, <1>5, <2>1, DividedOnce
  <2> QED
    BY <1>4, <2>1, <2>2 DEF DayOf
<1>11. Near(cal, t, far, n) /\ Near(cal, t, far, n + 1)
  BY <1>3, <1>5, <1>6, <1>8, <1>10 DEF Near
<1>12. /\ DayStart(cal, n) \in Int /\ DayStart(cal, n) = D * n + o
       /\ DayStart(cal, n + 1) \in Int /\ DayStart(cal, n + 1) = D * (n + 1) + o
  BY <1>4, <1>9, <1>11, NearDay
<1>13. D * (n + 1) = D * n + D
  BY <1>4, <1>6
<1>14. MinInt < DayStart(cal, n) /\ DayStart(cal, n + 1) < MaxInt
  <2>1. \A v \in Int : MinInt < Clamped(v) /\ Clamped(v) < MaxInt
    BY DayOfTicks DEF Clamped, Larger, Smaller
  <2>2. PICK a \in Int, b \in Int : a = n * DayLength(cal) + CalOrigin(cal) /\ b = (n + 1) * DayLength(cal) + CalOrigin(cal)
    BY <1>4, <1>6
  <2>3. DayStart(cal, n) = Clamped(a) /\ DayStart(cal, n + 1) = Clamped(b)
    BY <2>2 DEF DayStart
  <2> QED
    BY <2>1, <2>3
<1> QED
  BY <1>4, <1>5, <1>6, <1>12, <1>13, <1>14

\* The parts of a date that say what day it is, and its clock.
IsDay(d, m, day) ==
  /\ d.year = m.year /\ d.month = m.month /\ d.day = day /\ d.zone = Missing /\ ~ d.julian
  /\ d.clock = NoClock \/ (d.clock.from \in 0..TicksPerDay - 1 /\ d.clock.len \in Nat)

\* Bounds that begin in a day of a calendar, and are the day's where no clock is asked for.
BeginIn(cal, b, n, clock) ==
  /\ b[1] \in Int /\ b[2] \in Int /\ b[1] <= b[2]
  /\ MinInt < b[1] /\ DayStart(cal, n) <= b[1] /\ b[1] < DayStart(cal, n + 1)
  /\ clock = NoClock => b[2] = DayStart(cal, n + 1)

\* A clock of the Gregorian calendar.
LEMMA GregorianDay ==
  ASSUME NEW cal, Counts(cal), cal.kind = "gregorian", NEW m, NEW first \in Int, NEW last \in Int, HasDays(cal, m, first, last),
         NEW day \in first..last, NEW d, IsDay(d, m, day)
  PROVE  BeginIn(cal, DatedBounds(cal, d), DayFromCivil(cal, m.year, m.month, day), d.clock)
<1> DEFINE n == DayFromCivil(cal, m.year, m.month, day)
<1>1. /\ n \in Int /\ DayStart(cal, n) = TicksPerDay * n - cal.offset /\ DayStart(cal, n + 1) = TicksPerDay * n + TicksPerDay - cal.offset
      /\ DayStart(cal, n) \in Int /\ MinInt < DayStart(cal, n)
  <2>1. DayLength(cal) = TicksPerDay /\ CalOrigin(cal) = -cal.offset /\ cal.offset \in Int
    BY DEF DayLength, CalOrigin, Counts
  <2>2. PICK o \in Int, D \in Nat : o = cal.offset /\ D = TicksPerDay
    BY <2>1, DayOfTicks
  <2>3. n \in Int /\ DayStart(cal, n) \in Int /\ MinInt < DayStart(cal, n)
    BY DayThere
  <2>4. DayStart(cal, n) = D * n + (-o) /\ DayStart(cal, n + 1) = D * n + D + (-o)
    BY <2>1, <2>2, DayThere
  <2>5. D * n \in Int
    BY <2>2, <2>3
  <2> QED
    BY <2>2, <2>3, <2>4, <2>5
<1>2. PICK o \in Int, D \in Nat \ {0} : o = cal.offset /\ D = TicksPerDay
  BY DayOfTicks DEF Counts
<1>3. m.year \in Int /\ m.year # Missing /\ m.month \in 1..12 /\ day \in 1..DaysInMonth(m.year, m.month) /\ day # Missing /\ m.month # Missing
  <2>1. MonthsPerYear(cal) = 12 /\ MonthLength(cal, m.year, m.month) = DaysInMonth(m.year, m.month)
    BY DEF MonthsPerYear, MonthLength
  <2>2. m.year \in Int /\ m.year # Missing /\ m.month \in 1..12
    BY <2>1 DEF HasDays
  <2>3. MonthLength(cal, m.year, m.month) \in Int /\ 1 <= first /\ last <= MonthLength(cal, m.year, m.month)
    BY <2>1, <2>2, LengthsAre DEF HasDays, Counts
  <2>4. day \in 1..DaysInMonth(m.year, m.month)
    BY <2>1, <2>3
  <2> QED
    BY <2>2, <2>4, DayOfTicks DEF Missing
<1>4. Valid(d)
  <2>1. d.clock.from < 48 * TicksPerHour
    BY TicksAssumption DEF IsDay, NoClock, TicksPerDay
  <2>2. d.year = m.year /\ d.month = m.month /\ d.day = day
    BY DEF IsDay
  <2> QED
    BY <1>3, <2>1, <2>2 DEF Valid
<1>5. DatedBounds(cal, d) = TimeOfDays(d, <<n, n + 1>>, o)
  <2>1. d.year = m.year /\ d.month = m.month /\ d.day = day /\ d.zone = Missing /\ d.julian = FALSE
    BY DEF IsDay
  <2>2. DayNumber(d.julian, m.year, m.month, day) = n
    BY <2>1 DEF DayNumber, DayFromCivil
  <2>3. DaysMeant(d, n, DaysInMonth(m.year, m.month)) = <<n, n + 1>>
    BY <1>3, <2>1 DEF DaysMeant
  <2>4. BoundsGregorian(d, cal.offset) = TimeOfDays(d, DaysMeant(d, n, DaysInMonth(m.year, m.month)), cal.offset)
    BY <1>3, <1>4, <2>1, <2>2 DEF BoundsGregorian
  <2>5. DatedBounds(cal, d) = BoundsGregorian(d, cal.offset)
    BY DEF DatedBounds
  <2> QED
    BY <1>2, <2>3, <2>4, <2>5
<1>6. PICK w \in Int : w = D * n
  BY <1>1, <1>2
<1>7. n * D = w /\ (n + 1) * D = w + D
  BY <1>1, <1>2, <1>6
<1>8. DayStart(cal, n) = w - o /\ DayStart(cal, n + 1) = w + D - o
  BY <1>1, <1>2, <1>6
<1>9. CASE d.clock = NoClock
  <2>1. DatedBounds(cal, d) = <<w - o, w + D - o>>
    <3>1. DatedBounds(cal, d) = <<n * TicksPerDay - o, (n + 1) * TicksPerDay - o>>
      BY <1>5, <1>9 DEF TimeOfDays
    <3> QED
      BY <1>2, <1>7, <3>1
  <2>2. w - o \in Int /\ w + D - o \in Int /\ w - o < w + D - o /\ MinInt < w - o
    BY <1>1, <1>2, <1>8
  <2> QED
    BY <1>8, <2>1, <2>2 DEF BeginIn
<1>10. CASE d.clock # NoClock
  <2>1. d.day # Missing
    BY <1>3 DEF IsDay
  <2>2. PICK x \in Int, l \in Nat : x = d.clock.from /\ l = d.clock.len /\ 0 <= x /\ x <= D - 1
    BY <1>2, <1>10 DEF IsDay
  <2>3. DatedBounds(cal, d) = <<w + x - o, w + x + l - o>>
    BY <1>2, <1>5, <1>7, <1>10, <2>1, <2>2 DEF TimeOfDays
  <2>4. PICK f \in Int, t \in Int : f = w + x - o /\ t = w + x + l - o
    BY <1>2, <1>6, <2>2
  <2>5. f <= t /\ w - o <= f /\ f < w + D - o /\ MinInt < f
    <3>1. MinInt < w - o /\ MinInt \in Int
      BY <1>1, <1>8, DayOfTicks
    <3> QED
      BY <1>2, <2>2, <2>4, <3>1
  <2> QED
    BY <1>8, <1>10, <2>3, <2>4, <2>5 DEF BeginIn
<1> QED
  BY <1>9, <1>10

\* A clock of a day of another length.
LEMMA UniformDay ==
  ASSUME NEW cal, Counts(cal), cal.kind = "uniform", NEW m, NEW first \in Int, NEW last \in Int, HasDays(cal, m, first, last),
         NEW day \in first..last, NEW d, IsDay(d, m, day)
  PROVE  BeginIn(cal, DatedBounds(cal, d), DayFromCivil(cal, m.year, m.month, day), d.clock)
<1> DEFINE n == DayFromCivil(cal, m.year, m.month, day)
<1>1. PICK D \in Nat \ {0}, T \in Nat \ {0} : D = DayLength(cal) /\ T = TicksPerDay
  BY LengthsOf, DayOfTicks
<1>2. PICK a \in Int, b \in Int : /\ a = DayStart(cal, n) /\ b = DayStart(cal, n + 1) /\ b = a + D
                                  /\ MinInt < a /\ b < MaxInt
  <2>1. PICK w \in Int, o \in Int : w = D * n /\ o = CalOrigin(cal)
    BY <1>1, DayThere, LengthsOf
  <2>2. DayStart(cal, n) = w + o /\ DayStart(cal, n + 1) = w + D + o /\ MinInt < DayStart(cal, n) /\ DayStart(cal, n + 1) < MaxInt
    BY <1>1, <2>1, DayThere
  <2> QED
    BY <1>1, <2>1, <2>2
<1>3. n \in Int
  BY DayThere
<1>4. DatedBounds(cal, d) = DayOrClock(cal, n, d.clock)
  <2>1. d.year = m.year /\ d.month = m.month /\ d.day = day
    BY DEF IsDay
  <2>2. d.month # Missing /\ d.day # Missing
    <3>1. m.month \in 1..MonthsPerYear(cal) /\ 1 <= first
      BY DEF HasDays
    <3>2. MonthsPerYear(cal) \in Int
      BY LengthsOf
    <3>3. m.month >= 1 /\ m.month \in Int /\ day >= 1
      BY <3>1, <3>2
    <3> QED
      BY <2>1, <3>3, DayOfTicks DEF Missing
  <2> QED
    BY <2>1, <2>2 DEF DatedBounds
<1>5. CASE d.clock = NoClock
  <2>1. DatedBounds(cal, d) = <<DayStart(cal, n + 0), DayStart(cal, n + 1)>>
    BY <1>4, <1>5 DEF DayOrClock, DaysFrom
  <2>2. n + 0 = n
    BY <1>3
  <2>3. DatedBounds(cal, d) = <<a, b>>
    BY <1>2, <2>1, <2>2
  <2> QED
    BY <1>1, <1>2, <1>5, <2>3 DEF BeginIn
<1>6. CASE d.clock # NoClock
  <2>1. PICK x \in Nat, l \in Nat : x = d.clock.from /\ l = d.clock.len /\ x < T
    BY <1>1, <1>6 DEF IsDay
  <2>2. PICK s \in Nat : s = (x * D) \div T /\ s < D
    <3>1. x * D \in Nat
      BY <1>1, <2>1
    <3>2. (x * D) \div T \in Nat /\ T * ((x * D) \div T) <= x * D
      <4>1. PICK p \in Nat : p = x * D
        BY <3>1
      <4>2. p \div T \in Nat
        BY <4>1, DividedNat
      <4>3. T * (p \div T) <= p
        BY <4>1, DayIs
      <4> QED
        BY <4>1, <4>2, <4>3
    <3>3. PICK q \in Nat : q = (x * D) \div T
      BY <3>2
    <3>4. q < D
      <4>1. SUFFICES ASSUME q >= D PROVE FALSE
        BY <1>1, <3>3
      <4>2. PICK u \in Nat : q = D + u
        <5>1. q - D \in Nat /\ q = D + (q - D)
          BY <1>1, <3>3, <4>1
        <5> QED
          BY <5>1
      <4>3. T * q = T * D + T * u /\ T * u \in Nat /\ T * D \in Nat
        BY <1>1, <4>2
      <4>4. PICK v \in Nat : T = x + 1 + v
        <5>1. T - (x + 1) \in Nat /\ T = x + 1 + (T - (x + 1))
          BY <1>1, <2>1
        <5> QED
          BY <5>1
      <4>5. T * D = x * D + D + v * D /\ v * D \in Nat /\ x * D \in Nat
        BY <1>1, <2>1, <4>4
      <4> QED
        BY <1>1, <3>2, <3>3, <4>3, <4>5
    <3> QED
      BY <3>3, <3>4
  <2>3. PICK k \in Int : k = Larger((l * D) \div T, 1) /\ k >= 1
    <3>1. l * D \in Nat
      BY <1>1, <2>1
    <3>2. (l * D) \div T \in Nat
      BY <1>1, <3>1, DividedNat
    <3> QED
      BY <3>2 DEF Larger
  <2>4. DatedBounds(cal, d) = <<Offset(a, s), Offset(Offset(a, s), k)>>
    BY <1>1, <1>2, <1>4, <1>6, <2>1, <2>2, <2>3 DEF DayOrClock, ClockBounds
  <2>5. Offset(a, s) = a + s /\ MinInt < a + s /\ a + s < b
    <3>1. MinInt < a + s /\ a + s < b /\ a + s < MaxInt - 1
      BY <1>1, <1>2, <2>2, DayOfTicks
    <3>2. Clamped(a + s) = a + s
      BY <3>1, DayOfTicks DEF Clamped, Larger, Smaller
    <3> QED
      BY <1>1, <1>2, <3>1, <3>2, DayOfTicks DEF Offset, Finite, NegInf, PosInf
  <2>6. PICK e \in Int : e = Offset(a + s, k) /\ e >= a + s
    <3>1. MinInt < a + s /\ a + s < MaxInt - 1 /\ a + s \in Int
      BY <1>1, <1>2, <2>2, <2>5, DayOfTicks
    <3>2. Clamped(a + s + k) \in Int /\ Clamped(a + s + k) >= a + s
      BY <2>3, <3>1, DayOfTicks DEF Clamped, Larger, Smaller
    <3>3. Offset(a + s, k) = Clamped(a + s + k)
      BY <3>1, DayOfTicks DEF Offset, Finite, NegInf, PosInf
    <3> QED
      BY <3>2, <3>3
  <2>7. DatedBounds(cal, d) = <<a + s, e>>
    BY <2>4, <2>5, <2>6
  <2> QED
    BY <1>2, <1>6, <2>2, <2>5, <2>6, <2>7 DEF BeginIn
<1> QED
  BY <1>5, <1>6

\* A day of a month, with or without a clock.
LEMMA DatedDay ==
  ASSUME NEW cal, Counts(cal), NEW m, NEW first \in Int, NEW last \in Int, HasDays(cal, m, first, last),
         NEW day \in first..last, NEW d, IsDay(d, m, day)
  PROVE  BeginIn(cal, DatedBounds(cal, d), DayFromCivil(cal, m.year, m.month, day), d.clock)
<1>1. cal.kind = "gregorian" \/ cal.kind = "uniform"
  BY DEF Counts, Countable
<1> QED
  BY <1>1, GregorianDay, UniformDay

\* Such bounds are not refused.
LEMMA BeginsSomewhere ==
  ASSUME NEW cal, NEW n, NEW clock, NEW b, BeginIn(cal, b, n, clock)
  PROVE  b # NoBounds
BY DayOfTicks DEF BeginIn, NoBounds, PosInf, NegInf

\* One date is the nearest of one.
LEMMA OneMeant ==
  ASSUME NEW cal, NEW d, d.year # Missing, NEW r \in Int, NEW c,
         DatedBounds(cal, d) # NoBounds, DatedBounds(cal, d)[1] \in Int, DatedBounds(cal, d)[2] \in Int
  PROVE  NearestBounds(BoundsOfAll(cal, Meant(cal, d, c)), r) = DatedBounds(cal, d)
<1>1. PICK b : b = DatedBounds(cal, d)
  OBVIOUS
<1>2. PICK bounds : bounds = BoundsOfAll(cal, Meant(cal, d, c))
  OBVIOUS
<1>3. DOMAIN bounds = {1} /\ bounds[1] = b
  <2>1. Meant(cal, d, c) = <<d>>
    BY DEF Meant
  <2>2. DOMAIN <<d>> = {1} /\ <<d>>[1] = d
    OBVIOUS
  <2> QED
    BY <1>1, <1>2, <2>1, <2>2 DEF BoundsOfAll
<1>4. Apart(b, r) <= Apart(b, r)
  <2>1. Apart(b, r) \in Int
    BY <1>1 DEF Apart
  <2> QED
    BY <2>1
<1> DEFINE valid == {n \in DOMAIN bounds : bounds[n] # NoBounds}
           near == {n \in valid : \A o \in valid : Apart(bounds[n], r) <= Apart(bounds[o], r)}
<1>5. valid = {1}
  BY <1>1, <1>3
<1>6. near = {1}
  BY <1>3, <1>4, <1>5
<1>7. (CHOOSE n \in near : \A o \in near : n <= o) = 1
  BY <1>6
<1> QED
  BY <1>1, <1>2, <1>3, <1>5, <1>7 DEF NearestBounds

\* A date that is meant to be in a month, by its year or so many months from the reference.
MeansMonth(cal, d, r, m) ==
  /\ DOMAIN d = DOMAIN NoDate /\ ~ d.uncertain /\ d.yearOffset = Missing /\ m.year # Missing
  /\ \/ d.monthOffset = Missing /\ d.year = m.year /\ d.month = m.month
     \/ d.monthOffset # Missing /\ m = ShiftMonth(cal, CivilOf(cal, r).year, CivilOf(cal, r).month, d.monthOffset)

\* What such a date is resolved to.
LEMMA DayMeant ==
  ASSUME NEW cal, Counts(cal), NEW r \in Int, Inside(cal, r, Far(cal)),
         NEW m, NEW first \in Int, NEW last \in Int, HasDays(cal, m, first, last),
         NEW day \in first..last, NEW d, MeansMonth(cal, d, r, m),
         IsDay(InMonth(d, m), m, day)
  PROVE  \E b : /\ BeginIn(cal, b, DayFromCivil(cal, m.year, m.month, day), d.clock)
                /\ DateAst(cal, r, Dated(d)) = Resolved(Within(b[1], b[2]))
<1> DEFINE c == CivilOf(cal, r)
<1>1. r # Missing /\ cal.kind # "opaque"
  BY ReferenceIsThere
<1>2. c.year \in Int
  <2>1. DayOf(cal, r) \in Int
    BY DayOfIs
  <2> QED
    BY <2>1, DateParts DEF CivilOf, Counts
<1>3. PICK e : e = IF IsRelative(d) THEN Placed(cal, d, c) ELSE d
  OBVIOUS
<1>4. /\ e.year = m.year /\ e.month = m.month /\ e.day = d.day /\ e.zone = d.zone /\ e.julian = d.julian /\ e.clock = d.clock
      /\ e.year # Missing
  <2>1. {"year", "month", "day", "zone", "julian", "clock", "yearOffset", "monthOffset"} \subseteq DOMAIN d
    BY DEF MeansMonth, NoDate
  <2>2. CASE d.monthOffset = Missing
    <3>1. ~ IsRelative(d)
      BY <2>2 DEF IsRelative, MeansMonth
    <3> QED
      BY <1>3, <2>2, <3>1 DEF MeansMonth
  <2>3. CASE d.monthOffset # Missing
    <3>1. IsRelative(d)
      BY <2>3 DEF IsRelative
    <3>2. c.year + 0 = c.year
      BY <1>2
    <3>3. e = [InMonth(d, m) EXCEPT !.yearOffset = Missing, !.monthOffset = Missing]
      BY <1>3, <2>3, <3>1, <3>2 DEF Placed, MeansMonth
    <3> QED
      BY <2>1, <3>3 DEF InMonth, MeansMonth
  <2> QED
    BY <2>2, <2>3
<1>5. IsDay(e, m, day)
  <2>1. {"year", "month", "day", "zone", "julian", "clock"} \subseteq DOMAIN d
    BY DEF MeansMonth, NoDate
  <2> QED
    BY <1>4, <2>1 DEF IsDay, InMonth
<1>6. PICK b : b = DatedBounds(cal, e)
  OBVIOUS
<1>7. BeginIn(cal, b, DayFromCivil(cal, m.year, m.month, day), d.clock)
  BY <1>4, <1>5, <1>6, DatedDay
<1>8. b # NoBounds
  BY <1>7, BeginsSomewhere
<1>9. BoundsNear(cal, d, r, c) = b
  <2>1. b[1] \in Int /\ b[2] \in Int
    BY <1>7 DEF BeginIn
  <2>2. NearestBounds(BoundsOfAll(cal, Meant(cal, e, c)), r) = b
    BY <1>4, <1>6, <1>8, <2>1, OneMeant
  <2> QED
    BY <1>3, <2>2 DEF BoundsNear
<1>10. DateBounds(cal, d, r) = b
  BY <1>1, <1>9 DEF DateBounds
<1>11. DateAst(cal, r, Dated(d)) = Resolved(Within(b[1], b[2]))
  <2>1. Dated(d).date = d /\ d.uncertain = FALSE
    BY DEF Dated, MeansMonth
  <2> QED
    BY <1>1, <1>8, <1>10, <2>1 DEF DateAst, OfDate, Window
<1> QED
  BY <1>7, <1>11

\* The interval from a date to a date.
FromTo(s, e) == <<Dated(s), Dated(e), [node |-> "interval", start |-> 1, end |-> 2]>>

LEMMA IntervalIs ==
  ASSUME NEW cal, NEW r, NEW s, NEW e
  PROVE  Ast(cal, r, <<>>, FromTo(s, e)) = IntervalOf(DateAst(cal, r, Dated(s)), DateAst(cal, r, Dated(e)))
<1>1. PICK ast : ast = FromTo(s, e)
  OBVIOUS
<1>2. PICK p, q, w : p = Dated(s) /\ q = Dated(e) /\ w = [node |-> "interval", start |-> 1, end |-> 2]
  OBVIOUS
<1>3. ast = <<p, q, w>>
  BY <1>1, <1>2 DEF FromTo
<1>4. /\ p.node = "date" /\ q.node = "date" /\ w.node = "interval" /\ w.start = 1 /\ w.end = 2
  BY <1>2 DEF Dated
<1>5. PICK N \in Nat : N = 3
  OBVIOUS
<1>6. DOMAIN ast = 1..N /\ Len(ast) = N /\ ast[1] = p /\ ast[2] = q /\ ast[3] = w
  <2>1. <<p, q, w>> \in Seq({p, q, w}) /\ Len(<<p, q, w>>) = 3
    OBVIOUS
  <2>2. DOMAIN <<p, q, w>> = 1..3
    BY <2>1
  <2>3. <<p, q, w>>[1] = p /\ <<p, q, w>>[2] = q /\ <<p, q, w>>[3] = w
    OBVIOUS
  <2> QED
    BY <1>3, <1>5, <2>1, <2>2, <2>3
<1>7. PICK times : times = Times(cal, r, <<>>, ast)
  OBVIOUS
<1>8. \A n \in 1..N : times[n] = TimeOfNode(cal, r, <<>>, ast, n, times)
  BY <1>6, <1>7, TimesAre, Zenon
<1>9. 1 \in 1..N /\ 2 \in 1..N /\ 3 \in 1..N
  BY <1>5
<1>10. \A d, o : d.node = "date" => NodeTime(cal, r, <<>>, ast, d, o) = DateAst(cal, r, d)
  <2>1. \A d : d.node = "date" => SimpleAst(cal, r, <<>>, d) = DateAst(cal, r, d)
    BY DEF SimpleAst
  <2> QED
    BY <2>1 DEF NodeTime
<1>11. times[1] = DateAst(cal, r, p)
  BY <1>4, <1>6, <1>8, <1>9, <1>10 DEF TimeOfNode
<1>12. times[2] = DateAst(cal, r, q)
  BY <1>4, <1>6, <1>8, <1>9, <1>10 DEF TimeOfNode
<1>13. times[3] = IntervalOf(times[1], times[2])
  <2>1. PICK o : o = [m \in 1..(3 - 1) |-> times[m]]
    OBVIOUS
  <2>2. o[1] = times[1] /\ o[2] = times[2]
    BY <2>1
  <2>3. EndOf(ast, 1, o) = times[1] /\ EndOf(ast, 2, o) = times[2]
    BY <1>4, <1>6, <2>2 DEF EndOf
  <2>4. NodeTime(cal, r, <<>>, ast, w, o) = IntervalOf(EndOf(ast, w.start, o), EndOf(ast, w.end, o))
    BY <1>4 DEF NodeTime
  <2>5. times[3] = NodeTime(cal, r, <<>>, ast, w, o)
    BY <1>6, <1>8, <1>9, <2>1 DEF TimeOfNode
  <2> QED
    BY <1>4, <2>3, <2>4, <2>5
<1>14. Ast(cal, r, <<>>, ast) = times[3]
  BY <1>5, <1>6, <1>7 DEF Ast
<1> QED
  BY <1>1, <1>2, <1>11, <1>12, <1>13, <1>14

\* The last tick of a day is in it, as is the first.
LEMMA LastOfDay ==
  ASSUME NEW cal, Counts(cal), NEW n \in Int,
         DayStart(cal, n) \in Int, DayStart(cal, n) = DayLength(cal) * n + CalOrigin(cal),
         DayStart(cal, n + 1) = DayLength(cal) * n + DayLength(cal) + CalOrigin(cal),
         NEW t \in Int, DayStart(cal, n) <= t, t < DayStart(cal, n + 1)
  PROVE  CivilOf(cal, t) = CivilOfDay(cal, n)
<1>1. PICK D \in Nat \ {0}, o \in Int : D = DayLength(cal) /\ o = CalOrigin(cal)
  BY LengthsOf
<1>2. PICK w \in Int : w = D * n
  BY <1>1
<1>3. PICK x \in Int : x = t - o - w
  BY <1>1, <1>2
<1>4. t - o = D * n + x /\ x \in 0..D - 1
  BY <1>1, <1>2, <1>3
<1>5. (D * n + x) \div D = n
  BY <1>1, <1>4, DividedOnce
<1> QED
  BY <1>1, <1>4, <1>5 DEF CivilOf, DayOf

\* An interval between two days of a month that has them begins and ends in them.
LEMMA WithinMonth ==
  ASSUME NEW cal, Counts(cal), NEW r \in Int, Inside(cal, r, Far(cal)),
         NEW m, NEW first \in Int, NEW last \in Int, HasDays(cal, m, first, last),
         NEW s, MeansMonth(cal, s, r, m), IsDay(InMonth(s, m), m, first),
         NEW e, MeansMonth(cal, e, r, m), IsDay(InMonth(e, m), m, last), e.clock = NoClock,
         NEW t, t = Ast(cal, r, <<>>, FromTo(s, e))
  PROVE  /\ IsResolved(t)
         /\ CivilOf(cal, t.range.es) = TheDate(m.year, m.month, first)
         /\ CivilOf(cal, t.range.le - 1) = TheDate(m.year, m.month, last)
<1>1. first \in first..last /\ last \in first..last
  BY DEF HasDays
<1>2. PICK n, k : n = DayFromCivil(cal, m.year, m.month, first) /\ k = DayFromCivil(cal, m.year, m.month, last)
  OBVIOUS
<1>3. PICK b : BeginIn(cal, b, n, s.clock) /\ DateAst(cal, r, Dated(s)) = Resolved(Within(b[1], b[2]))
  <2>1. \E q : /\ BeginIn(cal, q, DayFromCivil(cal, m.year, m.month, first), s.clock)
               /\ DateAst(cal, r, Dated(s)) = Resolved(Within(q[1], q[2]))
    BY <1>1, DayMeant
  <2> QED
    BY <1>2, <2>1
<1>4. PICK x : BeginIn(cal, x, k, NoClock) /\ DateAst(cal, r, Dated(e)) = Resolved(Within(x[1], x[2]))
  <2>1. \E q : /\ BeginIn(cal, q, DayFromCivil(cal, m.year, m.month, last), e.clock)
               /\ DateAst(cal, r, Dated(e)) = Resolved(Within(q[1], q[2]))
    BY <1>1, DayMeant
  <2> QED
    BY <1>2, <2>1
<1>5. /\ n \in Int /\ CivilOfDay(cal, n) = TheDate(m.year, m.month, first)
      /\ DayStart(cal, n) = DayLength(cal) * n + CalOrigin(cal) /\ DayStart(cal, n) \in Int
      /\ DayStart(cal, n + 1) = DayLength(cal) * n + DayLength(cal) + CalOrigin(cal) /\ DayStart(cal, n + 1) \in Int
  BY <1>1, <1>2, DayThere
<1>6. /\ k \in Int /\ CivilOfDay(cal, k) = TheDate(m.year, m.month, last)
      /\ DayStart(cal, k) = DayLength(cal) * k + CalOrigin(cal) /\ DayStart(cal, k) \in Int
      /\ DayStart(cal, k + 1) = DayLength(cal) * k + DayLength(cal) + CalOrigin(cal) /\ DayStart(cal, k + 1) \in Int
  BY <1>1, <1>2, DayThere
<1>7. n <= k
  <2>1. PICK f \in Int : f = DayFromCivil(cal, m.year, m.month, 1)
    <3>1. 1 \in 1..MonthLength(cal, m.year, m.month) /\ m.year \in Int /\ m.month \in 1..MonthsPerYear(cal) /\ Countable(cal)
      <4>1. m.year \in Int /\ m.month \in 1..MonthsPerYear(cal) /\ Countable(cal)
        BY DEF HasDays, Counts
      <4>2. MonthLength(cal, m.year, m.month) \in Nat \ {0}
        BY <4>1, LengthsAre
      <4> QED
        BY <4>1, <4>2
    <3>2. DayFromCivil(cal, m.year, m.month, 1) \in Int
      BY <3>1, DateOfItsDay
    <3> QED
      BY <3>2
  <2>2. n = f + first - 1 /\ k = f + last - 1 /\ first <= last
    <3>1. n = DayFromCivil(cal, m.year, m.month, 1) + first - 1
      BY <1>1, <1>2, DayThere
    <3>2. k = DayFromCivil(cal, m.year, m.month, 1) + last - 1
      BY <1>1, <1>2, DayThere
    <3>3. first <= last
      BY DEF HasDays
    <3> QED
      BY <2>1, <3>1, <3>2, <3>3
  <2> QED
    BY <2>1, <2>2
<1>8. DayStart(cal, n + 1) <= DayStart(cal, k + 1) /\ DayStart(cal, k) < DayStart(cal, k + 1)
  <2>1. PICK D \in Nat \ {0}, o \in Int : D = DayLength(cal) /\ o = CalOrigin(cal)
    BY LengthsOf
  <2>2. PICK u \in Nat : k = n + u
    <3>1. k - n \in Nat /\ k = n + (k - n)
      BY <1>5, <1>6, <1>7
    <3> QED
      BY <3>1
  <2>3. PICK v \in Int, w \in Nat : v = D * n /\ w = D * u
    <3>1. D * n \in Int
      <4>1. n \in Int /\ D \in Int
        BY <1>5
      <4> QED
        BY <4>1
    <3>2. D * u \in Nat
      OBVIOUS
    <3> QED
      BY <3>1, <3>2
  <2>4. D * k = v + w
    <3>1. D * (n + u) = D * n + D * u
      <4>1. n \in Int /\ u \in Int /\ D \in Int
        BY <1>5
      <4> QED
        BY <4>1
    <3> QED
      BY <2>2, <2>3, <3>1
  <2>5. DayStart(cal, n + 1) = v + D + o
    BY <1>5, <2>1, <2>3
  <2>6. DayStart(cal, k + 1) = v + w + D + o /\ DayStart(cal, k) = v + w + o
    BY <1>6, <2>1, <2>4
  <2> QED
    <3>1. v + D + o <= v + w + D + o /\ v + w + o < v + w + D + o
      OBVIOUS
    <3>2. DayStart(cal, n + 1) <= DayStart(cal, k + 1)
      BY <2>5, <2>6, <3>1, Zenon
    <3>3. DayStart(cal, k) < DayStart(cal, k + 1)
      BY <2>6, <3>1, Zenon
    <3> QED
      BY <3>2, <3>3
<1>9. PICK a \in Int, b2 \in Int, c \in Int, z \in Int : a = b[1] /\ b2 = b[2] /\ c = x[1] /\ z = x[2] /\ a <= b2 /\ c <= z
  BY <1>3, <1>4 DEF BeginIn
<1>10. /\ DayStart(cal, n) <= a /\ a < DayStart(cal, n + 1)
       /\ z = DayStart(cal, k + 1) /\ DayStart(cal, k) <= c
  BY <1>3, <1>4, <1>9 DEF BeginIn
<1>11. a < z
  BY <1>5, <1>6, <1>8, <1>10
<1>12. Within(a, b2).es = a /\ Within(a, b2).le = b2 /\ Within(c, z).es = c /\ Within(c, z).le = z
  BY <1>9 DEF Within, Normalized, Range4, Smaller, Larger
<1>13. t = IntervalOf(Resolved(Within(a, b2)), Resolved(Within(c, z)))
  BY <1>3, <1>4, <1>9, IntervalIs
<1>14. t = Resolved(Normalized(Range4(a, b2, c, z)))
  <2>1. \A v : IsResolved(Resolved(v)) /\ Resolved(v).range = v
    BY DEF IsResolved, Resolved
  <2>2. ~ (a >= z)
    BY <1>11
  <2> QED
    BY <1>12, <1>13, <2>1, <2>2 DEF IntervalOf
<1>15. IsResolved(t) /\ t.range.es = a /\ t.range.le = z
  BY <1>9, <1>14 DEF IsResolved, Resolved, Normalized, Range4, Smaller, Larger
<1>16. CivilOf(cal, a) = CivilOfDay(cal, n)
  BY <1>5, <1>10, LastOfDay
<1>17. CivilOf(cal, z - 1) = CivilOfDay(cal, k)
  <2>1. z - 1 \in Int /\ DayStart(cal, k) <= z - 1 /\ z - 1 < DayStart(cal, k + 1)
    BY <1>6, <1>8, <1>10
  <2> QED
    BY <1>6, <2>1, LastOfDay
<1> QED
  BY <1>5, <1>6, <1>15, <1>16, <1>17

\* What the second date takes from the first one.
LEMMA Inherited ==
  ASSUME NEW s, DOMAIN s = DOMAIN NoDate, ~ s.uncertain, ~ s.julian, NEW day \in Int, day >= 1,
         s.year # Missing => s.month # Missing /\ s.yearOffset = Missing /\ s.monthOffset = Missing,
         s.monthOffset # Missing => s.year = Missing /\ s.month = Missing /\ s.yearOffset = Missing,
         s.year # Missing \/ s.monthOffset # Missing,
         NEW e, e = InheritDateContext(s, [NoDate EXCEPT !.day = day])
  PROVE  /\ DOMAIN e = DOMAIN NoDate /\ ~ e.uncertain /\ ~ e.julian /\ e.day = day /\ e.zone = Missing /\ e.clock = NoClock
         /\ e.year = s.year /\ e.month = s.month /\ e.monthOffset = s.monthOffset /\ e.yearOffset = Missing
<1>1. PICK x : x = [NoDate EXCEPT !.day = day]
  OBVIOUS
<1>2. /\ x.year = Missing /\ x.month = Missing /\ x.day = day /\ x.zone = Missing /\ x.clock = NoClock
      /\ x.yearOffset = Missing /\ x.monthOffset = Missing /\ x.uncertain = FALSE /\ x.julian = FALSE
      /\ DOMAIN x = DOMAIN NoDate
  BY <1>1 DEF NoDate
<1>3. day # Missing
  BY DayOfTicks DEF Missing
<1>4. PICK alone \in BOOLEAN : alone <=> s.year = Missing /\ s.month = Missing
  OBVIOUS
<1>5. e = [x EXCEPT !.year = s.year, !.month = s.month,
                    !.uncertain = @ \/ s.uncertain, !.julian = @ \/ s.julian,
                    !.yearOffset = IF alone THEN s.yearOffset ELSE @,
                    !.monthOffset = IF alone THEN s.monthOffset ELSE @]
  BY <1>1, <1>2, <1>3, <1>4 DEF InheritDateContext
<1>6. {"year", "month", "day", "zone", "clock", "uncertain", "julian", "yearOffset", "monthOffset"} \subseteq DOMAIN x
  BY <1>2 DEF NoDate
<1>7. /\ DOMAIN e = DOMAIN NoDate /\ e.day = day /\ e.zone = Missing /\ e.clock = NoClock
      /\ e.year = s.year /\ e.month = s.month
  BY <1>2, <1>5, <1>6
<1>8. ~ e.uncertain /\ ~ e.julian
  BY <1>2, <1>5, <1>6
<1>9. e.monthOffset = s.monthOffset /\ e.yearOffset = Missing
  BY <1>2, <1>4, <1>5, <1>6
<1> QED
  BY <1>7, <1>8, <1>9

\* What is asked about written intervals is answered right.
LEMMA AfterWrites ==
  ASSUME Writes, question'.start.year # Missing \/ question'.start.monthOffset # Missing
  PROVE  AsWritten(question', Written(question'))
<1>1. PICK cal \in Calendars, r \in References, w \in WrittenIntervals :
        /\ Has(cal, w.start)
        /\ question' = [about |-> "written", cal |-> cal, r |-> r, start |-> w.start, end |-> w.end]
  BY DEF Writes
<1>2. PICK s, day, m : s = w.start /\ day = w.end.day /\ m = MonthMeant(cal, s, CivilOf(cal, r))
  OBVIOUS
<1>3. /\ question'.cal = cal /\ question'.r = r /\ question'.start = s /\ question'.end = w.end
      /\ s.year # Missing \/ s.monthOffset # Missing
  BY <1>1, <1>2
<1>4. /\ DOMAIN s = DOMAIN NoDate /\ w.end = [NoDate EXCEPT !.day = day]
      /\ s.day \in Int /\ day \in Int /\ s.zone = Missing /\ ~ s.uncertain /\ ~ s.julian
      /\ s.clock = NoClock \/ (s.clock.from \in 0..TicksPerDay - 1 /\ s.clock.len \in Nat)
      /\ s.year # Missing => s.month # Missing /\ s.yearOffset = Missing /\ s.monthOffset = Missing
      /\ s.monthOffset # Missing => s.year = Missing /\ s.month = Missing /\ s.yearOffset = Missing
      /\ HasDays(cal, m, s.day, day)
  BY <1>1, <1>2, <1>3, WrittenAssumption
<1>5. Counts(cal) /\ r \in Int /\ Inside(cal, r, Far(cal))
  BY ReferencesInside
<1>6. day >= 1 /\ m.year # Missing
  BY <1>4 DEF HasDays
<1>7. PICK e : e = InheritDateContext(s, w.end)
  OBVIOUS
<1>8. /\ DOMAIN e = DOMAIN NoDate /\ ~ e.uncertain /\ ~ e.julian /\ e.day = day /\ e.zone = Missing /\ e.clock = NoClock
      /\ e.year = s.year /\ e.month = s.month /\ e.monthOffset = s.monthOffset /\ e.yearOffset = Missing
  BY <1>3, <1>4, <1>6, <1>7, Inherited
<1>9. {"year", "month", "day", "zone", "clock", "julian"} \subseteq DOMAIN NoDate
  BY DEF NoDate
<1>10. IsDay(InMonth(s, m), m, s.day)
  BY <1>4, <1>9 DEF IsDay, InMonth
<1>11. IsDay(InMonth(e, m), m, day)
  BY <1>8, <1>9 DEF IsDay, InMonth
<1>12. s.yearOffset = Missing
  BY <1>3, <1>4
<1>13. MeansMonth(cal, s, r, m) /\ MeansMonth(cal, e, r, m)
  <2>1. CASE s.monthOffset # Missing
    <3>1. m = ShiftMonth(cal, CivilOf(cal, r).year, CivilOf(cal, r).month, s.monthOffset)
      BY <1>2, <2>1 DEF MonthMeant
    <3> QED
      BY <1>4, <1>6, <1>8, <1>12, <2>1, <3>1 DEF MeansMonth
  <2>2. CASE s.monthOffset = Missing
    <3>1. m.year = s.year /\ m.month = s.month
      BY <1>2, <2>2 DEF MonthMeant
    <3> QED
      BY <1>4, <1>6, <1>8, <1>12, <2>2, <3>1 DEF MeansMonth
  <2> QED
    BY <2>1, <2>2
<1>14. PICK t : t = Ast(cal, r, <<>>, FromTo(s, e))
  OBVIOUS
<1>15. /\ IsResolved(t)
       /\ CivilOf(cal, t.range.es) = TheDate(m.year, m.month, s.day)
       /\ CivilOf(cal, t.range.le - 1) = TheDate(m.year, m.month, day)
  <2>1. PICK first \in Int, last \in Int : first = s.day /\ last = day
    BY <1>4
  <2>2. HasDays(cal, m, first, last)
    BY <1>4, <2>1
  <2>3. IsDay(InMonth(s, m), m, first) /\ IsDay(InMonth(e, m), m, last)
    BY <1>10, <1>11, <2>1
  <2>4. /\ IsResolved(t)
        /\ CivilOf(cal, t.range.es) = TheDate(m.year, m.month, first)
        /\ CivilOf(cal, t.range.le - 1) = TheDate(m.year, m.month, last)
    BY <1>5, <1>8, <1>13, <1>14, <2>2, <2>3, WithinMonth
  <2> QED
    BY <2>1, <2>4
<1>16. Written(question') = t
  BY <1>3, <1>7, <1>14 DEF Written, FromTo
<1>17. InOneMonth(question', CivilOf(cal, t.range.es), CivilOf(cal, t.range.le - 1))
  <2>1. question'.start.day = s.day /\ question'.end.day = day
    BY <1>2, <1>3
  <2> QED
    BY <1>15, <2>1 DEF InOneMonth, TheDate
<1> QED
  BY <1>3, <1>15, <1>16, <1>17 DEF AsWritten

\* "From the 10th of next month to the 12th" begins on the 10th and ends with the 12th of the
\* same month of the same year, for all calendars, references, clocks and months that have
\* these days (inherit_date_context, date_bounds).
THEOREM EndsWhereItBegan == Spec => []EndsInMonthOfStart
<1>1. Init => EndsInMonthOfStart
  BY DEF Init, Subjects, EndsInMonthOfStart
<1>2. ASSUME EndsInMonthOfStart, [Next]_question PROVE EndsInMonthOfStart'
  <2>1. CASE question' = question
    BY <1>2, <2>1 DEF EndsInMonthOfStart, AsWritten, Written, InOneMonth
  <2>2. CASE Next
    <3>1. question'.about = "written" => Writes
      BY <2>2, AskedBy
    <3> QED
      BY <3>1, AfterWrites DEF EndsInMonthOfStart
  <2> QED
    BY <1>2, <2>1, <2>2
<1> QED
  BY <1>1, <1>2, PTL DEF Spec

-----------------------------------------------------------------------------
(* Months in their order.                                                   *)

\* Months are numbered one after the other.
MonthNumber(cal, c) == c.year * MonthsPerYear(cal) + c.month - 1

\* The day of a date is a number.
LEMMA DayPart ==
  ASSUME NEW cal, Countable(cal), NEW n \in Int
  PROVE  CivilOfDay(cal, n).day \in Int /\ DOMAIN CivilOfDay(cal, n) = {"year", "month", "day"}
<1>1. CASE cal.kind = "gregorian"
  <2>1. PICK era \in Int : \E c, p, t, r : InEra(c, p, t, r) /\ n = DayAt(era, c, p, t, r)
    BY PlaceOfDay
  <2>2. PICK c, p, t, r : InEra(c, p, t, r) /\ n = DayAt(era, c, p, t, r)
    BY <2>1
  <2>3. c \in 0..3 /\ p \in 0..24 /\ t \in 0..3 /\ r \in Int /\ 0 <= r /\ r <= 365
    BY <2>2 DEF InEra
  <2>4. PICK v : v = YearAt(era, c, p, t)
    OBVIOUS
  <2>5. CivilFromDays(n) = CivilInYear(v, r) /\ v \in Int
    <3>1. v \in Int
      BY <2>3, <2>4 DEF YearAt, YearInEra
    <3>2. CivilFromDays(n) = CivilInYear(v, r)
      BY <2>2, <2>4, CivilOfPlace
    <3> QED
      BY <3>1, <3>2
  <2>6. MonthAt(r) \in 0..11 /\ CivilInYear(v, r) = DateIn(v, r, MonthAt(r))
    BY <2>3, <2>5, DateInYear
  <2>7. PICK mp \in 0..11 : CivilFromDays(n) = DateIn(v, r, mp)
    BY <2>5, <2>6
  <2>8. MonthStart(mp) \in Int
    BY MonthStarts
  <2>9. CivilFromDays(n).day \in Int /\ DOMAIN CivilFromDays(n) = {"year", "month", "day"}
    BY <2>3, <2>7, <2>8 DEF DateIn
  <2> QED
    BY <1>1, <2>9 DEF CivilOfDay
<1>2. CASE cal.kind # "gregorian"
  <2>1. cal.perMonth \in Nat \ {0} /\ cal.perYear \in Nat \ {0}
    BY <1>2 DEF Countable
  <2>2. PICK p \in Nat \ {0}, L \in Nat \ {0} : p = cal.perMonth /\ L = cal.perMonth * cal.perYear
    <3>1. cal.perMonth * cal.perYear \in Nat \ {0}
      BY <2>1, Rows
    <3> QED
      BY <2>1, <3>1
  <2>3. PICK rem \in Int : rem = n % L
    <3>1. n % L \in 0..L - 1
      BY Divided
    <3> QED
      BY <3>1
  <2>4. rem % p \in Int
    <3>1. rem % p \in 0..p - 1
      BY Divided
    <3> QED
      BY <3>1
  <2>5. CivilOfDay(cal, n).day = (rem % p) + 1 /\ DOMAIN CivilOfDay(cal, n) = {"year", "month", "day"}
    BY <1>2, <2>2, <2>3 DEF CivilOfDay
  <2> QED
    BY <2>4, <2>5
<1> QED
  BY <1>1, <1>2

\* The next day is not in an earlier month.
LEMMA NextDayMonth ==
  ASSUME NEW cal, Counts(cal), NEW n \in Int
  PROVE  /\ MonthNumber(cal, CivilOfDay(cal, n)) \in Int
         /\ MonthNumber(cal, CivilOfDay(cal, n)) <= MonthNumber(cal, CivilOfDay(cal, n + 1))
<1>1. Countable(cal)
  BY DEF Counts
<1>2. PICK N \in Nat \ {0} : N = MonthsPerYear(cal)
  BY LengthsOf
<1>3. PICK c : c = CivilOfDay(cal, n)
  OBVIOUS
<1>4. c.year \in Int /\ c.month \in 1..N
  BY <1>1, <1>2, <1>3, DateParts
<1>5. PICK y \in Int, k \in Int : y = c.year /\ k = c.month /\ 1 <= k /\ k <= N
  BY <1>2, <1>4
<1>6. PICK x \in Int : x = y * N
  BY <1>2
<1>7. (y + 1) * N = x + N
  BY <1>2, <1>5, <1>6
<1>8. MonthNumber(cal, c) = x + k - 1
  BY <1>2, <1>5, <1>6 DEF MonthNumber
<1>9. PICK d : d = NextDate(c, MonthLength(cal, c.year, c.month), N)
  OBVIOUS
<1>10. CivilOfDay(cal, n + 1) = d
  BY <1>1, <1>2, <1>3, <1>9, DaysOfCalendar
<1> DEFINE len == MonthLength(cal, c.year, c.month)
<1>11. c.day \in Int /\ len \in Int
  BY <1>1, <1>2, <1>3, <1>4, DayPart, LengthsAre
<1> HIDE DEF len
<1>12. \/ MonthNumber(cal, d) = x + k - 1
       \/ MonthNumber(cal, d) = x + k /\ k < N
       \/ MonthNumber(cal, d) = x + N /\ k = N
  <2>1. CASE c.day < len
    <3>1. d = [c EXCEPT !.day = @ + 1]
      BY <1>9, <1>11, <2>1 DEF NextDate, len
    <3>2. "year" \in DOMAIN c /\ "month" \in DOMAIN c
      BY <1>1, <1>3, DayPart
    <3>3. d.year = c.year /\ d.month = c.month
      BY <3>1, <3>2
    <3> QED
      BY <1>2, <1>5, <1>6, <1>8, <3>3 DEF MonthNumber
  <2>2. CASE ~ (c.day < len) /\ k < N
    <3>1. d = [year |-> y, month |-> k + 1, day |-> 1]
      BY <1>5, <1>9, <1>11, <2>2 DEF NextDate, len
    <3>2. d.year = y /\ d.month = k + 1
      BY <3>1
    <3> QED
      BY <1>2, <1>5, <1>6, <2>2, <3>2 DEF MonthNumber
  <2>3. CASE ~ (c.day < len) /\ ~ (k < N)
    <3>1. d = [year |-> y + 1, month |-> 1, day |-> 1]
      BY <1>5, <1>9, <1>11, <2>3 DEF NextDate, len
    <3>2. d.year = y + 1 /\ d.month = 1
      BY <3>1
    <3>3. k = N
      BY <1>2, <1>5, <2>3
    <3>4. MonthNumber(cal, d) = (y + 1) * N + 1 - 1
      BY <1>2, <3>2 DEF MonthNumber
    <3> QED
      BY <1>2, <1>6, <1>7, <3>3, <3>4
  <2> QED
    BY <2>1, <2>2, <2>3
<1> QED
  BY <1>2, <1>3, <1>5, <1>6, <1>8, <1>10, <1>12

\* A day of a later month is a later day.
LEMMA LaterMonth ==
  ASSUME NEW cal, Counts(cal), NEW n \in Int, NEW o \in Int,
         MonthNumber(cal, CivilOfDay(cal, n)) < MonthNumber(cal, CivilOfDay(cal, o))
  PROVE  n < o
<1> DEFINE Number(x) == MonthNumber(cal, CivilOfDay(cal, x))
           S == {j \in Nat : Number(o) <= Number(o + j)}
<1>1. \A x \in Int : Number(x) \in Int /\ Number(x) <= Number(x + 1)
  BY NextDayMonth
<1> HIDE DEF Number
<1>2. 0 \in S
  <2>1. o + 0 = o /\ Number(o) <= Number(o)
    BY <1>1
  <2> QED
    BY <2>1
<1>3. \A j \in Nat : j \in S => j + 1 \in S
  <2>1. SUFFICES ASSUME NEW j \in Nat, j \in S PROVE j + 1 \in S
    OBVIOUS
  <2>2. o + (j + 1) = (o + j) + 1 /\ o + j \in Int
    OBVIOUS
  <2>3. Number(o + j) <= Number((o + j) + 1) /\ Number(o + j) \in Int /\ Number((o + j) + 1) \in Int /\ Number(o) \in Int
    BY <1>1, <2>2
  <2>4. Number(o) <= Number(o + (j + 1))
    BY <2>1, <2>2, <2>3
  <2> QED
    BY <2>4
<1> HIDE DEF S
<1>4. Nat \subseteq S
  BY <1>2, <1>3, Induction
<1>5. SUFFICES ASSUME o <= n PROVE FALSE
  OBVIOUS
<1>6. n - o \in Nat /\ o + (n - o) = n
  BY <1>5
<1>7. Number(o) <= Number(n)
  BY <1>4, <1>6 DEF S
<1> QED
  BY <1>1, <1>7 DEF Number

\* The days of a month come after those of all earlier months and before those of all later ones.
LEMMA DaysOfMonths ==
  ASSUME NEW cal, Counts(cal), NEW y \in Int, NEW m \in 1..MonthsPerYear(cal), NEW n \in Int
  PROVE  LET f == DayFromCivil(cal, y, m, 1)
             len == MonthLength(cal, y, m)
             here == MonthNumber(cal, CivilOfDay(cal, n))
             there == MonthNumber(cal, TheMonth(y, m))
         IN  /\ f \in Int /\ len \in Nat \ {0} /\ here \in Int /\ there \in Int
             /\ here < there => n < f
             /\ there < here => f + len <= n
<1> DEFINE f == DayFromCivil(cal, y, m, 1)
           len == MonthLength(cal, y, m)
           here == MonthNumber(cal, CivilOfDay(cal, n))
           there == MonthNumber(cal, TheMonth(y, m))
<1>1. Countable(cal)
  BY DEF Counts
<1>2. len \in Nat \ {0} /\ MonthsPerYear(cal) \in Nat \ {0}
  BY <1>1, LengthsAre
<1>3. 1 \in 1..len /\ len \in 1..len
  BY <1>2
<1>4. f \in Int /\ CivilOfDay(cal, f) = TheDate(y, m, 1)
  BY <1>1, <1>3, DateOfItsDay
<1>5. DayFromCivil(cal, y, m, len) = f + len - 1
  BY <1>1, <1>3, DayInMonth
<1>6. f + len - 1 \in Int /\ CivilOfDay(cal, f + len - 1) = TheDate(y, m, len)
  BY <1>1, <1>3, <1>5, DateOfItsDay
<1>7. MonthNumber(cal, CivilOfDay(cal, f)) = there /\ MonthNumber(cal, CivilOfDay(cal, f + len - 1)) = there
  BY <1>4, <1>6 DEF MonthNumber, TheDate, TheMonth
<1>8. here \in Int /\ there \in Int
  BY <1>4, <1>7, NextDayMonth
<1>9. here < there => n < f
  BY <1>4, <1>7, LaterMonth
<1>10. there < here => f + len <= n
  <2>1. there < here => f + len - 1 < n
    BY <1>6, <1>7, LaterMonth
  <2> QED
    BY <1>2, <1>4, <2>1
<1> QED
  BY <1>2, <1>4, <1>8, <1>9, <1>10

-----------------------------------------------------------------------------
(* Dates without a year.                                                    *)

HasClock(d) == d.day # Missing /\ d.clock # NoClock

\* A number of ticks of a day, in the calendar's own day.
InDay(cal, v) == IF cal.kind = "gregorian" THEN v ELSE (v * DayLength(cal)) \div TicksPerDay

\* The days of a month before a part of it.
DaysBefore(cal, part) ==
  IF cal.kind = "gregorian" THEN (CASE part = "mid" -> 10 [] part = "late" -> 20 [] OTHER -> 0)
  ELSE ThirdOf(part, cal.perMonth)[1]

\* How far into its month a date begins, in whatever month it is.
Into(cal, d) ==
  IF d.day = Missing THEN DayLength(cal) * DaysBefore(cal, d.part)
  ELSE DayLength(cal) * (d.day - 1) + InDay(cal, d.clock.from)

\* How long a time of the day lasts.
Lasts(cal, d) == Larger(InDay(cal, d.clock.len), 1)

\* Bounds of a date in a month that begins on the day f and has so many days.
PlacedIn(cal, d, b, f, len) ==
  /\ b[1] \in Int /\ b[2] \in Int /\ b[1] <= b[2]
  /\ b[1] = DayLength(cal) * f + CalOrigin(cal) + Into(cal, d)
  /\ IF HasClock(d) THEN b[2] = b[1] + Lasts(cal, d) ELSE b[2] <= DayLength(cal) * f + DayLength(cal) * len + CalOrigin(cal)

\* Of two such months after the reference the later one is further from it.
LEMMA LaterFarther ==
  ASSUME NEW cal, Counts(cal), NEW r \in Int, NEW d, Into(cal, d) \in Nat,
         NEW f \in Int, NEW len \in Nat \ {0}, NEW b, PlacedIn(cal, d, b, f, len),
         NEW g \in Int, NEW more \in Nat \ {0}, NEW c, PlacedIn(cal, d, c, g, more),
         DayOf(cal, r) < f, f <= g
  PROVE  Apart(b, r) <= Apart(c, r)
<1>1. PICK D \in Nat \ {0}, o \in Int, x \in Nat : D = DayLength(cal) /\ o = CalOrigin(cal) /\ x = Into(cal, d)
  BY LengthsOf
<1>2. PICK n \in Int : n = DayOf(cal, r)
  BY DayOfIs
<1>3. PICK w \in Int : w = D * n /\ r - o < w + D
  BY <1>1, <1>2, DayOfIs
<1>4. PICK u \in Nat, v \in Nat : f = n + 1 + u /\ g = f + v
  <2>1. f - (n + 1) \in Nat /\ f = n + 1 + (f - (n + 1)) /\ g - f \in Nat /\ g = f + (g - f)
    BY <1>2
  <2> QED
    BY <2>1
<1>5. PICK p \in Nat, q \in Nat : p = D * u /\ q = D * v
  OBVIOUS
<1>6. D * f = w + D + p /\ D * g = w + D + p + q
  <2>1. D * (n + 1 + u) = D * n + D + D * u
    OBVIOUS
  <2>2. D * ((n + 1 + u) + v) = D * (n + 1 + u) + D * v
    OBVIOUS
  <2> QED
    BY <1>3, <1>4, <1>5, <2>1, <2>2
<1>7. PICK b1 \in Int, b2 \in Int, c1 \in Int, c2 \in Int : b1 = b[1] /\ b2 = b[2] /\ c1 = c[1] /\ c2 = c[2]
  BY DEF PlacedIn
<1>8. b1 = w + D + p + o + x
  BY <1>1, <1>6, <1>7 DEF PlacedIn
<1>9. c1 = w + D + p + q + o + x
  BY <1>1, <1>6, <1>7 DEF PlacedIn
<1>10. r < b1 /\ b1 <= c1
  BY <1>3, <1>8, <1>9
<1>11. Apart(b, r) = b1 - r /\ Apart(c, r) = c1 - r
  BY <1>7, <1>10 DEF Apart
<1> QED
  BY <1>10, <1>11

\* And of two months before it the earlier one, unless a time of the day runs into the reference.
LEMMA EarlierFarther ==
  ASSUME NEW cal, Counts(cal), NEW r \in Int, NEW d, Into(cal, d) \in Nat,
         NEW f \in Int, NEW len \in Nat \ {0}, NEW b, PlacedIn(cal, d, b, f, len),
         NEW g \in Int, NEW less \in Nat \ {0}, NEW c, PlacedIn(cal, d, c, g, less),
         f + len <= DayOf(cal, r), g + less <= f,
         HasClock(d) => /\ Into(cal, d) <= DayLength(cal) * len + DayLength(cal)
                        /\ Lasts(cal, d) \in 1..7 * DayLength(cal) /\ less >= 10
  PROVE  Apart(b, r) <= Apart(c, r)
<1>1. PICK D \in Nat \ {0}, o \in Int, x \in Nat : D = DayLength(cal) /\ o = CalOrigin(cal) /\ x = Into(cal, d)
  BY LengthsOf
<1>2. PICK n \in Int : n = DayOf(cal, r)
  BY DayOfIs
<1>3. PICK w \in Int : w = D * n /\ w <= r - o
  BY <1>1, <1>2, DayOfIs
<1>4. PICK u \in Nat, v \in Nat : n = f + len + u /\ f = g + less + v
  <2>1. n - (f + len) \in Nat /\ n = f + len + (n - (f + len)) /\ f - (g + less) \in Nat /\ f = g + less + (f - (g + less))
    BY <1>2
  <2> QED
    BY <2>1
<1>5. PICK p \in Nat, q \in Nat, z \in Int, l \in Nat, k \in Nat : p = D * u /\ q = D * v /\ z = D * g /\ l = D * len /\ k = D * less
  OBVIOUS
<1>6. D * f = z + k + q /\ w = z + k + q + l + p
  <2>1. D * (g + less + v) = D * g + D * less + D * v
    OBVIOUS
  <2>2. D * (f + len + u) = D * f + D * len + D * u
    OBVIOUS
  <2> QED
    BY <1>3, <1>4, <1>5, <2>1, <2>2
<1>7. PICK b1 \in Int, b2 \in Int, c1 \in Int, c2 \in Int :
        b1 = b[1] /\ b2 = b[2] /\ c1 = c[1] /\ c2 = c[2] /\ b1 <= b2 /\ c1 <= c2
  BY DEF PlacedIn
<1>8. b1 = z + k + q + o + x
  BY <1>1, <1>6, <1>7 DEF PlacedIn
<1>9. c1 = z + o + x
  BY <1>1, <1>5, <1>7 DEF PlacedIn
<1>10. CASE ~ HasClock(d)
  <2>1. b2 <= z + k + q + l + o
    BY <1>1, <1>5, <1>6, <1>7, <1>10 DEF PlacedIn
  <2>2. c2 <= z + k + o
    BY <1>1, <1>5, <1>7, <1>10 DEF PlacedIn
  <2>3. b2 <= r /\ c2 <= b2
    BY <1>3, <1>6, <1>7, <1>8, <2>1, <2>2
  <2>4. ~ (r < b1) /\ ~ (r < c1) /\ r >= b2 /\ r >= c2
    BY <1>7, <2>3
  <2>5. Apart(b, r) = r - b2 + 1 /\ Apart(c, r) = r - c2 + 1
    BY <1>7, <2>4 DEF Apart
  <2> QED
    BY <2>3, <2>5
<1>11. CASE HasClock(d)
  <2>1. PICK t \in Nat : t = Lasts(cal, d) /\ t >= 1 /\ t <= 7 * D
    BY <1>1, <1>11
  <2>2. b2 = b1 + t /\ c2 = c1 + t
    BY <1>7, <1>11, <2>1 DEF PlacedIn
  <2>3. x <= l + D
    BY <1>1, <1>5, <1>11
  <2>4. k >= 10 * D
    <3>1. PICK e \in Nat : less = 10 + e
      <4>1. less - 10 \in Nat /\ less = 10 + (less - 10)
        BY <1>11
      <4> QED
        BY <4>1
    <3>2. D * (10 + e) = 10 * D + D * e /\ D * e \in Nat
      OBVIOUS
    <3> QED
      BY <1>5, <3>1, <3>2
  <2>5. b1 - r <= D /\ c2 <= b1 - 3 * D /\ c2 <= r - 2 * D /\ c2 <= b2 /\ c1 < r
    BY <1>3, <1>6, <1>7, <1>8, <1>9, <2>1, <2>2, <2>3, <2>4
  <2>6. Apart(c, r) = r - c2 + 1
    <3>1. ~ (r < c1) /\ r >= c2
      BY <2>5
    <3> QED
      BY <1>7, <3>1 DEF Apart
  <2>7. CASE r < b1
    <3>1. Apart(b, r) = b1 - r
      BY <1>7, <2>7 DEF Apart
    <3> QED
      BY <2>5, <2>6, <3>1
  <2>8. CASE b1 <= r /\ r < b2
    <3>1. Apart(b, r) = 0
      BY <1>7, <2>8 DEF Apart
    <3> QED
      BY <2>5, <2>6, <3>1
  <2>9. CASE b2 <= r
    <3>1. ~ (r < b1)
      BY <1>7, <2>9
    <3>2. Apart(b, r) = r - b2 + 1
      BY <1>7, <2>9, <3>1 DEF Apart
    <3> QED
      BY <2>5, <2>6, <3>2
  <2> QED
    BY <2>7, <2>8, <2>9
<1> QED
  BY <1>10, <1>11

\* What is divided is at most its part of the whole.
LEMMA DividedAtMost ==
  ASSUME NEW p \in Nat, NEW t \in Nat \ {0}, NEW q \in Nat, p <= t * q
  PROVE  p \div t \in Nat /\ p \div t <= q
<1>1. p \div t \in Nat
  BY DividedNat
<1>2. PICK x \in Nat : x = p \div t
  BY <1>1
<1>3. t * x <= p
  BY <1>2, DayIs
<1>4. SUFFICES ASSUME x > q PROVE FALSE
  BY <1>1, <1>2
<1>5. PICK u \in Nat : x = q + 1 + u
  <2>1. x - (q + 1) \in Nat /\ x = q + 1 + (x - (q + 1))
    BY <1>4
  <2> QED
    BY <2>1
<1>6. t * (q + 1 + u) = t * q + t + t * u /\ t * u \in Nat /\ t * q \in Nat
  OBVIOUS
<1> QED
  BY <1>3, <1>5, <1>6

\* A number of ticks of a day, in proportion to the length of the calendar's own day.
LEMMA InDayIs ==
  ASSUME NEW cal, Counts(cal), NEW v \in Nat, NEW k \in Nat, v <= k * TicksPerDay
  PROVE  InDay(cal, v) \in Nat /\ InDay(cal, v) <= k * DayLength(cal)
<1>1. PICK D \in Nat \ {0}, t \in Nat \ {0} : D = DayLength(cal) /\ t = TicksPerDay
  BY LengthsOf, DayOfTicks
<1>2. CASE cal.kind = "gregorian"
  <2>1. InDay(cal, v) = v /\ D = t
    BY <1>1, <1>2 DEF InDay, DayLength
  <2> QED
    BY <1>1, <2>1
<1>3. CASE cal.kind # "gregorian"
  <2>1. InDay(cal, v) = (v * D) \div t
    BY <1>1, <1>3 DEF InDay
  <2>2. PICK p \in Nat, q \in Nat : p = v * D /\ q = k * D
    BY <1>1
  <2>3. p <= t * q
    <3>1. PICK u \in Nat : k * t = v + u
      <4>1. k * t - v \in Nat /\ k * t = v + (k * t - v)
        BY <1>1
      <4> QED
        BY <4>1
    <3>2. t * (k * D) = (k * t) * D
      BY <1>1
    <3>3. (v + u) * D = v * D + u * D /\ u * D \in Nat
      BY <1>1
    <3> QED
      BY <2>2, <3>1, <3>2, <3>3
  <2>4. p \div t \in Nat /\ p \div t <= q
    BY <2>3, DividedAtMost
  <2> QED
    BY <1>1, <2>1, <2>2, <2>4
<1> QED
  BY <1>2, <1>3

\* A day or a month that is asked for.
Names(d, m) == d.month = m \/ (d.month = Missing /\ d.day # Missing)

\* The day is one of the month.
LEMMA DayFits ==
  ASSUME NEW cal, Counts(cal), NEW d, Has(cal, d), EveryYearHas(cal, d), d.day # Missing,
         NEW y \in Int, NEW m \in 1..MonthsPerYear(cal), Names(d, m)
  PROVE  d.day \in 1..MonthLength(cal, y, m)
<1>1. d.day \in Nat \ {0} /\ m \in Int
  BY LengthsOf DEF EveryYearHas
<1>2. m # Missing
  BY <1>1, LengthsOf, DayOfTicks DEF Missing
<1>3. CASE cal.kind = "gregorian"
  <2>1. MonthLength(cal, y, m) = DaysInMonth(y, m) /\ m \in 1..12
    BY <1>3 DEF MonthLength, MonthsPerYear
  <2>2. DaysInMonth(y, m) \in Int /\ DaysInMonth(y, m) >= 28 /\ DaysInMonth(1, m) \in Int /\ DaysInMonth(1, m) <= DaysInMonth(y, m)
    <3>1. ~ LeapYear(1)
      BY DEF LeapYear
    <3> QED
      BY <2>1, <3>1 DEF DaysInMonth
  <2>3. d.day <= (IF d.month = Missing THEN 28 ELSE DaysInMonth(1, d.month))
    BY <1>3 DEF EveryYearHas
  <2>4. d.day <= DaysInMonth(y, m)
    <3>1. CASE d.month = Missing
      BY <1>1, <2>2, <2>3, <3>1
    <3>2. CASE d.month # Missing
      <4>1. d.month = m
        BY <3>2 DEF Names
      <4> QED
        BY <1>1, <2>2, <2>3, <3>2, <4>1
    <3> QED
      BY <3>1, <3>2
  <2> QED
    BY <1>1, <2>1, <2>2, <2>4
<1>4. CASE cal.kind = "uniform"
  <2>1. MonthLength(cal, y, m) = cal.perMonth /\ cal.perMonth \in Nat \ {0} /\ d.day <= cal.perMonth
    BY <1>4 DEF MonthLength, Has, Counts, Countable
  <2> QED
    BY <1>1, <2>1
<1> QED
  BY <1>3, <1>4 DEF Counts, Countable

\* How far a time of the day is into its day, and how long it lasts.
LEMMA ClockFits ==
  ASSUME NEW cal, Counts(cal), NEW d, EveryYearHas(cal, d)
  PROVE  /\ InDay(cal, d.clock.from) \in Nat /\ InDay(cal, d.clock.from) <= 2 * DayLength(cal)
         /\ d.clock = NoClock => InDay(cal, d.clock.from) = 0
         /\ HasClock(d) => Lasts(cal, d) \in 1..(7 * DayLength(cal))
<1>1. PICK D \in Nat \ {0}, t \in Nat \ {0} : D = DayLength(cal) /\ t = TicksPerDay
  BY LengthsOf, DayOfTicks
<1>2. PICK x \in Nat : x = d.clock.from /\ x <= 2 * t /\ (d.clock = NoClock => x = 0)
  <2>1. CASE d.clock = NoClock
    BY <2>1 DEF NoClock
  <2>2. CASE d.clock # NoClock
    BY <1>1, <2>2 DEF EveryYearHas
  <2> QED
    BY <2>1, <2>2
<1>3. InDay(cal, x) \in Nat /\ InDay(cal, x) <= 2 * D
  BY <1>1, <1>2, InDayIs
<1>4. x = 0 => InDay(cal, x) = 0
  <2>1. SUFFICES ASSUME x = 0 PROVE InDay(cal, x) = 0
    OBVIOUS
  <2>2. 0 <= 0 * TicksPerDay
    BY DayOfTicks
  <2>3. InDay(cal, 0) \in Nat /\ InDay(cal, 0) <= 0 * D
    BY <1>1, <2>2, InDayIs
  <2> QED
    BY <1>1, <2>1, <2>3
<1>5. HasClock(d) => Lasts(cal, d) \in 1..(7 * D)
  <2>1. SUFFICES ASSUME HasClock(d) PROVE Lasts(cal, d) \in 1..(7 * D)
    OBVIOUS
  <2>2. PICK l \in Nat : l = d.clock.len /\ l <= 7 * t
    BY <1>1, <2>1 DEF EveryYearHas, HasClock
  <2>3. InDay(cal, l) \in Nat /\ InDay(cal, l) <= 7 * D
    BY <1>1, <2>2, InDayIs
  <2> QED
    BY <1>1, <2>2, <2>3 DEF Lasts, Larger
<1> QED
  BY <1>1, <1>2, <1>3, <1>4, <1>5

\* How far a day is into the month.
LEMMA IntoDay ==
  ASSUME NEW cal, Counts(cal), NEW d, Has(cal, d), EveryYearHas(cal, d), d.day # Missing,
         NEW y \in Int, NEW m \in 1..MonthsPerYear(cal), Names(d, m)
  PROVE  Into(cal, d) \in Nat /\ Into(cal, d) <= DayLength(cal) * MonthLength(cal, y, m) + DayLength(cal)
<1>1. PICK D \in Nat \ {0}, x \in Nat : D = DayLength(cal) /\ x = InDay(cal, d.clock.from) /\ x <= 2 * D
  BY LengthsOf, ClockFits
<1>2. PICK len \in Nat \ {0} : len = MonthLength(cal, y, m)
  BY LengthsAre DEF Counts
<1>3. PICK k \in Nat, u \in Nat : k = d.day - 1 /\ len = k + 1 + u
  <2>1. d.day \in 1..len
    BY <1>2, DayFits
  <2>2. d.day - 1 \in Nat /\ len - d.day \in Nat /\ len = (d.day - 1) + 1 + (len - d.day)
    BY <1>2, <2>1
  <2> QED
    BY <2>2
<1>4. D * (k + 1 + u) = D * k + D + D * u /\ D * k \in Nat /\ D * u \in Nat
  OBVIOUS
<1>5. Into(cal, d) = D * k + x
  BY <1>1, <1>3 DEF Into
<1> QED
  BY <1>1, <1>2, <1>3, <1>4, <1>5

\* The parts of a date in a month that is known.
HasParts(e, d, y, m) ==
  /\ e.year = y /\ e.month = m /\ e.day = d.day /\ e.part = d.part /\ e.clock = d.clock
  /\ e.zone = Missing /\ ~ e.julian /\ e.month # Missing

\* A date of every year, in a month.
LEMMA PartsOf ==
  ASSUME NEW cal, Counts(cal), NEW d, EveryYearHas(cal, d), NEW y \in Int, NEW m \in 1..MonthsPerYear(cal)
  PROVE  HasParts(InMonth(d, TheMonth(y, m)), d, y, m)
<1> DEFINE e == InMonth(d, TheMonth(y, m))
<1>1. /\ d.zone = Missing /\ d.julian = FALSE
      /\ {"year", "month", "day", "part", "clock", "zone", "julian"} \subseteq DOMAIN d
  <2>1. PICK a, b, p, c : a = d.month /\ b = d.day /\ p = d.part /\ c = d.clock
    OBVIOUS
  <2>2. d = [NoDate EXCEPT !.month = a, !.day = b, !.part = p, !.clock = c]
    BY <2>1 DEF EveryYearHas
  <2> QED
    BY <2>2 DEF NoDate
<1>2. m # Missing
  <2>1. m \in Int /\ m >= 1
    BY LengthsOf
  <2> QED
    BY <2>1, DayOfTicks DEF Missing
<1>3. TheMonth(y, m).year = y /\ TheMonth(y, m).month = m
  BY DEF TheMonth
<1>4. e.year = y /\ e.month = m /\ e.day = d.day /\ e.part = d.part /\ e.clock = d.clock /\ e.zone = d.zone /\ e.julian = d.julian
  BY <1>1, <1>3 DEF InMonth
<1> QED
  BY <1>1, <1>2, <1>4 DEF HasParts

\* Where such a date is in the Gregorian calendar.
LEMMA GregorianPlace ==
  ASSUME NEW cal, Counts(cal), cal.kind = "gregorian", NEW d, Has(cal, d), EveryYearHas(cal, d),
         NEW y \in Int, NEW m \in 1..MonthsPerYear(cal), Names(d, m)
  PROVE  /\ PlacedIn(cal, d, DatedBounds(cal, InMonth(d, TheMonth(y, m))), DayFromCivil(cal, y, m, 1), MonthLength(cal, y, m))
         /\ Into(cal, d) \in Nat
<1>1. PICK e : e = InMonth(d, TheMonth(y, m))
  OBVIOUS
<1>2. /\ e.year = y /\ e.month = m /\ e.day = d.day /\ e.part = d.part /\ e.clock = d.clock
      /\ e.zone = Missing /\ ~ e.julian /\ e.month # Missing
      /\ d.day = Missing \/ d.day \in Nat \ {0}
  <2>1. HasParts(e, d, y, m)
    BY <1>1, PartsOf
  <2> QED
    BY <2>1 DEF HasParts, EveryYearHas
<1>3. PICK D \in Nat \ {0}, off \in Int : D = TicksPerDay /\ off = cal.offset
  <2>1. cal.offset \in Int
    BY DEF Counts
  <2> QED
    BY <2>1, DayOfTicks
<1>4. DayLength(cal) = D /\ CalOrigin(cal) = -off
  BY <1>3 DEF DayLength, CalOrigin
<1>5. PICK len \in Nat : len = MonthLength(cal, y, m) /\ len = DaysInMonth(y, m) /\ len >= 28 /\ len <= 31
  <2>1. m \in 1..12
    BY DEF MonthsPerYear
  <2>2. DaysInMonth(y, m) \in Nat /\ DaysInMonth(y, m) >= 28 /\ DaysInMonth(y, m) <= 31
    BY <2>1 DEF DaysInMonth
  <2> QED
    BY <2>2 DEF MonthLength
<1>6. PICK f \in Int, w \in Int : f = DayFromCivil(cal, y, m, 1) /\ f = DaysFromCivil(y, m, 1) /\ w = D * f
  <2>1. 1 \in 1..MonthLength(cal, y, m) /\ Countable(cal)
    BY <1>5 DEF Counts
  <2>2. DayFromCivil(cal, y, m, 1) \in Int
    BY <2>1, DateOfItsDay
  <2>3. DayFromCivil(cal, y, m, 1) = DaysFromCivil(y, m, 1)
    BY DEF DayFromCivil
  <2> QED
    BY <2>2, <2>3
<1>7. d.day # Missing => d.day \in 1..len
  BY <1>5, DayFits
<1>8. Valid(e)
  <2>1. m \in 1..12
    BY DEF MonthsPerYear
  <2>2. d.clock.from < 48 * TicksPerHour
    BY TicksAssumption DEF EveryYearHas, NoClock, TicksPerDay
  <2>3. d.day # Missing => d.day \in 1..(IF e.year # Missing /\ e.month # Missing THEN DaysInMonth(y, m) ELSE 31)
    BY <1>5, <1>7
  <2> QED
    BY <1>2, <2>1, <2>2, <2>3 DEF Valid
<1>9. PICK b : b = DatedBounds(cal, e)
  OBVIOUS
<1>10. CASE d.day = Missing
  <2>1. b = TimeOfDays(e, DaysMeant(e, f, len), off)
    <3>1. DayNumber(e.julian, y, m, 1) = f
      BY <1>2, <1>6 DEF DayNumber
    <3>2. BoundsGregorian(e, off) = TimeOfDays(e, DaysMeant(e, f, len), off)
      BY <1>2, <1>5, <1>8, <1>10, <3>1 DEF BoundsGregorian
    <3> QED
      BY <1>3, <1>9, <3>2 DEF DatedBounds
  <2>2. PICK g \in 0..20, h \in Nat : /\ DaysMeant(e, f, len) = <<f + g, f + h>> /\ g <= h /\ h <= len
                                      /\ DaysBefore(cal, d.part) = g
    <3>1. DaysMeant(e, f, len) = (CASE d.part = "early" -> <<f, f + 10>>
                                    [] d.part = "mid"   -> <<f + 10, f + 20>>
                                    [] d.part = "late"  -> <<f + 20, f + len>>
                                    [] OTHER            -> <<f, f + len>>)
      BY <1>2, <1>10 DEF DaysMeant
    <3>2. CASE d.part = "early"
      <4>1. DaysMeant(e, f, len) = <<f + 0, f + 10>>
        BY <3>1, <3>2
      <4> QED
        BY <1>5, <3>2, <4>1 DEF DaysBefore
    <3>3. CASE d.part = "mid"
      BY <1>5, <3>1, <3>3 DEF DaysBefore
    <3>4. CASE d.part = "late"
      BY <1>5, <3>1, <3>4 DEF DaysBefore
    <3>5. CASE d.part \notin {"early", "mid", "late"}
      <4>1. DaysMeant(e, f, len) = <<f + 0, f + len>>
        BY <3>1, <3>5
      <4> QED
        BY <1>5, <3>5, <4>1 DEF DaysBefore
    <3> QED
      BY <3>2, <3>3, <3>4, <3>5
  <2>3. b = <<(f + g) * D - off, (f + h) * D - off>>
    BY <1>2, <1>3, <1>10, <2>1, <2>2 DEF TimeOfDays
  <2>4. PICK p \in Nat, q \in Nat, l \in Nat : p = D * g /\ q = D * h /\ l = D * len /\ p <= q /\ q <= l
    <3>1. PICK u \in Nat, v \in Nat : h = g + u /\ len = h + v
      <4>1. h - g \in Nat /\ h = g + (h - g) /\ len - h \in Nat /\ len = h + (len - h)
        BY <2>2
      <4> QED
        BY <4>1
    <3>2. D * (g + u) = D * g + D * u /\ D * u \in Nat /\ D * g \in Nat
      OBVIOUS
    <3>3. D * (h + v) = D * h + D * v /\ D * v \in Nat /\ D * h \in Nat
      OBVIOUS
    <3> QED
      BY <3>1, <3>2, <3>3
  <2>5. (f + g) * D = w + p /\ (f + h) * D = w + q
    <3>1. (f + g) * D = D * f + D * g /\ (f + h) * D = D * f + D * h
      OBVIOUS
    <3> QED
      BY <1>6, <2>4, <3>1
  <2>6. Into(cal, d) = p /\ ~ HasClock(d)
    BY <1>4, <1>10, <2>2, <2>4 DEF Into, HasClock
  <2>7. b[1] = w + p - off /\ b[2] = w + q - off
    BY <2>3, <2>5
  <2>8. DayLength(cal) * f = w /\ DayLength(cal) * len = l /\ CalOrigin(cal) = -off
    BY <1>4, <1>6, <2>4
  <2>9. PlacedIn(cal, d, b, f, len)
    BY <2>4, <2>6, <2>7, <2>8 DEF PlacedIn
  <2> QED
    BY <1>1, <1>5, <1>6, <1>9, <2>6, <2>9
<1>11. CASE d.day # Missing
  <2>1. PICK k \in Nat, n \in Int : d.day = k + 1 /\ n = f + k /\ n = DaysFromCivil(y, m, d.day)
    <3>1. d.day \in Int /\ d.day >= 1
      BY <1>7, <1>11
    <3>2. DayFromCivil(cal, y, m, d.day) = f + d.day - 1
      BY <1>6, <3>1, DayInMonth DEF Counts
    <3>3. d.day - 1 \in Nat /\ d.day = (d.day - 1) + 1 /\ f + d.day - 1 = f + (d.day - 1)
      BY <3>1
    <3>4. DayFromCivil(cal, y, m, d.day) = DaysFromCivil(y, m, d.day)
      BY DEF DayFromCivil
    <3> QED
      BY <3>2, <3>3, <3>4
  <2>2. b = TimeOfDays(e, <<n, n + 1>>, off)
    <3>1. DayNumber(e.julian, y, m, d.day) = n
      BY <1>2, <2>1 DEF DayNumber
    <3>2. DaysMeant(e, n, len) = <<n, n + 1>>
      BY <1>2, <1>11 DEF DaysMeant
    <3>3. BoundsGregorian(e, off) = TimeOfDays(e, DaysMeant(e, n, len), off)
      BY <1>2, <1>5, <1>8, <1>11, <3>1 DEF BoundsGregorian
    <3> QED
      BY <1>3, <1>9, <3>2, <3>3 DEF DatedBounds
  <2>3. PICK p \in Nat, l \in Nat : p = D * k /\ l = D * len /\ p + D <= l
    <3>1. PICK v \in Nat : len = k + 1 + v
      <4>1. len - (k + 1) \in Nat /\ len = k + 1 + (len - (k + 1))
        BY <1>7, <1>11, <2>1
      <4> QED
        BY <4>1
    <3>2. D * (k + 1 + v) = D * k + D + D * v /\ D * v \in Nat /\ D * k \in Nat
      OBVIOUS
    <3> QED
      BY <3>1, <3>2
  <2>4. n * D = w + p /\ (n + 1) * D = w + p + D
    <3>1. (f + k) * D = D * f + D * k /\ ((f + k) + 1) * D = D * f + D * k + D
      OBVIOUS
    <3> QED
      BY <1>6, <2>1, <2>3, <3>1
  <2>5. PICK x \in Nat : x = InDay(cal, d.clock.from) /\ x = d.clock.from /\ (d.clock = NoClock => x = 0)
    <3>1. InDay(cal, d.clock.from) = d.clock.from
      BY DEF InDay
    <3> QED
      BY <3>1, ClockFits
  <2>6. d.day - 1 = k
    BY <2>1
  <2>7. Into(cal, d) = p + x
    BY <1>4, <1>11, <2>3, <2>5, <2>6 DEF Into
  <2>8. DayLength(cal) * f = w /\ DayLength(cal) * len = l /\ CalOrigin(cal) = -off
    BY <1>4, <1>6, <2>3
  <2>9. CASE d.clock = NoClock
    <3>1. b = <<n * D - off, (n + 1) * D - off>>
      BY <1>2, <1>3, <2>2, <2>9 DEF TimeOfDays
    <3>2. b[1] = w + p - off /\ b[2] = w + p + D - off
      BY <2>4, <3>1
    <3>3. ~ HasClock(d)
      BY <2>9 DEF HasClock
    <3>4. x = 0
      BY <2>5, <2>9
    <3>5. PlacedIn(cal, d, b, f, len)
      BY <2>3, <2>7, <2>8, <3>2, <3>3, <3>4 DEF PlacedIn
    <3> QED
      BY <1>1, <1>5, <1>6, <1>9, <2>7, <3>5
  <2>10. CASE d.clock # NoClock
    <3>1. PICK t \in Nat : t = d.clock.len /\ t >= 1
      BY <2>10 DEF EveryYearHas
    <3>2. b = <<n * D + x - off, n * D + x + t - off>>
      BY <1>2, <1>3, <1>11, <2>2, <2>5, <2>10, <3>1 DEF TimeOfDays
    <3>3. b[1] = w + p + x - off /\ b[2] = w + p + x + t - off
      BY <2>4, <3>2
    <3>4. HasClock(d) /\ Lasts(cal, d) = t
      <4>1. InDay(cal, t) = t
        BY DEF InDay
      <4> QED
        BY <1>11, <2>10, <3>1, <4>1 DEF HasClock, Lasts, Larger
    <3>5. PlacedIn(cal, d, b, f, len)
      BY <2>7, <2>8, <3>3, <3>4 DEF PlacedIn
    <3> QED
      BY <1>1, <1>5, <1>6, <1>9, <2>7, <3>5
  <2> QED
    BY <2>9, <2>10
<1> QED
  BY <1>10, <1>11

\* A year that is at most two years from that of the reference.
YearNear(cal, r, y) == y - CivilOf(cal, r).year \in -2..2

\* Days of a month near the reference, and some days after it, begin where they should.
LEMMA DaysThere ==
  ASSUME NEW cal, Counts(cal), cal.kind = "uniform", NEW r \in Int, Inside(cal, r, Far(cal)),
         NEW y \in Int, YearNear(cal, r, y), NEW m \in 1..MonthsPerYear(cal),
         NEW t \in Nat, t <= cal.perMonth + 10
  PROVE  LET n == DayFromCivil(cal, y, m, 1) + t
         IN  /\ DayFromCivil(cal, y, m, 1) \in Int
             /\ DayStart(cal, n) = DayLength(cal) * n + CalOrigin(cal) /\ DayStart(cal, n) \in Int
             /\ MinInt < DayStart(cal, n) /\ DayStart(cal, n) < MaxInt
<1>1. Countable(cal) /\ cal.perMonth \in Nat \ {0} /\ cal.perYear \in Nat \ {0}
  BY DEF Counts, Countable
<1>2. MonthLength(cal, y, m) = cal.perMonth
  BY DEF MonthLength
<1>3. PICK f \in Int : f = DayFromCivil(cal, y, m, 1) /\ CivilOfDay(cal, f) = TheDate(y, m, 1)
  <2>1. 1 \in 1..MonthLength(cal, y, m)
    BY <1>1, <1>2
  <2> QED
    BY <1>1, <2>1, DateOfItsDay
<1>4. PICK d \in Int : d = DayOf(cal, r)
  BY DayOfIs
<1>5. PICK L \in Nat \ {0}, W \in Nat \ {0} : L = LongYear(cal) /\ W = DaysPerWeek(cal)
  BY LengthsOf
<1>6. f - d <= 5 * L /\ d - f <= 5 * L
  <2>1. CivilOfDay(cal, f).year = y /\ CivilOf(cal, r) = CivilOfDay(cal, d)
    BY <1>3, <1>4 DEF CivilOf, TheDate
  <2>2. CivilOfDay(cal, f).year - CivilOfDay(cal, d).year \in -2..2
    BY <2>1 DEF YearNear
  <2>3. f - d <= (2 + 3) * LongYear(cal) /\ d - f <= (2 + 3) * LongYear(cal)
    BY <1>1, <2>2, YearsApart
  <2> QED
    BY <1>5, <2>3
<1>7. cal.perMonth <= L
  <2>1. L = cal.perMonth * cal.perYear
    BY <1>5 DEF LongYear
  <2>2. PICK p \in Nat, q \in Nat, u \in Nat : p = cal.perMonth /\ q = cal.perYear /\ q = 1 + u
    <3>1. cal.perYear - 1 \in Nat /\ cal.perYear = 1 + (cal.perYear - 1)
      BY <1>1
    <3> QED
      BY <1>1, <3>1
  <2>3. p * (1 + u) = p + p * u /\ p * u \in Nat
    OBVIOUS
  <2> QED
    BY <2>1, <2>2, <2>3
<1>8. PICK far \in Nat : far = Far(cal) /\ 6 * L + 10 < far
  <2>1. Far(cal) \in Nat
    BY FarIs
  <2>2. PICK s \in Nat : MaxShift = 1 + s
    <3>1. MaxShift - 1 \in Nat /\ MaxShift = 1 + (MaxShift - 1)
      BY FarIs, DatesAssumption
    <3> QED
      BY <3>1
  <2>3. ((1 + s) + 5) * L = 6 * L + s * L /\ s * L \in Nat
    OBVIOUS
  <2> QED
    BY <1>5, <2>1, <2>2, <2>3 DEF Far
<1>9. PICK n \in Int : n = f + t
  OBVIOUS
<1>10. Near(cal, r, far, n)
  BY <1>1, <1>4, <1>6, <1>7, <1>8, <1>9 DEF Near
<1>11. DayStart(cal, n) \in Int /\ DayStart(cal, n) = DayLength(cal) * n + CalOrigin(cal)
  BY <1>8, <1>10, NearDay
<1>12. MinInt < DayStart(cal, n) /\ DayStart(cal, n) < MaxInt
  <2>1. \A v \in Int : MinInt < Clamped(v) /\ Clamped(v) < MaxInt
    BY DayOfTicks DEF Clamped, Larger, Smaller
  <2>2. PICK a \in Int : a = n * DayLength(cal) + CalOrigin(cal)
    BY LengthsOf
  <2> QED
    BY <2>1, <2>2 DEF DayStart
<1> QED
  BY <1>3, <1>9, <1>11, <1>12

\* A time of the day that is over within ten days, which are there.
LEMMA ClockThere ==
  ASSUME NEW cal, Counts(cal), cal.kind = "uniform", NEW d, EveryYearHas(cal, d), HasClock(d),
         NEW a \in Int, MinInt < a, a + 10 * DayLength(cal) < MaxInt, NEW n, a = DayStart(cal, n)
  PROVE  LET from == a + InDay(cal, d.clock.from)
         IN  ClockBounds(cal, n, d.clock) = <<from, from + Lasts(cal, d)>>
<1>1. PICK D \in Nat \ {0}, t \in Nat \ {0} : D = DayLength(cal) /\ t = TicksPerDay
  BY LengthsOf, DayOfTicks
<1>2. PICK x \in Nat : x = InDay(cal, d.clock.from) /\ x <= 2 * D
  BY <1>1, ClockFits
<1>3. PICK l \in Nat : l = Lasts(cal, d) /\ 1 <= l /\ l <= 7 * D
  <2>1. Lasts(cal, d) \in 1..(7 * D)
    BY <1>1, ClockFits
  <2> QED
    BY <1>1, <2>1
<1>4. InDay(cal, d.clock.from) = (d.clock.from * DayLength(cal)) \div TicksPerDay
  BY DEF InDay
<1>5. Lasts(cal, d) = Larger((d.clock.len * DayLength(cal)) \div TicksPerDay, 1)
  BY DEF InDay, Lasts
<1>6. ClockBounds(cal, n, d.clock) = <<Offset(a, x), Offset(Offset(a, x), l)>>
  BY <1>2, <1>3, <1>4, <1>5 DEF ClockBounds
<1>7. \A v \in Int, k \in Nat : MinInt < v /\ v + k < MaxInt => Offset(v, k) = v + k
  BY DayOfTicks DEF Offset, Finite, NegInf, PosInf, Clamped, Larger, Smaller
<1>8. Offset(a, x) = a + x
  BY <1>1, <1>2, <1>7, DayOfTicks
<1>9. Offset(a + x, l) = a + x + l
  <2>1. a + x \in Int /\ MinInt < a + x /\ (a + x) + l < MaxInt
    BY <1>1, <1>2, <1>3, DayOfTicks
  <2> QED
    BY <1>7, <2>1
<1> QED
  BY <1>2, <1>3, <1>6, <1>8, <1>9

\* The days of a third of a month.
LEMMA ThirdIs ==
  ASSUME NEW n \in Nat, NEW part
  PROVE  /\ ThirdOf(part, n)[1] \in Nat /\ ThirdOf(part, n)[2] \in Nat
         /\ ThirdOf(part, n)[1] <= ThirdOf(part, n)[2] /\ ThirdOf(part, n)[2] <= n
<1>1. n \div 3 \in Nat /\ (2 * n) \div 3 \in Nat /\ n \div 3 <= (2 * n) \div 3 /\ (2 * n) \div 3 <= n
  OBVIOUS
<1>2. CASE part = "early"
  BY <1>1, <1>2 DEF ThirdOf
<1>3. CASE part = "mid"
  BY <1>1, <1>3 DEF ThirdOf
<1>4. CASE part = "late"
  BY <1>1, <1>4 DEF ThirdOf
<1>5. CASE part \notin {"early", "mid", "late"}
  <2>1. ThirdOf(part, n) = <<0, n>>
    BY <1>5 DEF ThirdOf
  <2> QED
    BY <2>1
<1> QED
  BY <1>2, <1>3, <1>4, <1>5

\* Where such a date is in a uniform calendar.
LEMMA UniformNear ==
  ASSUME NEW cal, Counts(cal), cal.kind = "uniform", NEW d, Has(cal, d), EveryYearHas(cal, d),
         NEW r \in Int, Inside(cal, r, Far(cal)),
         NEW y \in Int, YearNear(cal, r, y), NEW m \in 1..MonthsPerYear(cal), Names(d, m)
  PROVE  /\ PlacedIn(cal, d, DatedBounds(cal, InMonth(d, TheMonth(y, m))), DayFromCivil(cal, y, m, 1), MonthLength(cal, y, m))
         /\ Into(cal, d) \in Nat
<1>1. PICK e : e = InMonth(d, TheMonth(y, m))
  OBVIOUS
<1>2. /\ e.year = y /\ e.month = m /\ e.day = d.day /\ e.part = d.part /\ e.clock = d.clock
      /\ e.zone = Missing /\ ~ e.julian /\ e.month # Missing
      /\ d.day = Missing \/ d.day \in Nat \ {0}
  <2>1. HasParts(e, d, y, m)
    BY <1>1, PartsOf
  <2> QED
    BY <2>1 DEF HasParts, EveryYearHas
<1>3. PICK D \in Nat \ {0}, o \in Int : D = DayLength(cal) /\ o = CalOrigin(cal)
  BY LengthsOf
<1>4. PICK len \in Nat \ {0} : len = MonthLength(cal, y, m) /\ len = cal.perMonth
  <2>1. cal.perMonth \in Nat \ {0}
    BY DEF Counts, Countable
  <2>2. MonthLength(cal, y, m) = cal.perMonth
    BY DEF MonthLength
  <2> QED
    BY <2>1, <2>2
<1>5. PICK f \in Int, w \in Int : f = DayFromCivil(cal, y, m, 1) /\ w = D * f
  <2>1. 0 \in Nat /\ 0 <= cal.perMonth + 10
    BY <1>4
  <2>2. DayFromCivil(cal, y, m, 1) \in Int
    BY <2>1, DaysThere
  <2> QED
    BY <2>2
<1>6. \A t \in Nat : t <= len + 10 =>
        /\ DayStart(cal, f + t) = w + D * t + o
        /\ MinInt < w + D * t + o /\ w + D * t + o < MaxInt
  <2>1. SUFFICES ASSUME NEW t \in Nat, t <= len + 10
                 PROVE  DayStart(cal, f + t) = w + D * t + o /\ MinInt < w + D * t + o /\ w + D * t + o < MaxInt
    OBVIOUS
  <2>2. t <= cal.perMonth + 10
    BY <1>4, <2>1
  <2>3. DayStart(cal, f + t) = D * (f + t) + o /\ MinInt < DayStart(cal, f + t) /\ DayStart(cal, f + t) < MaxInt
    BY <1>3, <1>5, <2>2, DaysThere
  <2>4. D * (f + t) = D * f + D * t
    OBVIOUS
  <2> QED
    BY <1>5, <2>3, <2>4
<1>7. PICK b : b = DatedBounds(cal, e)
  OBVIOUS
<1>8. DayLength(cal) * f = w /\ CalOrigin(cal) = o
  BY <1>3, <1>5
<1>9. CASE d.day = Missing
  <2>1. b = DaysFrom(cal, f, ThirdOf(d.part, len))
    BY <1>2, <1>4, <1>5, <1>7, <1>9 DEF DatedBounds
  <2>2. PICK g \in Nat, h \in Nat : g = ThirdOf(d.part, len)[1] /\ h = ThirdOf(d.part, len)[2] /\ g <= h /\ h <= len
    BY ThirdIs
  <2>3. b = <<DayStart(cal, f + g), DayStart(cal, f + h)>>
    BY <2>1, <2>2 DEF DaysFrom
  <2>4. PICK p \in Nat, q \in Nat, l \in Nat : p = D * g /\ q = D * h /\ l = D * len /\ p <= q /\ q <= l
    <3>1. PICK u \in Nat, v \in Nat : h = g + u /\ len = h + v
      <4>1. h - g \in Nat /\ h = g + (h - g) /\ len - h \in Nat /\ len = h + (len - h)
        BY <2>2
      <4> QED
        BY <4>1
    <3>2. D * (g + u) = D * g + D * u /\ D * u \in Nat /\ D * g \in Nat
      OBVIOUS
    <3>3. D * (h + v) = D * h + D * v /\ D * v \in Nat /\ D * h \in Nat
      OBVIOUS
    <3> QED
      BY <3>1, <3>2, <3>3
  <2>5. b[1] = w + p + o /\ b[2] = w + q + o
    <3>1. g <= len + 10 /\ h <= len + 10
      BY <2>2
    <3> QED
      BY <1>6, <2>3, <2>4, <3>1
  <2>6. Into(cal, d) = p /\ ~ HasClock(d)
    <3>1. DaysBefore(cal, d.part) = g
      BY <1>4, <2>2 DEF DaysBefore
    <3> QED
      BY <1>3, <1>9, <2>4, <3>1 DEF Into, HasClock
  <2>7. PlacedIn(cal, d, b, f, len)
    <3>1. DayLength(cal) * len = l
      BY <1>3, <2>4
    <3>2. b[1] \in Int /\ b[2] \in Int /\ b[1] <= b[2] /\ b[1] = w + o + p /\ b[2] <= w + l + o
      BY <2>4, <2>5
    <3> QED
      BY <1>8, <2>6, <3>1, <3>2 DEF PlacedIn
  <2> QED
    BY <1>1, <1>4, <1>5, <1>7, <2>6, <2>7
<1>10. CASE d.day # Missing
  <2>1. PICK k \in Nat, v \in Nat, n \in Int : d.day = k + 1 /\ len = k + 1 + v /\ n = f + k /\ n = DayFromCivil(cal, y, m, d.day)
    <3>1. d.day \in 1..len
      BY <1>4, <1>10, DayFits
    <3>2. d.day \in Int /\ d.day >= 1 /\ d.day <= len
      BY <3>1
    <3>3. DayFromCivil(cal, y, m, d.day) = f + d.day - 1
      BY <1>5, <3>2, DayInMonth DEF Counts
    <3>4. /\ d.day - 1 \in Nat /\ d.day = (d.day - 1) + 1 /\ f + d.day - 1 = f + (d.day - 1)
          /\ len - d.day \in Nat /\ len = (d.day - 1) + 1 + (len - d.day)
      BY <3>2
    <3> QED
      BY <3>3, <3>4
  <2>2. b = DayOrClock(cal, n, d.clock)
    BY <1>2, <1>7, <1>10, <2>1 DEF DatedBounds
  <2>3. PICK p \in Nat, l \in Nat : p = D * k /\ l = D * len /\ p + D <= l
    <3>1. D * (k + 1 + v) = D * k + D + D * v /\ D * v \in Nat /\ D * k \in Nat
      OBVIOUS
    <3> QED
      BY <2>1, <3>1
  <2>4. /\ DayStart(cal, n) = w + p + o /\ MinInt < w + p + o
        /\ DayStart(cal, n + 1) = w + p + D + o
        /\ w + p + 10 * D + o < MaxInt
    <3>1. k <= len + 10 /\ k + 1 \in Nat /\ k + 1 <= len + 10 /\ k + 10 \in Nat /\ k + 10 <= len + 10
      BY <2>1
    <3>2. D * (k + 1) = p + D /\ D * (k + 10) = p + 10 * D
      BY <2>3
    <3>3. n + 1 = f + (k + 1)
      BY <2>1
    <3>4. DayStart(cal, f + k) = w + D * k + o /\ MinInt < w + D * k + o
      BY <1>6, <3>1
    <3>5. DayStart(cal, f + (k + 1)) = w + D * (k + 1) + o
      BY <1>6, <3>1
    <3>6. w + D * (k + 10) + o < MaxInt
      BY <1>6, <3>1
    <3>7. DayStart(cal, n + 1) = w + (p + D) + o /\ w + (p + 10 * D) + o < MaxInt
      BY <3>2, <3>3, <3>5, <3>6
    <3>8. DayStart(cal, n) = w + p + o /\ MinInt < w + p + o
      BY <2>1, <2>3, <3>4
    <3> QED
      BY <3>7, <3>8, DayOfTicks
  <2>5. PICK x \in Nat : x = InDay(cal, d.clock.from) /\ (d.clock = NoClock => x = 0)
    BY ClockFits
  <2>6. d.day - 1 = k
    BY <2>1
  <2>7. Into(cal, d) = p + x
    BY <1>3, <1>10, <2>3, <2>5, <2>6 DEF Into
  <2>8. DayLength(cal) * len = l
    BY <1>3, <2>3
  <2>9. CASE d.clock = NoClock
    <3>1. b = <<DayStart(cal, n + 0), DayStart(cal, n + 1)>>
      BY <2>2, <2>9 DEF DayOrClock, DaysFrom
    <3>2. n + 0 = n
      OBVIOUS
    <3>3. b[1] = w + p + o /\ b[2] = w + p + D + o
      BY <2>4, <3>1, <3>2
    <3>4. ~ HasClock(d)
      BY <2>9 DEF HasClock
    <3>5. b[1] \in Int /\ b[2] \in Int /\ b[1] <= b[2] /\ b[1] = w + o + (p + x) /\ b[2] <= w + l + o
      BY <2>3, <2>5, <2>9, <3>3
    <3>6. PlacedIn(cal, d, b, f, len)
      BY <1>8, <2>7, <2>8, <3>4, <3>5 DEF PlacedIn
    <3> QED
      BY <1>1, <1>4, <1>5, <1>7, <2>7, <3>6
  <2>10. CASE d.clock # NoClock
    <3>1. HasClock(d)
      BY <1>10, <2>10 DEF HasClock
    <3>2. PICK t \in Nat : t = Lasts(cal, d)
      <4>1. Lasts(cal, d) \in 1..(7 * D)
        BY <1>3, <3>1, ClockFits
      <4> QED
        BY <4>1
    <3>3. PICK a \in Int : a = w + p + o /\ a = DayStart(cal, n) /\ MinInt < a /\ a + 10 * D < MaxInt
      <4>1. w + p + o + 10 * D = w + p + 10 * D + o
        OBVIOUS
      <4> QED
        BY <2>4, <4>1
    <3>4. ClockBounds(cal, n, d.clock) = <<a + x, a + x + t>>
      BY <1>3, <2>5, <3>1, <3>2, <3>3, ClockThere
    <3>5. b[1] = a + x /\ b[2] = a + x + t
      BY <2>2, <2>10, <3>4 DEF DayOrClock
    <3>6. b[1] \in Int /\ b[2] \in Int /\ b[1] <= b[2] /\ b[1] = w + o + (p + x) /\ b[2] = b[1] + t
      BY <3>3, <3>5
    <3>7. PlacedIn(cal, d, b, f, len)
      BY <1>8, <2>7, <3>1, <3>2, <3>6 DEF PlacedIn
    <3> QED
      BY <1>1, <1>4, <1>5, <1>7, <2>7, <3>7
  <2> QED
    BY <2>9, <2>10
<1> QED
  BY <1>9, <1>10

\* In every calendar.
LEMMA DatePlace ==
  ASSUME NEW cal, Counts(cal), NEW d, Has(cal, d), EveryYearHas(cal, d),
         NEW r \in Int, Inside(cal, r, Far(cal)),
         NEW y \in Int, YearNear(cal, r, y), NEW m \in 1..MonthsPerYear(cal), Names(d, m)
  PROVE  /\ PlacedIn(cal, d, DatedBounds(cal, InMonth(d, TheMonth(y, m))), DayFromCivil(cal, y, m, 1), MonthLength(cal, y, m))
         /\ Into(cal, d) \in Nat
<1>1. cal.kind = "gregorian" \/ cal.kind = "uniform"
  BY DEF Counts, Countable
<1> QED
  BY <1>1, GregorianPlace, UniformNear

\* Bounds of a time.
AreBounds(b) == b[1] \in Int /\ b[2] \in Int /\ b[1] <= b[2]

\* They are not refused, and are somewhere.
LEMMA BoundsSomewhere ==
  ASSUME NEW b, AreBounds(b), NEW r \in Int
  PROVE  b # NoBounds /\ Apart(b, r) \in Nat
<1>1. b # NoBounds
  BY DayOfTicks DEF AreBounds, NoBounds, PosInf, NegInf
<1>2. PICK x \in Int, y \in Int : x = b[1] /\ y = b[2] /\ x <= y
  BY DEF AreBounds
<1>3. Apart(b, r) \in Nat
  BY <1>2 DEF Apart
<1> QED
  BY <1>1, <1>3

\* The first of the nearest.
FirstOf(near) == CHOOSE n \in near : \A o \in near : n <= o

\* One of three is the first.
LEMMA FirstOfThree ==
  ASSUME NEW near, near \subseteq 1..3, near # {}
  PROVE  FirstOf(near) \in near
<1>1. \E n \in near : \A o \in near : n <= o
  <2>1. CASE 1 \in near
    BY <2>1
  <2>2. CASE 1 \notin near /\ 2 \in near
    <3>1. \A o \in near : 2 <= o
      BY <2>2
    <3> QED
      BY <2>2, <3>1
  <2>3. CASE 1 \notin near /\ 2 \notin near
    <3>1. \A o \in near : o = 3
      BY <2>3
    <3>2. 3 \in near
      BY <3>1
    <3>3. \A o \in near : 3 <= o
      BY <3>1
    <3> QED
      BY <3>2, <3>3
  <2> QED
    BY <2>1, <2>2, <2>3
<1> QED
  BY <1>1 DEF FirstOf

\* The nearest of three is one of them, and none is nearer.
LEMMA NearestOfThree ==
  ASSUME NEW bounds, DOMAIN bounds = 1..3, NEW r \in Int, \A n \in 1..3 : AreBounds(bounds[n])
  PROVE  \E n \in 1..3 : /\ NearestBounds(bounds, r) = bounds[n]
                         /\ \A o \in 1..3 : Apart(bounds[n], r) <= Apart(bounds[o], r)
<1>1. \A n \in 1..3 : bounds[n] # NoBounds /\ Apart(bounds[n], r) \in Nat
  BY BoundsSomewhere
<1> DEFINE A(n) == Apart(bounds[n], r)
           valid == {n \in DOMAIN bounds : bounds[n] # NoBounds}
           near == {n \in valid : \A o \in valid : A(n) <= A(o)}
<1>2. valid = 1..3
  BY <1>1
<1>3. NearestBounds(bounds, r) = bounds[FirstOf(near)]
  BY <1>2 DEF NearestBounds, FirstOf
<1>4. \A n \in near : n \in 1..3 /\ \A o \in 1..3 : A(n) <= A(o)
  BY <1>2
<1>5. \A n \in 1..3 : (\A o \in 1..3 : A(n) <= A(o)) => n \in near
  BY <1>2
<1>6. near # {}
  <2>1. PICK x \in Nat, y \in Nat, z \in Nat : x = A(1) /\ y = A(2) /\ z = A(3)
    BY <1>1
  <2>2. \A o \in 1..3 : o = 1 \/ o = 2 \/ o = 3
    OBVIOUS
  <2> HIDE DEF A, near, valid
  <2>3. CASE x <= y /\ x <= z
    <3>1. \A o \in 1..3 : A(1) <= A(o)
      BY <2>1, <2>2, <2>3
    <3> QED
      BY <1>5, <3>1
  <2>4. CASE y <= x /\ y <= z
    <3>1. \A o \in 1..3 : A(2) <= A(o)
      BY <2>1, <2>2, <2>4
    <3> QED
      BY <1>5, <3>1
  <2>5. CASE z <= x /\ z <= y
    <3>1. \A o \in 1..3 : A(3) <= A(o)
      BY <2>1, <2>2, <2>5
    <3> QED
      BY <1>5, <3>1
  <2> QED
    BY <2>3, <2>4, <2>5
<1> HIDE DEF near
<1>7. FirstOf(near) \in near
  <2>1. near \subseteq 1..3
    BY <1>4
  <2> QED
    BY <1>6, <2>1, FirstOfThree
<1> QED
  BY <1>3, <1>4, <1>7

\* The bounds of a date of every year, in a month.
InTheMonth(cal, d, y, m) == DatedBounds(cal, InMonth(d, TheMonth(y, m)))

\* A date and a month near the reference.
IsMeant(cal, d, r, y, m) ==
  /\ Counts(cal) /\ r \in Int /\ Inside(cal, r, Far(cal)) /\ Has(cal, d) /\ EveryYearHas(cal, d)
  /\ y \in Int /\ YearNear(cal, r, y) /\ m \in 1..MonthsPerYear(cal) /\ Names(d, m)

\* Where it is.
LEMMA MeantPlace ==
  ASSUME NEW cal, NEW d, NEW r, NEW y, NEW m, IsMeant(cal, d, r, y, m)
  PROVE  /\ PlacedIn(cal, d, InTheMonth(cal, d, y, m), DayFromCivil(cal, y, m, 1), MonthLength(cal, y, m))
         /\ Into(cal, d) \in Nat /\ AreBounds(InTheMonth(cal, d, y, m))
<1>1. PlacedIn(cal, d, InTheMonth(cal, d, y, m), DayFromCivil(cal, y, m, 1), MonthLength(cal, y, m)) /\ Into(cal, d) \in Nat
  BY DatePlace DEF IsMeant, InTheMonth
<1> QED
  BY <1>1 DEF PlacedIn, AreBounds

\* The number of the month that the reference is in.
ThisMonth(cal, r) == MonthNumber(cal, CivilOf(cal, r))

\* There lies between here and beyond.
Between(here, there, beyond) == (here < there /\ there < beyond) \/ (beyond < there /\ there < here)

\* Of two later months, or two earlier ones, the date is nearer in the one between.
LEMMA BetweenIsNearer ==
  ASSUME NEW cal, NEW d, NEW r, NEW y, NEW m, IsMeant(cal, d, r, y, m),
         NEW z, NEW k, IsMeant(cal, d, r, z, k),
         Between(ThisMonth(cal, r), MonthNumber(cal, TheMonth(y, m)), MonthNumber(cal, TheMonth(z, k)))
  PROVE  Apart(InTheMonth(cal, d, y, m), r) <= Apart(InTheMonth(cal, d, z, k), r)
<1>1. Counts(cal) /\ r \in Int /\ y \in Int /\ m \in 1..MonthsPerYear(cal) /\ z \in Int /\ k \in 1..MonthsPerYear(cal)
  BY DEF IsMeant
<1>2. PICK n \in Int : n = DayOf(cal, r) /\ ThisMonth(cal, r) = MonthNumber(cal, CivilOfDay(cal, n))
  BY <1>1, DayOfIs DEF ThisMonth, CivilOf
<1>3. PICK f, len, b : f = DayFromCivil(cal, y, m, 1) /\ len = MonthLength(cal, y, m) /\ b = InTheMonth(cal, d, y, m)
  OBVIOUS
<1>4. PICK g, more, c : g = DayFromCivil(cal, z, k, 1) /\ more = MonthLength(cal, z, k) /\ c = InTheMonth(cal, d, z, k)
  OBVIOUS
<1>5. PICK here, there, beyond : /\ here = ThisMonth(cal, r) /\ there = MonthNumber(cal, TheMonth(y, m))
                                 /\ beyond = MonthNumber(cal, TheMonth(z, k))
  OBVIOUS
<1>6. f \in Int /\ len \in Nat \ {0} /\ here \in Int /\ there \in Int /\ (here < there => n < f) /\ (there < here => f + len <= n)
  BY <1>1, <1>2, <1>3, <1>5, DaysOfMonths
<1>7. g \in Int /\ more \in Nat \ {0} /\ beyond \in Int
  BY <1>1, <1>2, <1>4, <1>5, DaysOfMonths
<1>8. CivilOfDay(cal, f) = TheDate(y, m, 1) /\ CivilOfDay(cal, g) = TheDate(z, k, 1)
  <2>1. 1 \in 1..MonthLength(cal, y, m) /\ 1 \in 1..MonthLength(cal, z, k) /\ Countable(cal)
    BY <1>1, <1>3, <1>4, <1>6, <1>7 DEF Counts
  <2> QED
    BY <1>1, <1>3, <1>4, <2>1, DateOfItsDay
<1>9. MonthNumber(cal, CivilOfDay(cal, f)) = there /\ MonthNumber(cal, CivilOfDay(cal, g)) = beyond
  BY <1>5, <1>8 DEF MonthNumber, TheDate, TheMonth
<1>10. there < beyond => f + len <= g
  BY <1>1, <1>3, <1>5, <1>7, <1>9, DaysOfMonths
<1>11. beyond < there => g + more <= f
  BY <1>1, <1>4, <1>5, <1>6, <1>9, DaysOfMonths
<1>12. PlacedIn(cal, d, b, f, len) /\ Into(cal, d) \in Nat
  BY <1>3, MeantPlace
<1>13. PlacedIn(cal, d, c, g, more)
  BY <1>4, MeantPlace
<1>14. CASE here < there /\ there < beyond
  <2>1. DayOf(cal, r) < f /\ f <= g
    BY <1>2, <1>6, <1>7, <1>10, <1>14
  <2>2. Apart(b, r) <= Apart(c, r)
    BY <1>1, <1>6, <1>7, <1>12, <1>13, <2>1, LaterFarther
  <2> QED
    BY <1>3, <1>4, <2>2
<1>15. CASE beyond < there /\ there < here
  <2>1. f + len <= DayOf(cal, r) /\ g + more <= f
    BY <1>2, <1>6, <1>11, <1>15
  <2>2. HasClock(d) => /\ Into(cal, d) <= DayLength(cal) * len + DayLength(cal)
                       /\ Lasts(cal, d) \in 1..7 * DayLength(cal) /\ more >= 10
    <3>1. SUFFICES ASSUME HasClock(d)
                   PROVE  /\ Into(cal, d) <= DayLength(cal) * len + DayLength(cal)
                          /\ Lasts(cal, d) \in 1..7 * DayLength(cal) /\ more >= 10
      OBVIOUS
    <3>2. d.day # Missing /\ d.clock # NoClock /\ EveryYearHas(cal, d) /\ Has(cal, d) /\ Names(d, m)
      BY <3>1 DEF HasClock, IsMeant
    <3>3. Into(cal, d) <= DayLength(cal) * len + DayLength(cal)
      BY <1>1, <1>3, <3>2, IntoDay
    <3>4. Lasts(cal, d) \in 1..7 * DayLength(cal)
      BY <1>1, <3>1, <3>2, ClockFits
    <3>5. more >= 10
      <4>1. CASE cal.kind = "gregorian"
        <5>1. more = DaysInMonth(z, k) /\ k \in 1..12
          BY <1>1, <1>4, <4>1 DEF MonthLength, MonthsPerYear
        <5> QED
          BY <5>1 DEF DaysInMonth
      <4>2. CASE cal.kind # "gregorian"
        BY <1>4, <3>2, <4>2 DEF MonthLength, EveryYearHas
      <4> QED
        BY <4>1, <4>2
    <3> QED
      BY <3>3, <3>4, <3>5
  <2>3. Apart(b, r) <= Apart(c, r)
    BY <1>1, <1>6, <1>7, <1>12, <1>13, <2>1, <2>2, EarlierFarther
  <2> QED
    BY <1>3, <1>4, <2>3
<1> QED
  BY <1>5, <1>14, <1>15 DEF Between

\* The nearest of three dates.
LEMMA NearestOfDates ==
  ASSUME NEW cal, NEW r \in Int, NEW a, NEW b, NEW c,
         AreBounds(DatedBounds(cal, a)), AreBounds(DatedBounds(cal, b)), AreBounds(DatedBounds(cal, c)),
         NEW taken, taken = NearestBounds(BoundsOfAll(cal, <<a, b, c>>), r)
  PROVE  /\ AreBounds(taken)
         /\ Apart(taken, r) <= Apart(DatedBounds(cal, a), r)
         /\ Apart(taken, r) <= Apart(DatedBounds(cal, b), r)
         /\ Apart(taken, r) <= Apart(DatedBounds(cal, c), r)
<1>1. PICK bounds : bounds = BoundsOfAll(cal, <<a, b, c>>)
  OBVIOUS
<1>2. /\ DOMAIN bounds = 1..3 /\ bounds[1] = DatedBounds(cal, a)
      /\ bounds[2] = DatedBounds(cal, b) /\ bounds[3] = DatedBounds(cal, c)
  <2>1. PICK dates : dates = <<a, b, c>>
    OBVIOUS
  <2>2. DOMAIN dates = 1..3 /\ dates[1] = a /\ dates[2] = b /\ dates[3] = c
    BY <2>1
  <2>3. bounds = [n \in 1..3 |-> DatedBounds(cal, dates[n])]
    BY <1>1, <2>1, <2>2 DEF BoundsOfAll
  <2> QED
    BY <2>2, <2>3
<1>3. \A n \in 1..3 : AreBounds(bounds[n])
  <2>1. \A n \in 1..3 : n = 1 \/ n = 2 \/ n = 3
    OBVIOUS
  <2> QED
    BY <1>2, <2>1
<1>4. PICK n \in 1..3 : taken = bounds[n] /\ \A o \in 1..3 : Apart(bounds[n], r) <= Apart(bounds[o], r)
  <2>1. \E n \in 1..3 : /\ NearestBounds(bounds, r) = bounds[n]
                        /\ \A o \in 1..3 : Apart(bounds[n], r) <= Apart(bounds[o], r)
    BY <1>2, <1>3, NearestOfThree
  <2> QED
    BY <1>1, <2>1
<1>5. 1 \in 1..3 /\ 2 \in 1..3 /\ 3 \in 1..3
  OBVIOUS
<1> QED
  BY <1>2, <1>3, <1>4, <1>5

\* A date without a year, in months or years that are given.
LEMMA WrittenShort ==
  ASSUME NEW cal, NEW d, EveryYearHas(cal, d)
  PROVE  /\ d.year = Missing /\ d.yearOffset = Missing /\ d.monthOffset = Missing /\ d.zone = Missing /\ ~ d.julian
         /\ \A y : [d EXCEPT !.year = y] = InMonth(d, TheMonth(y, d.month))
<1>1. PICK a, b, p, c : a = d.month /\ b = d.day /\ p = d.part /\ c = d.clock
  OBVIOUS
<1>2. d = [NoDate EXCEPT !.month = a, !.day = b, !.part = p, !.clock = c]
  BY <1>1 DEF EveryYearHas
<1>3. d.year = Missing /\ d.yearOffset = Missing /\ d.monthOffset = Missing /\ d.zone = Missing /\ ~ d.julian
  BY <1>2 DEF NoDate
<1>4. ASSUME NEW y PROVE [d EXCEPT !.year = y] = InMonth(d, TheMonth(y, d.month))
  <2>1. PICK e : e = [d EXCEPT !.year = y]
    OBVIOUS
  <2>2. PICK x : x = [d EXCEPT !.year = y, !.month = d.month]
    OBVIOUS
  <2>3. d = [year |-> Missing, month |-> a, day |-> b, part |-> p, clock |-> c, zone |-> Missing,
             yearOffset |-> Missing, monthOffset |-> Missing, uncertain |-> FALSE, julian |-> FALSE]
    BY <1>2 DEF NoDate
  <2>4. e = [year |-> y, month |-> a, day |-> b, part |-> p, clock |-> c, zone |-> Missing,
             yearOffset |-> Missing, monthOffset |-> Missing, uncertain |-> FALSE, julian |-> FALSE]
    BY <2>1, <2>3
  <2>5. x = [year |-> y, month |-> a, day |-> b, part |-> p, clock |-> c, zone |-> Missing,
             yearOffset |-> Missing, monthOffset |-> Missing, uncertain |-> FALSE, julian |-> FALSE]
    BY <2>2, <2>3
  <2>6. InMonth(d, TheMonth(y, d.month)) = x
    BY <2>2 DEF InMonth, TheMonth
  <2> QED
    BY <2>1, <2>4, <2>5, <2>6
<1> QED
  BY <1>3, <1>4

\* Its bounds are those of the nearest candidate.
LEMMA ShortDate ==
  ASSUME NEW cal, Counts(cal), NEW r \in Int, Inside(cal, r, Far(cal)), NEW d, EveryYearHas(cal, d)
  PROVE  DateBounds(cal, d, r) = NearestBounds(BoundsOfAll(cal, Candidates(cal, d, CivilOf(cal, r))), r)
<1>1. r # Missing /\ cal.kind # "opaque"
  BY ReferenceIsThere
<1>2. d.year = Missing /\ d.yearOffset = Missing /\ d.monthOffset = Missing
  BY WrittenShort
<1>3. Meant(cal, d, CivilOf(cal, r)) = Candidates(cal, d, CivilOf(cal, r)) /\ ~ IsRelative(d)
  BY <1>2 DEF Meant, IsRelative
<1> QED
  BY <1>1, <1>3 DEF DateBounds, BoundsNear

\* The month that is so many months, one at most, from that of the reference.
LEMMA MonthBeside ==
  ASSUME NEW cal, Counts(cal), NEW r \in Int, NEW delta \in Int, -1 <= delta, delta <= 1,
         NEW c, c = CivilOf(cal, r)
  PROVE  \E z \in Int, k \in 1..MonthsPerYear(cal) :
           /\ ShiftMonth(cal, c.year, c.month, delta) = TheMonth(z, k)
           /\ MonthNumber(cal, TheMonth(z, k)) = ThisMonth(cal, r) + delta
           /\ YearNear(cal, r, z)
<1>1. PICK N \in Nat \ {0} : N = MonthsPerYear(cal)
  BY LengthsOf
<1>2. c.year \in Int /\ c.month \in 1..N
  <2>1. DayOf(cal, r) \in Int
    BY DayOfIs
  <2> QED
    BY <1>1, <2>1, DateParts DEF CivilOf, Counts
<1>3. PICK y \in Int, m \in 1..N : y = c.year /\ m = c.month
  BY <1>2
<1>4. 1 \in Nat /\ delta <= 1 /\ 0 - delta <= 1
  OBVIOUS
<1>5. PICK z \in Int, k \in 1..N : ShiftsTo(cal, y, m, delta, 1, z, k)
  <2>1. \E z \in Int, k \in 1..MonthsPerYear(cal) : ShiftsTo(cal, y, m, delta, 1, z, k)
    BY <1>1, <1>3, <1>4, ShiftNear
  <2> QED
    BY <1>1, <2>1
<1>6. IsMonthsOn(cal, y, m, delta, z, k)
  <2>1. PICK x \in Int, l \in 1..N : IsMonthsOn(cal, y, m, delta, x, l)
    <3>1. m \in Int /\ MonthsPerYear(cal) \in Nat \ {0}
      BY <1>1
    <3>2. \E x \in Int, l \in 1..MonthsPerYear(cal) : IsMonthsOn(cal, y, m, delta, x, l)
      BY <3>1, ShiftExists
    <3> QED
      BY <1>1, <3>2
  <2>2. ShiftMonth(cal, y, m, delta) = TheMonth(x, l)
    BY <1>1, <2>1, ShiftIs
  <2>3. TheMonth(x, l) = TheMonth(z, k)
    BY <1>5, <2>2 DEF ShiftsTo
  <2>4. x = z /\ l = k
    BY <2>3 DEF TheMonth
  <2> QED
    BY <2>1, <2>4
<1>7. MonthNumber(cal, TheMonth(z, k)) = ThisMonth(cal, r) + delta
  <2>1. PICK a \in Int, b \in Int : a = y * N /\ b = z * N
    OBVIOUS
  <2>2. b + k - 1 = a + m - 1 + delta
    BY <1>1, <1>6, <2>1 DEF IsMonthsOn
  <2>3. MonthNumber(cal, TheMonth(z, k)) = b + k - 1
    BY <1>1, <2>1 DEF MonthNumber, TheMonth
  <2>4. ThisMonth(cal, r) = a + m - 1
    BY <1>1, <1>3, <2>1 DEF MonthNumber, ThisMonth
  <2> QED
    BY <2>2, <2>3, <2>4
<1>8. YearNear(cal, r, z)
  <2>1. z - y <= 1 /\ y - z <= 1
    BY <1>5 DEF ShiftsTo
  <2> QED
    BY <1>3, <2>1 DEF YearNear
<1>9. ShiftMonth(cal, c.year, c.month, delta) = TheMonth(z, k)
  BY <1>3, <1>5 DEF ShiftsTo
<1> QED
  BY <1>1, <1>7, <1>8, <1>9

\* What is asked about a date without a year.
Asked(cal, d, r) == Counts(cal) /\ r \in Int /\ Inside(cal, r, Far(cal)) /\ Has(cal, d) /\ EveryYearHas(cal, d)

\* The date of the reference.
LEMMA DateOfReference ==
  ASSUME NEW cal, Counts(cal), NEW r \in Int, NEW c, c = CivilOf(cal, r)
  PROVE  /\ c.year \in Int /\ c.month \in 1..MonthsPerYear(cal)
         /\ ThisMonth(cal, r) = c.year * MonthsPerYear(cal) + c.month - 1
<1>1. DayOf(cal, r) \in Int
  BY DayOfIs
<1> QED
  BY <1>1, DateParts DEF CivilOf, Counts, ThisMonth, MonthNumber

\* The same month of the years around the reference.
LEMMA NearestOfYears ==
  ASSUME NEW cal, NEW d, NEW r, Asked(cal, d, r), d.month # Missing,
         NEW z \in Int, YearNear(cal, r, z), NEW taken, taken = DateBounds(cal, d, r)
  PROVE  AreBounds(taken) /\ Apart(taken, r) <= Apart(InTheMonth(cal, d, z, d.month), r)
<1>1. Counts(cal) /\ r \in Int /\ Inside(cal, r, Far(cal)) /\ Has(cal, d) /\ EveryYearHas(cal, d)
  BY DEF Asked
<1>2. PICK N \in Nat \ {0} : N = MonthsPerYear(cal)
  BY <1>1, LengthsOf
<1>3. PICK c : c = CivilOf(cal, r)
  OBVIOUS
<1>4. PICK y \in Int, x \in 1..N : y = c.year /\ x = c.month /\ ThisMonth(cal, r) = y * N + x - 1
  BY <1>1, <1>2, <1>3, DateOfReference
<1>5. PICK m \in 1..N : m = d.month
  <2>1. d.month \in Nat \ {0} /\ d.month <= N
    BY <1>1, <1>2 DEF EveryYearHas, Has
  <2> QED
    BY <2>1
<1>6. ASSUME NEW v \in Int, YearNear(cal, r, v) PROVE IsMeant(cal, d, r, v, m)
  BY <1>1, <1>2, <1>5, <1>6 DEF IsMeant, Names
<1>7. y - 1 \in Int /\ y + 1 \in Int /\ YearNear(cal, r, y) /\ YearNear(cal, r, y - 1) /\ YearNear(cal, r, y + 1)
  BY <1>3, <1>4 DEF YearNear
<1>8. IsMeant(cal, d, r, y, m) /\ IsMeant(cal, d, r, y - 1, m) /\ IsMeant(cal, d, r, y + 1, m)
  BY <1>6, <1>7
<1>9. Candidates(cal, d, c) = <<InMonth(d, TheMonth(y, m)), InMonth(d, TheMonth(y - 1, m)), InMonth(d, TheMonth(y + 1, m))>>
  <2>1. Candidates(cal, d, c) = <<[d EXCEPT !.year = c.year], [d EXCEPT !.year = c.year - 1], [d EXCEPT !.year = c.year + 1]>>
    BY DEF Candidates
  <2>2. \A v : [d EXCEPT !.year = v] = InMonth(d, TheMonth(v, d.month))
    BY <1>1, WrittenShort
  <2> QED
    BY <1>4, <1>5, <2>1, <2>2
<1>10. /\ AreBounds(InTheMonth(cal, d, y, m)) /\ AreBounds(InTheMonth(cal, d, y - 1, m))
       /\ AreBounds(InTheMonth(cal, d, y + 1, m)) /\ AreBounds(InTheMonth(cal, d, z, m))
  BY <1>6, <1>8, MeantPlace
<1>11. /\ AreBounds(taken)
       /\ Apart(taken, r) <= Apart(InTheMonth(cal, d, y, m), r)
       /\ Apart(taken, r) <= Apart(InTheMonth(cal, d, y - 1, m), r)
       /\ Apart(taken, r) <= Apart(InTheMonth(cal, d, y + 1, m), r)
  <2>1. taken = NearestBounds(BoundsOfAll(cal, Candidates(cal, d, c)), r)
    BY <1>1, <1>3, ShortDate
  <2> QED
    BY <1>1, <1>9, <1>10, <2>1, NearestOfDates DEF InTheMonth
<1>12. PICK a \in Int : a = y * N
  BY <1>2, <1>4
<1>13. /\ ThisMonth(cal, r) = a + x - 1
       /\ MonthNumber(cal, TheMonth(y + 1, m)) = a + N + m - 1
       /\ MonthNumber(cal, TheMonth(y + 2, m)) = a + 2 * N + m - 1
       /\ MonthNumber(cal, TheMonth(y - 1, m)) = a - N + m - 1
       /\ MonthNumber(cal, TheMonth(y - 2, m)) = a - 2 * N + m - 1
  <2>1. \A v : MonthNumber(cal, TheMonth(v, m)) = v * N + m - 1
    BY <1>2 DEF MonthNumber, TheMonth
  <2>2. (y + 1) * N = y * N + N /\ (y + 2) * N = y * N + 2 * N /\ (y - 1) * N = y * N - N /\ (y - 2) * N = y * N - 2 * N
    OBVIOUS
  <2> QED
    BY <1>4, <1>12, <2>1, <2>2
<1>14. \A b : AreBounds(b) => Apart(b, r) \in Nat
  BY <1>1, BoundsSomewhere
<1>15. z = y \/ z = y - 1 \/ z = y + 1 \/ z = y + 2 \/ z = y - 2
  <2>1. z - y \in -2..2
    BY <1>3, <1>4 DEF YearNear
  <2> QED
    BY <2>1
<1>16. CASE z = y \/ z = y - 1 \/ z = y + 1
  BY <1>5, <1>11, <1>16
<1>17. CASE z = y + 2
  <2>1. Between(ThisMonth(cal, r), MonthNumber(cal, TheMonth(y + 1, m)), MonthNumber(cal, TheMonth(z, m)))
    BY <1>13, <1>17 DEF Between
  <2>2. Apart(InTheMonth(cal, d, y + 1, m), r) <= Apart(InTheMonth(cal, d, z, m), r)
    BY <1>6, <1>8, <2>1, BetweenIsNearer
  <2> QED
    BY <1>5, <1>10, <1>11, <1>14, <2>2
<1>18. CASE z = y - 2
  <2>1. Between(ThisMonth(cal, r), MonthNumber(cal, TheMonth(y - 1, m)), MonthNumber(cal, TheMonth(z, m)))
    BY <1>13, <1>18 DEF Between
  <2>2. Apart(InTheMonth(cal, d, y - 1, m), r) <= Apart(InTheMonth(cal, d, z, m), r)
    BY <1>6, <1>8, <2>1, BetweenIsNearer
  <2> QED
    BY <1>5, <1>10, <1>11, <1>14, <2>2
<1> QED
  BY <1>15, <1>16, <1>17, <1>18

\* The same day of the months around the reference.
LEMMA NearestOfMonths ==
  ASSUME NEW cal, NEW d, NEW r, Asked(cal, d, r), d.month = Missing, d.day # Missing,
         NEW z \in Int, YearNear(cal, r, z), NEW k \in 1..MonthsPerYear(cal), NEW taken, taken = DateBounds(cal, d, r)
  PROVE  AreBounds(taken) /\ Apart(taken, r) <= Apart(InTheMonth(cal, d, z, k), r)
<1>1. Counts(cal) /\ r \in Int /\ Inside(cal, r, Far(cal)) /\ Has(cal, d) /\ EveryYearHas(cal, d)
  BY DEF Asked
<1>2. PICK N \in Nat \ {0} : N = MonthsPerYear(cal)
  BY <1>1, LengthsOf
<1>3. PICK c : c = CivilOf(cal, r)
  OBVIOUS
<1>4. PICK y \in Int, x \in 1..N : y = c.year /\ x = c.month /\ ThisMonth(cal, r) = y * N + x - 1
  BY <1>1, <1>2, <1>3, DateOfReference
<1>5. ASSUME NEW v \in Int, YearNear(cal, r, v), NEW m \in 1..N PROVE IsMeant(cal, d, r, v, m)
  BY <1>1, <1>2, <1>5 DEF IsMeant, Names
<1>6. PICK here \in Int, there \in Int : here = ThisMonth(cal, r) /\ there = MonthNumber(cal, TheMonth(z, k))
  <2>1. PICK a \in Int, b \in Int : a = y * N /\ b = z * N
    BY <1>4
  <2>2. MonthNumber(cal, TheMonth(z, k)) = b + k - 1 /\ ThisMonth(cal, r) = a + x - 1
    BY <1>2, <1>4, <2>1 DEF MonthNumber, TheMonth
  <2> QED
    BY <1>2, <2>1, <2>2
<1>7. ASSUME NEW delta \in Int, -1 <= delta, delta <= 1
      PROVE  \E v \in Int, m \in 1..N :
               /\ ShiftMonth(cal, c.year, c.month, delta) = TheMonth(v, m)
               /\ MonthNumber(cal, TheMonth(v, m)) = here + delta
               /\ YearNear(cal, r, v)
  BY <1>1, <1>2, <1>3, <1>6, <1>7, MonthBeside
<1>8. PICK y0 \in Int, m0 \in 1..N : /\ ShiftMonth(cal, c.year, c.month, 0) = TheMonth(y0, m0)
                                     /\ MonthNumber(cal, TheMonth(y0, m0)) = here + 0 /\ YearNear(cal, r, y0)
  <2>1. 0 \in Int /\ -1 <= 0 /\ 0 <= 1
    OBVIOUS
  <2> QED
    BY <1>7, <2>1
<1>9. PICK y1 \in Int, m1 \in 1..N : /\ ShiftMonth(cal, c.year, c.month, -1) = TheMonth(y1, m1)
                                     /\ MonthNumber(cal, TheMonth(y1, m1)) = here + (-1) /\ YearNear(cal, r, y1)
  <2>1. -1 \in Int /\ -1 <= -1 /\ -1 <= 1
    OBVIOUS
  <2> QED
    BY <1>7, <2>1
<1>10. PICK y2 \in Int, m2 \in 1..N : /\ ShiftMonth(cal, c.year, c.month, 1) = TheMonth(y2, m2)
                                      /\ MonthNumber(cal, TheMonth(y2, m2)) = here + 1 /\ YearNear(cal, r, y2)
  <2>1. 1 \in Int /\ -1 <= 1 /\ 1 <= 1
    OBVIOUS
  <2> QED
    BY <1>7, <2>1
<1>11. Candidates(cal, d, c) = <<InMonth(d, TheMonth(y0, m0)), InMonth(d, TheMonth(y1, m1)), InMonth(d, TheMonth(y2, m2))>>
  BY <1>8, <1>9, <1>10 DEF Candidates
<1>12. IsMeant(cal, d, r, y0, m0) /\ IsMeant(cal, d, r, y1, m1) /\ IsMeant(cal, d, r, y2, m2) /\ IsMeant(cal, d, r, z, k)
  BY <1>2, <1>5, <1>8, <1>9, <1>10
<1>13. /\ AreBounds(InTheMonth(cal, d, y0, m0)) /\ AreBounds(InTheMonth(cal, d, y1, m1))
       /\ AreBounds(InTheMonth(cal, d, y2, m2)) /\ AreBounds(InTheMonth(cal, d, z, k))
  BY <1>12, MeantPlace
<1>14. /\ AreBounds(taken)
       /\ Apart(taken, r) <= Apart(InTheMonth(cal, d, y0, m0), r)
       /\ Apart(taken, r) <= Apart(InTheMonth(cal, d, y1, m1), r)
       /\ Apart(taken, r) <= Apart(InTheMonth(cal, d, y2, m2), r)
  <2>1. taken = NearestBounds(BoundsOfAll(cal, Candidates(cal, d, c)), r)
    BY <1>1, <1>3, ShortDate
  <2> QED
    BY <1>1, <1>11, <1>13, <2>1, NearestOfDates DEF InTheMonth
<1>15. \A b : AreBounds(b) => Apart(b, r) \in Nat
  BY <1>1, BoundsSomewhere
<1>16. PICK delta \in Int : delta = there - here
  OBVIOUS
<1>17. ShiftMonth(cal, c.year, c.month, delta) = TheMonth(z, k)
  <2>1. PICK a \in Int, b \in Int : a = y * N /\ b = z * N
    BY <1>4
  <2>2. there = b + k - 1 /\ here = a + x - 1
    BY <1>2, <1>4, <1>6, <2>1 DEF MonthNumber, TheMonth
  <2>3. b + k - 1 = a + x - 1 + delta
    BY <1>2, <1>16, <2>2
  <2>4. IsMonthsOn(cal, y, x, delta, z, k)
    BY <1>2, <2>1, <2>3 DEF IsMonthsOn
  <2>5. x \in Int
    OBVIOUS
  <2> QED
    BY <1>2, <1>4, <2>4, <2>5, ShiftIs
<1>18. CASE delta = 0
  <2>1. InTheMonth(cal, d, z, k) = InTheMonth(cal, d, y0, m0)
    BY <1>8, <1>17, <1>18 DEF InTheMonth
  <2> QED
    BY <1>14, <2>1
<1>19. CASE delta = -1
  <2>1. InTheMonth(cal, d, z, k) = InTheMonth(cal, d, y1, m1)
    BY <1>9, <1>17, <1>19 DEF InTheMonth
  <2> QED
    BY <1>14, <2>1
<1>20. CASE delta = 1
  <2>1. InTheMonth(cal, d, z, k) = InTheMonth(cal, d, y2, m2)
    BY <1>10, <1>17, <1>20 DEF InTheMonth
  <2> QED
    BY <1>14, <2>1
<1>21. CASE delta > 1
  <2>1. Between(ThisMonth(cal, r), MonthNumber(cal, TheMonth(y2, m2)), MonthNumber(cal, TheMonth(z, k)))
    BY <1>6, <1>10, <1>16, <1>21 DEF Between
  <2>2. Apart(InTheMonth(cal, d, y2, m2), r) <= Apart(InTheMonth(cal, d, z, k), r)
    BY <1>12, <2>1, BetweenIsNearer
  <2> QED
    BY <1>13, <1>14, <1>15, <2>2
<1>22. CASE delta < -1
  <2>1. Between(ThisMonth(cal, r), MonthNumber(cal, TheMonth(y1, m1)), MonthNumber(cal, TheMonth(z, k)))
    BY <1>6, <1>9, <1>16, <1>22 DEF Between
  <2>2. Apart(InTheMonth(cal, d, y1, m1), r) <= Apart(InTheMonth(cal, d, z, k), r)
    BY <1>12, <2>1, BetweenIsNearer
  <2> QED
    BY <1>13, <1>14, <1>15, <2>2
<1> QED
  BY <1>18, <1>19, <1>20, <1>21, <1>22

\* A year begins on its first day, and what is in it lies between this day and the next year's.
LEMMA YearAround ==
  ASSUME NEW cal, Counts(cal), NEW r \in Int, NEW y, y = CivilOf(cal, r).year
  PROVE  DayFromCivil(cal, y, 1, 1) <= DayOf(cal, r) /\ DayOf(cal, r) < DayFromCivil(cal, y + 1, 1, 1)
<1>1. PICK N \in Nat \ {0} : N = MonthsPerYear(cal)
  BY LengthsOf
<1>2. PICK n \in Int : n = DayOf(cal, r)
  BY DayOfIs
<1>3. PICK c : c = CivilOfDay(cal, n)
  OBVIOUS
<1>4. c.year \in Int /\ c.month \in 1..N /\ y = c.year /\ Countable(cal)
  BY <1>1, <1>2, <1>3, DateParts DEF CivilOf, Counts
<1>5. PICK x \in 1..N, a \in Int : x = c.month /\ a = y * N
  BY <1>1, <1>4
<1>6. MonthNumber(cal, c) = a + x - 1
  BY <1>1, <1>4, <1>5 DEF MonthNumber
<1>7. n < DayFromCivil(cal, y + 1, 1, 1)
  <2>1. y + 1 \in Int /\ 1 \in 1..MonthsPerYear(cal) /\ (y + 1) * N = a + N
    BY <1>1, <1>4, <1>5
  <2>2. MonthNumber(cal, TheMonth(y + 1, 1)) = a + N
    BY <1>1, <2>1 DEF MonthNumber, TheMonth
  <2>3. MonthNumber(cal, CivilOfDay(cal, n)) < MonthNumber(cal, TheMonth(y + 1, 1))
    BY <1>3, <1>5, <1>6, <2>2
  <2> QED
    BY <2>1, <2>3, DaysOfMonths
<1>8. DayFromCivil(cal, y, 1, 1) <= n
  <2>1. y - 1 \in Int /\ N \in 1..MonthsPerYear(cal) /\ (y - 1) * N = a - N
    BY <1>1, <1>4, <1>5
  <2>2. MonthNumber(cal, TheMonth(y - 1, N)) = a - N + N - 1
    BY <1>1, <2>1 DEF MonthNumber, TheMonth
  <2>3. MonthNumber(cal, TheMonth(y - 1, N)) < MonthNumber(cal, CivilOfDay(cal, n))
    BY <1>3, <1>5, <1>6, <2>2
  <2>4. PICK f \in Int, len \in Nat \ {0} : f = DayFromCivil(cal, y - 1, N, 1) /\ len = MonthLength(cal, y - 1, N)
    BY <2>1, DaysOfMonths
  <2>5. f + len <= n
    BY <2>1, <2>3, <2>4, DaysOfMonths
  <2>6. 1 \in 1..len /\ len \in 1..len
    OBVIOUS
  <2>7. PICK l \in Int : l = f + len - 1 /\ l = DayFromCivil(cal, y - 1, N, len)
    BY <1>4, <2>1, <2>4, DayInMonth
  <2>8. CivilOfDay(cal, l) = TheDate(y - 1, N, len)
    BY <1>4, <2>1, <2>4, <2>6, <2>7, DateOfItsDay
  <2>9. PICK t : t = CivilOfDay(cal, l) /\ t.year = y - 1 /\ t.month = N /\ t.day = len
    BY <2>8 DEF TheDate
  <2>10. CivilOfDay(cal, l + 1) = TheDate(y, 1, 1)
    <3>1. CivilOfDay(cal, l + 1) = NextDate(t, MonthLength(cal, t.year, t.month), MonthsPerYear(cal))
      BY <1>4, <2>7, <2>9, DaysOfCalendar
    <3>2. CivilOfDay(cal, l + 1) = NextDate(t, len, N)
      BY <1>1, <2>4, <2>9, <3>1
    <3>3. ~ (len < len) /\ ~ (N < N) /\ (y - 1) + 1 = y
      BY <1>4
    <3>4. NextDate(t, len, N) = [year |-> (y - 1) + 1, month |-> 1, day |-> 1]
      BY <2>9, <3>3 DEF NextDate
    <3> QED
      BY <3>2, <3>3, <3>4 DEF TheDate
  <2>11. DayFromCivil(cal, y, 1, 1) = l + 1
    <3>1. PICK u : u = CivilOfDay(cal, l + 1) /\ u.year = y /\ u.month = 1 /\ u.day = 1
      BY <2>10 DEF TheDate
    <3>2. l + 1 \in Int
      BY <2>7
    <3>3. DayFromCivil(cal, u.year, u.month, u.day) = l + 1
      BY <1>4, <3>1, <3>2, DaysOfCalendar
    <3> QED
      BY <3>1, <3>3
  <2> QED
    BY <2>5, <2>7, <2>11
<1> QED
  BY <1>2, <1>7, <1>8

\* Ticks that are cut off keep their order.
LEMMA ClampedOrder ==
  ASSUME NEW a \in Int, NEW b \in Int, a <= b
  PROVE  Clamped(a) \in Int /\ Clamped(b) \in Int /\ Clamped(a) <= Clamped(b)
BY DayOfTicks DEF Clamped, Larger, Smaller

\* A date that names neither a month nor a day is the year.
LEMMA YearMeant ==
  ASSUME NEW cal, NEW d, NEW r, Asked(cal, d, r), d.month = Missing, d.day = Missing,
         NEW y \in Int, NEW b, b = DatedBounds(cal, [d EXCEPT !.year = y])
  PROVE  AreBounds(b) /\ (y = CivilOf(cal, r).year => Apart(b, r) = 0)
<1>1. Counts(cal) /\ r \in Int /\ Inside(cal, r, Far(cal)) /\ Has(cal, d) /\ EveryYearHas(cal, d) /\ Countable(cal)
  BY DEF Asked, Counts
<1>2. PICK D \in Nat \ {0}, o \in Int : D = DayLength(cal) /\ o = CalOrigin(cal)
  BY <1>1, LengthsOf
<1>3. PICK f \in Int, g \in Int : f = DayFromCivil(cal, y, 1, 1) /\ g = DayFromCivil(cal, y + 1, 1, 1) /\ f < g
  <2>1. y + 1 \in Int /\ 1 \in 1..MonthsPerYear(cal)
    BY <1>1, LengthsOf
  <2>2. DayFromCivil(cal, y, 1, 1) \in Int /\ DayFromCivil(cal, y + 1, 1, 1) \in Int
    BY <1>1, <2>1, DaysOfMonths
  <2>3. DayFromCivil(cal, y, 1, 1) < DayFromCivil(cal, y + 1, 1, 1)
    BY <1>1, LaterYear
  <2> QED
    BY <2>2, <2>3
<1>4. PICK v \in Int, w \in Int : v = D * f /\ w = D * g /\ v < w
  <2>1. PICK u \in Nat : g = f + 1 + u
    <3>1. g - (f + 1) \in Nat /\ g = f + 1 + (g - (f + 1))
      BY <1>3
    <3> QED
      BY <3>1
  <2>2. D * (f + 1 + u) = D * f + D + D * u /\ D * u \in Nat /\ D * f \in Int
    OBVIOUS
  <2> QED
    BY <2>1, <2>2
<1>5. y = CivilOf(cal, r).year => v + o <= r /\ r < w + o
  <2>1. SUFFICES ASSUME y = CivilOf(cal, r).year PROVE v + o <= r /\ r < w + o
    OBVIOUS
  <2>2. PICK n \in Int, x \in Int : n = DayOf(cal, r) /\ x = D * n /\ x <= r - o /\ r - o < x + D
    BY <1>1, <1>2, DayOfIs
  <2>3. f <= n /\ n < g
    BY <1>1, <1>3, <2>1, <2>2, YearAround
  <2>4. PICK u \in Nat, z \in Nat : n = f + u /\ g = n + 1 + z
    <3>1. n - f \in Nat /\ n = f + (n - f) /\ g - (n + 1) \in Nat /\ g = n + 1 + (g - (n + 1))
      BY <2>3
    <3> QED
      BY <3>1
  <2>5. D * (f + u) = D * f + D * u /\ D * u \in Nat
    OBVIOUS
  <2>6. D * (n + 1 + z) = D * n + D + D * z /\ D * z \in Nat
    OBVIOUS
  <2>7. PICK p \in Nat, q \in Nat : p = D * u /\ q = D * z
    BY <2>5, <2>6
  <2>8. x = v + p
    BY <1>4, <2>2, <2>4, <2>5, <2>7
  <2>9. w = x + D + q
    BY <1>4, <2>2, <2>4, <2>6, <2>7
  <2> QED
    BY <1>1, <1>2, <1>4, <2>2, <2>7, <2>8, <2>9
<1>6. PICK e : e = [d EXCEPT !.year = y]
  OBVIOUS
<1>7. e.year = y /\ e.month = Missing /\ e.day = Missing /\ e.zone = Missing /\ ~ e.julian /\ e.clock = d.clock
  <2>1. PICK a, k, p, c : a = d.month /\ k = d.day /\ p = d.part /\ c = d.clock
    OBVIOUS
  <2>2. d = [NoDate EXCEPT !.month = a, !.day = k, !.part = p, !.clock = c]
    BY <1>1, <2>1 DEF EveryYearHas
  <2> QED
    BY <1>6, <2>1, <2>2 DEF NoDate
<1>8. CASE cal.kind = "gregorian"
  <2>1. Valid(e)
    <3>1. d.clock.from < 48 * TicksPerHour
      BY <1>1, TicksAssumption DEF EveryYearHas, NoClock, TicksPerDay
    <3> QED
      BY <1>7, <3>1 DEF Valid
  <2>2. PICK off \in Int : off = cal.offset /\ o = -off /\ D = TicksPerDay
    BY <1>1, <1>2, <1>8 DEF Counts, CalOrigin, DayLength
  <2>3. DayNumber(e.julian, y, 1, 1) = f /\ DayNumber(e.julian, y + 1, 1, 1) = g
    BY <1>3, <1>7, <1>8 DEF DayNumber, DayFromCivil
  <2>4. \A len : DaysMeant(e, f, len) = <<f, g>>
    BY <1>7, <2>3 DEF DaysMeant
  <2>5. TimeOfDays(e, <<f, g>>, off) = <<f * D - off, g * D - off>>
    BY <1>7, <2>2 DEF TimeOfDays
  <2>6. b = <<f * D - off, g * D - off>>
    <3>1. BoundsGregorian(e, off) = TimeOfDays(e, <<f, g>>, off)
      BY <1>7, <2>1, <2>3, <2>4 DEF BoundsGregorian
    <3> QED
      BY <1>6, <1>8, <2>2, <2>5, <3>1 DEF DatedBounds
  <2>7. f * D = v /\ g * D = w
    BY <1>4
  <2>8. b[1] = v + o /\ b[2] = w + o
    BY <2>2, <2>6, <2>7
  <2>9. AreBounds(b)
    BY <1>4, <2>8 DEF AreBounds
  <2>10. y = CivilOf(cal, r).year => Apart(b, r) = 0
    <3>1. SUFFICES ASSUME y = CivilOf(cal, r).year PROVE Apart(b, r) = 0
      OBVIOUS
    <3>2. ~ (r < b[1]) /\ ~ (r >= b[2])
      BY <1>1, <1>5, <2>8, <3>1
    <3> QED
      BY <3>2 DEF Apart
  <2> QED
    BY <2>9, <2>10
<1>9. CASE cal.kind = "uniform"
  <2>1. b = <<DayStart(cal, f), DayStart(cal, g)>>
    BY <1>3, <1>6, <1>7, <1>9 DEF DatedBounds, YearBounds
  <2>2. f * D = v /\ g * D = w
    BY <1>4
  <2>3. DayStart(cal, f) = Clamped(v + o) /\ DayStart(cal, g) = Clamped(w + o)
    BY <1>2, <2>2 DEF DayStart
  <2>4. b[1] = Clamped(v + o) /\ b[2] = Clamped(w + o)
    BY <2>1, <2>3
  <2>5. AreBounds(b)
    BY <1>4, <2>4, ClampedOrder DEF AreBounds
  <2>6. y = CivilOf(cal, r).year => Apart(b, r) = 0
    <3>1. SUFFICES ASSUME y = CivilOf(cal, r).year PROVE Apart(b, r) = 0
      OBVIOUS
    <3>2. 1 \in 1..MonthsPerYear(cal) /\ y + 1 \in Int /\ MaxShift \in Nat
      BY <1>1, LengthsOf, FarIs
    <3>3. y - CivilOf(cal, r).year <= MaxShift + 1 /\ CivilOf(cal, r).year - y <= MaxShift + 1
      BY <3>1, <3>2
    <3>4. (y + 1) - CivilOf(cal, r).year <= MaxShift + 1 /\ CivilOf(cal, r).year - (y + 1) <= MaxShift + 1
      BY <3>1, <3>2
    <3>5. Near(cal, r, Far(cal), f) /\ Near(cal, r, Far(cal), g)
      BY <1>1, <1>3, <3>2, <3>3, <3>4, MonthNear
    <3>6. Far(cal) \in Nat
      BY <1>1, FarIs
    <3>7. DayStart(cal, f) = D * f + o /\ DayStart(cal, g) = D * g + o
      BY <1>1, <1>2, <3>5, <3>6, NearDay
    <3>8. b[1] = v + o /\ b[2] = w + o
      BY <1>4, <2>1, <3>7
    <3>9. ~ (r < b[1]) /\ ~ (r >= b[2])
      BY <1>1, <1>5, <3>1, <3>8
    <3> QED
      BY <3>9 DEF Apart
  <2> QED
    BY <2>5, <2>6
<1> QED
  BY <1>1, <1>8, <1>9 DEF Countable

\* The nearest of one date.
LEMMA NearestOfOne ==
  ASSUME NEW cal, NEW r \in Int, NEW d, AreBounds(DatedBounds(cal, d))
  PROVE  NearestBounds(BoundsOfAll(cal, <<d>>), r) = DatedBounds(cal, d)
<1>1. PICK bounds, b : bounds = BoundsOfAll(cal, <<d>>) /\ b = DatedBounds(cal, d)
  OBVIOUS
<1>2. DOMAIN bounds = {1} /\ bounds[1] = b
  <2>1. DOMAIN <<d>> = {1} /\ <<d>>[1] = d
    OBVIOUS
  <2> QED
    BY <1>1, <2>1 DEF BoundsOfAll
<1>3. b # NoBounds /\ Apart(b, r) <= Apart(b, r)
  <2>1. b # NoBounds /\ Apart(b, r) \in Nat
    BY <1>1, BoundsSomewhere
  <2> QED
    BY <2>1
<1> DEFINE valid == {n \in DOMAIN bounds : bounds[n] # NoBounds}
           near == {n \in valid : \A o \in valid : Apart(bounds[n], r) <= Apart(bounds[o], r)}
<1>4. valid = {1}
  BY <1>2, <1>3
<1>5. near = {1}
  BY <1>2, <1>3, <1>4
<1>6. (CHOOSE n \in near : \A o \in near : n <= o) = 1
  BY <1>5
<1> QED
  BY <1>1, <1>2, <1>4, <1>6 DEF NearestBounds

\* The bounds of a date without a year are nearest, whatever parts it has.
LEMMA NearestTaken ==
  ASSUME NEW cal, NEW d, NEW r, Asked(cal, d, r)
  PROVE  IsNearest(cal, d, r)
<1>1. Counts(cal) /\ r \in Int /\ Inside(cal, r, Far(cal)) /\ Has(cal, d) /\ EveryYearHas(cal, d)
  BY DEF Asked
<1>2. PICK c, taken : c = CivilOf(cal, r) /\ taken = DateBounds(cal, d, r)
  OBVIOUS
<1>3. PICK z \in Int : z = c.year
  BY <1>1, <1>2, DateOfReference
<1>4. \A y \in z - 2 .. z + 2 : y \in Int /\ YearNear(cal, r, y)
  BY <1>2, <1>3 DEF YearNear
<1>5. z \in z - 2 .. z + 2
  OBVIOUS
<1> DEFINE Months == IF d.month = Missing /\ d.day # Missing THEN 1..MonthsPerYear(cal) ELSE {d.month}
<1>6. SUFFICES /\ taken # NoBounds
               /\ \A y \in z - 2 .. z + 2, m \in Months : Apart(taken, r) <= Apart(InTheMonth(cal, d, y, m), r)
  <2> DEFINE years == c.year - 2 .. c.year + 2
             dated == {InMonth(d, [year |-> y, month |-> m]) : y \in years, m \in Months}
             bounds == {DatedBounds(cal, o) : o \in dated} \ {NoBounds}
             nearer == \A y \in z - 2 .. z + 2, m \in Months : Apart(taken, r) <= Apart(InTheMonth(cal, d, y, m), r)
  <2> HIDE DEF Months, years
  <2>1. \A o \in dated : \E y \in z - 2 .. z + 2, m \in Months : DatedBounds(cal, o) = InTheMonth(cal, d, y, m)
    <3>1. \A o \in dated : \E y \in years, m \in Months : o = InMonth(d, TheMonth(y, m))
      BY DEF TheMonth
    <3>2. years = z - 2 .. z + 2
      BY <1>3 DEF years
    <3> HIDE DEF dated
    <3>3. ASSUME NEW o \in dated
          PROVE  \E y \in z - 2 .. z + 2, m \in Months : DatedBounds(cal, o) = InTheMonth(cal, d, y, m)
      <4>1. PICK y \in years, m \in Months : o = InMonth(d, TheMonth(y, m))
        BY <3>1
      <4>2. DatedBounds(cal, o) = InTheMonth(cal, d, y, m)
        BY <4>1 DEF InTheMonth
      <4>3. y \in z - 2 .. z + 2
        BY <3>2, <4>1
      <4> QED
        BY <4>2, <4>3
    <3> QED
      BY <3>3
  <2>2. \A b \in bounds : \E o \in dated : b = DatedBounds(cal, o)
    OBVIOUS
  <2> HIDE DEF dated
  <2>3. nearer => \A b \in bounds : Apart(taken, r) <= Apart(b, r)
    BY <2>1, <2>2
  <2>4. IsNearest(cal, d, r) <=> taken # NoBounds /\ \A b \in bounds : Apart(taken, r) <= Apart(b, r)
    BY <1>2 DEF IsNearest, Months, dated, years
  <2> QED
    BY <2>3, <2>4
<1>7. CASE d.month # Missing
  <2>1. ASSUME NEW y \in z - 2 .. z + 2
        PROVE  AreBounds(taken) /\ Apart(taken, r) <= Apart(InTheMonth(cal, d, y, d.month), r)
    BY <1>2, <1>4, <1>7, NearestOfYears
  <2>2. taken # NoBounds
    BY <1>1, <1>5, <2>1, BoundsSomewhere
  <2> QED
    BY <1>7, <2>1, <2>2
<1>8. CASE d.month = Missing /\ d.day # Missing
  <2>1. ASSUME NEW y \in z - 2 .. z + 2, NEW m \in 1..MonthsPerYear(cal)
        PROVE  AreBounds(taken) /\ Apart(taken, r) <= Apart(InTheMonth(cal, d, y, m), r)
    BY <1>2, <1>4, <1>8, NearestOfMonths
  <2>2. taken # NoBounds
    <3>1. 1 \in 1..MonthsPerYear(cal)
      BY <1>1, LengthsOf
    <3> QED
      BY <1>1, <1>5, <2>1, <3>1, BoundsSomewhere
  <2> QED
    BY <1>8, <2>1, <2>2
<1>9. CASE d.month = Missing /\ d.day = Missing
  <2>1. PICK x : x = [d EXCEPT !.year = z]
    OBVIOUS
  <2>2. AreBounds(DatedBounds(cal, x)) /\ Apart(DatedBounds(cal, x), r) = 0
    BY <1>2, <1>3, <1>9, <2>1, YearMeant
  <2>3. taken = DatedBounds(cal, x)
    <3>1. Candidates(cal, d, c) = <<x>>
      BY <1>3, <1>9, <2>1 DEF Candidates
    <3>2. taken = NearestBounds(BoundsOfAll(cal, <<x>>), r)
      BY <1>1, <1>2, <3>1, ShortDate
    <3> QED
      BY <1>1, <2>2, <3>2, NearestOfOne
  <2>4. taken # NoBounds
    BY <1>1, <2>2, <2>3, BoundsSomewhere
  <2>5. ASSUME NEW y \in z - 2 .. z + 2
        PROVE  Apart(taken, r) <= Apart(InTheMonth(cal, d, y, d.month), r)
    <3>1. PICK e : e = [d EXCEPT !.year = y]
      OBVIOUS
    <3>2. y \in Int /\ AreBounds(DatedBounds(cal, e))
      BY <1>4, <1>9, <3>1, YearMeant
    <3>3. Apart(DatedBounds(cal, e), r) \in Nat
      BY <1>1, <3>2, BoundsSomewhere
    <3>4. InTheMonth(cal, d, y, d.month) = DatedBounds(cal, e)
      <4>1. [d EXCEPT !.year = y] = InMonth(d, TheMonth(y, d.month))
        BY <1>1, WrittenShort
      <4> QED
        BY <3>1, <4>1 DEF InTheMonth
    <3> QED
      BY <2>2, <2>3, <3>3, <3>4
  <2> QED
    BY <1>9, <2>4, <2>5
<1> QED
  BY <1>7, <1>8, <1>9

\* A date without a year is resolved to the nearest such date: the nearest year that has the
\* month, the nearest month that has the day, or the year of the reference, for all calendars,
\* references, parts of months and times of the day (date_bounds).
THEOREM NearestMeant == Spec => []NearestDate
<1>1. Init => NearestDate
  BY DEF Init, Subjects, NearestDate
<1>2. ASSUME NearestDate, [Next]_question PROVE NearestDate'
  <2>1. CASE question' = question
    BY <1>2, <2>1 DEF NearestDate
  <2>2. CASE Next
    <3>1. SUFFICES ASSUME question'.about = "near" PROVE NearestDate'
      BY DEF NearestDate
    <3>2. PICK cal \in Calendars, r \in References, d \in Dates :
            Has(cal, d) /\ question' = [about |-> "near", cal |-> cal, r |-> r, d |-> d]
      <4>1. Nears
        BY <2>2, <3>1, AskedBy
      <4> QED
        BY <4>1 DEF Nears
    <3>3. question'.cal = cal /\ question'.r = r /\ question'.d = d
      BY <3>2
    <3>4. Asked(cal, d, r)
      BY <3>2, ReferencesInside, DatesAssumption DEF Asked
    <3>5. IsNearest(cal, d, r)
      BY <3>4, NearestTaken
    <3> QED
      BY <3>3, <3>5 DEF NearestDate
  <2> QED
    BY <1>2, <2>1, <2>2
<1> QED
  BY <1>1, <1>2, PTL DEF Spec
=============================================================================
