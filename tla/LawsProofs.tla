---------------------------- MODULE LawsProofs ----------------------------
(***************************************************************************)
(* Theorems about the relations of intervals, windows, days and indexes: for *)
(* intervals and bounds anywhere on the line of integers, every recurring    *)
(* rule, any day, every calendar that days can be counted in and every date  *)
(* of the Julian one, and spans, frames, boxes and texts of any size, where  *)
(* TLC looks at a few.                                                       *)
(***************************************************************************)
EXTENDS Laws, Counting, FiniteSetTheorems, SequenceTheorems

Interval == {i \in [s : Int, e : Int] : i.s < i.e}

\* Where an endpoint is.
Endpoint(a, b, n) == CASE n = S1 -> a.s [] n = E1 -> a.e [] n = S2 -> b.s [] n = E2 -> b.e

Satisfies(a, b, c) == IF c.strict THEN Endpoint(a, b, c.from) < Endpoint(a, b, c.to) ELSE Endpoint(a, b, c.from) = Endpoint(a, b, c.to)

SatisfiesAll(a, b, cs) == \A k \in 1..Len(cs) : Satisfies(a, b, cs[k])

-----------------------------------------------------------------------------
(* The relations.                                                           *)

\* The thirteen relations by name.
LEMMA RelationNames ==
  Relation = {"before", "meets", "overlaps", "starts", "during", "finishes", "equals", "finished_by",
              "contains", "started_by", "overlapped_by", "met_by", "after"}
<1>1. 1..13 = {1, 2, 3, 4, 5, 6, 7, 8, 9, 10, 11, 12, 13}
  OBVIOUS
<1> QED
  BY <1>1 DEF Relation, Relations

\* Two intervals have one of them.
LEMMA OfIsRelation ==
  ASSUME NEW a \in Interval, NEW b \in Interval
  PROVE  Of(a, b) \in Relation
<1>1. a.s \in Int /\ a.e \in Int /\ b.s \in Int /\ b.e \in Int
  BY DEF Interval
<1> QED
  BY <1>1, RelationNames DEF Of

\* What the constraints of a relation say.
LEMMA ConstraintsMean ==
  ASSUME NEW a \in Interval, NEW b \in Interval
  PROVE  /\ SatisfiesAll(a, b, EndpointConstraints("before")) <=> a.e < b.s
         /\ SatisfiesAll(a, b, EndpointConstraints("meets")) <=> a.e = b.s
         /\ SatisfiesAll(a, b, EndpointConstraints("overlaps")) <=> a.s < b.s /\ b.s < a.e /\ a.e < b.e
         /\ SatisfiesAll(a, b, EndpointConstraints("starts")) <=> a.s = b.s /\ a.e < b.e
         /\ SatisfiesAll(a, b, EndpointConstraints("during")) <=> b.s < a.s /\ a.e < b.e
         /\ SatisfiesAll(a, b, EndpointConstraints("finishes")) <=> a.e = b.e /\ b.s < a.s
         /\ SatisfiesAll(a, b, EndpointConstraints("equals")) <=> a.s = b.s /\ a.e = b.e
         /\ SatisfiesAll(a, b, EndpointConstraints("finished_by")) <=> a.e = b.e /\ a.s < b.s
         /\ SatisfiesAll(a, b, EndpointConstraints("contains")) <=> a.s < b.s /\ b.e < a.e
         /\ SatisfiesAll(a, b, EndpointConstraints("started_by")) <=> a.s = b.s /\ b.e < a.e
         /\ SatisfiesAll(a, b, EndpointConstraints("overlapped_by")) <=> b.s < a.s /\ a.s < b.e /\ b.e < a.e
         /\ SatisfiesAll(a, b, EndpointConstraints("met_by")) <=> b.e = a.s
         /\ SatisfiesAll(a, b, EndpointConstraints("after")) <=> b.e < a.s
<1>1. \A x : SatisfiesAll(a, b, <<x>>) <=> Satisfies(a, b, x)
  BY DEF SatisfiesAll
<1>2. \A x, y : SatisfiesAll(a, b, <<x, y>>) <=> Satisfies(a, b, x) /\ Satisfies(a, b, y)
  BY DEF SatisfiesAll
<1>3. \A x, y, z : SatisfiesAll(a, b, <<x, y, z>>)
                     <=> Satisfies(a, b, x) /\ Satisfies(a, b, y) /\ Satisfies(a, b, z)
  BY DEF SatisfiesAll
<1>4. \A i, j \in 1..4 : /\ Satisfies(a, b, Lt(i, j)) <=> Endpoint(a, b, i) < Endpoint(a, b, j)
                         /\ Satisfies(a, b, Eq(i, j)) <=> Endpoint(a, b, i) = Endpoint(a, b, j)
  BY DEF Satisfies, Lt, Eq
<1>5. Endpoint(a, b, 1) = a.s /\ Endpoint(a, b, 2) = a.e /\ Endpoint(a, b, 3) = b.s /\ Endpoint(a, b, 4) = b.e
  BY DEF Endpoint, S1, E1, S2, E2
<1>6. \A rel \in {"before"} : EndpointConstraints(rel) = <<Lt(2, 3)>>
  BY DEF EndpointConstraints, S1, E1, S2, E2
<1>7. EndpointConstraints("meets") = <<Eq(2, 3)>>
  BY DEF EndpointConstraints, S1, E1, S2, E2
<1>8. EndpointConstraints("overlaps") = <<Lt(1, 3), Lt(3, 2), Lt(2, 4)>>
  BY DEF EndpointConstraints, S1, E1, S2, E2
<1>9. EndpointConstraints("starts") = <<Eq(1, 3), Lt(2, 4)>>
  BY DEF EndpointConstraints, S1, E1, S2, E2
<1>10. EndpointConstraints("during") = <<Lt(3, 1), Lt(2, 4)>>
  BY DEF EndpointConstraints, S1, E1, S2, E2
<1>11. EndpointConstraints("finishes") = <<Eq(2, 4), Lt(3, 1)>>
  BY DEF EndpointConstraints, S1, E1, S2, E2
<1>12. EndpointConstraints("equals") = <<Eq(1, 3), Eq(2, 4)>>
  BY DEF EndpointConstraints, S1, E1, S2, E2
<1>13. EndpointConstraints("finished_by") = <<Eq(2, 4), Lt(1, 3)>>
  BY DEF EndpointConstraints, S1, E1, S2, E2
<1>14. EndpointConstraints("contains") = <<Lt(1, 3), Lt(4, 2)>>
  BY DEF EndpointConstraints, S1, E1, S2, E2
<1>15. EndpointConstraints("started_by") = <<Eq(1, 3), Lt(4, 2)>>
  BY DEF EndpointConstraints, S1, E1, S2, E2
<1>16. EndpointConstraints("overlapped_by") = <<Lt(3, 1), Lt(1, 4), Lt(4, 2)>>
  BY DEF EndpointConstraints, S1, E1, S2, E2
<1>17. EndpointConstraints("met_by") = <<Eq(4, 1)>>
  BY DEF EndpointConstraints, S1, E1, S2, E2
<1>18. EndpointConstraints("after") = <<Lt(4, 1)>>
  BY DEF EndpointConstraints, S1, E1, S2, E2
<1> QED
  BY <1>1, <1>2, <1>3, <1>4, <1>5, <1>6, <1>7, <1>8, <1>9, <1>10, <1>11, <1>12, <1>13, <1>14,
     <1>15, <1>16, <1>17, <1>18

\* The table of constraints, which allen.rs and order.rs each have, tells the relations apart:
\* two intervals satisfy the constraints of the relation that AllenRelation::of finds, and of no
\* other one.
THEOREM ConstraintsExact ==
  \A a, b \in Interval : \A rel \in Relation :
    SatisfiesAll(a, b, EndpointConstraints(rel)) <=> Of(a, b) = rel
<1> SUFFICES ASSUME NEW a \in Interval, NEW b \in Interval, NEW rel \in Relation
             PROVE  SatisfiesAll(a, b, EndpointConstraints(rel)) <=> Of(a, b) = rel
  OBVIOUS
<1>1. a.s \in Int /\ a.e \in Int /\ b.s \in Int /\ b.e \in Int /\ a.s < a.e /\ b.s < b.e
  BY DEF Interval
<1> QED
  BY <1>1, RelationNames, ConstraintsMean DEF Of

\* inverse: seen from the other interval, the relation is the mirror image in the list.
THEOREM InverseExact ==
  \A a, b \in Interval : Of(b, a) = InverseOf(Of(a, b))
<1> SUFFICES ASSUME NEW a \in Interval, NEW b \in Interval
             PROVE  Of(b, a) = InverseOf(Of(a, b))
  OBVIOUS
<1>1. a.s \in Int /\ a.e \in Int /\ b.s \in Int /\ b.e \in Int /\ a.s < a.e /\ b.s < b.e
  BY DEF Interval
<1>2. ASSUME NEW k \in 1..13
      PROVE  InverseOf(Relations[k]) = Relations[14 - k]
  <2>1. \A i \in 1..13 : Relations[i] = Relations[k] => i = k
    BY DEF Relations
  <2> QED
    BY <2>1 DEF InverseOf
<1>3. /\ InverseOf("before") = "after" /\ InverseOf("after") = "before"
      /\ InverseOf("meets") = "met_by" /\ InverseOf("met_by") = "meets"
      /\ InverseOf("overlaps") = "overlapped_by" /\ InverseOf("overlapped_by") = "overlaps"
      /\ InverseOf("starts") = "started_by" /\ InverseOf("started_by") = "starts"
      /\ InverseOf("during") = "contains" /\ InverseOf("contains") = "during"
      /\ InverseOf("finishes") = "finished_by" /\ InverseOf("finished_by") = "finishes"
      /\ InverseOf("equals") = "equals"
  BY <1>2 DEF Relations
<1> QED
  BY <1>1, <1>3 DEF Of

-----------------------------------------------------------------------------
(* Composition.                                                             *)

\* How many of the endpoints of three intervals are before a point.
Before(x, t) == IF x < t THEN 1 ELSE 0
Place(a, b, c, t) ==
  Before(a.s, t) + Before(a.e, t) + Before(b.s, t) + Before(b.e, t) + Before(c.s, t) + Before(c.e, t)

\* Three intervals, moved to where their endpoints are in order.
Moved(a, b, c, i) == [s |-> Place(a, b, c, i.s), e |-> Place(a, b, c, i.e)]

\* Moving keeps the order of the endpoints, and six values are enough.
LEMMA PlaceOrder ==
  ASSUME NEW a \in Interval, NEW b \in Interval, NEW c \in Interval,
         NEW x \in {a.s, a.e, b.s, b.e, c.s, c.e}, NEW y \in {a.s, a.e, b.s, b.e, c.s, c.e}
  PROVE  /\ Place(a, b, c, x) \in TableValues
         /\ Place(a, b, c, x) < Place(a, b, c, y) <=> x < y
         /\ Place(a, b, c, x) = Place(a, b, c, y) <=> x = y
<1>1. /\ a.s \in Int /\ a.e \in Int /\ b.s \in Int /\ b.e \in Int /\ c.s \in Int /\ c.e \in Int
      /\ x \in Int /\ y \in Int
  BY DEF Interval
<1> QED
  BY <1>1 DEF Place, Before, TableValues

\* The relation of two of them is kept.
LEMMA MovedRelation ==
  ASSUME NEW a \in Interval, NEW b \in Interval, NEW c \in Interval,
         NEW i \in {a, b, c}, NEW j \in {a, b, c}
  PROVE  /\ Moved(a, b, c, i) \in TableIntervals
         /\ Of(Moved(a, b, c, i), Moved(a, b, c, j)) = Of(i, j)
<1> DEFINE points == {a.s, a.e, b.s, b.e, c.s, c.e}
           at(t) == Place(a, b, c, t)
<1>1. i.s \in points /\ i.e \in points /\ j.s \in points /\ j.e \in points
  OBVIOUS
<1>2. \A x, y \in points : /\ at(x) \in TableValues
                           /\ at(x) < at(y) <=> x < y
                           /\ at(x) = at(y) <=> x = y
  BY PlaceOrder
<1>3. i.s \in Int /\ i.e \in Int /\ j.s \in Int /\ j.e \in Int /\ i.s < i.e
  BY DEF Interval
<1>4. /\ Moved(a, b, c, i).s = at(i.s) /\ Moved(a, b, c, i).e = at(i.e)
      /\ Moved(a, b, c, j).s = at(j.s) /\ Moved(a, b, c, j).e = at(j.e)
  BY DEF Moved
<1> HIDE DEF at, points
<1>5. Moved(a, b, c, i) \in TableIntervals
  BY <1>1, <1>2, <1>3 DEF TableIntervals, Moved, at
<1>6. Of(Moved(a, b, c, i), Moved(a, b, c, j)) = Of(i, j)
  BY <1>1, <1>2, <1>3, <1>4 DEF Of, TableValues
<1> QED
  BY <1>5, <1>6

\* composition_table goes through intervals of six values only, and that is enough for all: what
\* it says of a and c follows from their relations to b, for any three intervals, and every
\* relation in it is one that three intervals have.
THEOREM CompositionExact ==
  \A r1, r2, r3 \in Relation :
    r3 \in CompositionTable[<<r1, r2>>]
      <=> \E a, b, c \in Interval : Of(a, b) = r1 /\ Of(b, c) = r2 /\ Of(a, c) = r3
<1> SUFFICES ASSUME NEW r1 \in Relation, NEW r2 \in Relation, NEW r3 \in Relation
             PROVE  r3 \in CompositionTable[<<r1, r2>>]
                      <=> \E a, b, c \in Interval : Of(a, b) = r1 /\ Of(b, c) = r2 /\ Of(a, c) = r3
  OBVIOUS
<1> DEFINE triples == TableIntervals \X TableIntervals \X TableIntervals
           entries == {<<Of(t[1], t[2]), Of(t[2], t[3]), Of(t[1], t[3])>> : t \in triples}
<1>1. CompositionTable[<<r1, r2>>] = {t[3] : t \in {u \in entries : u[1] = r1 /\ u[2] = r2}}
  BY DEF CompositionTable
<1>2. r3 \in CompositionTable[<<r1, r2>>] <=> <<r1, r2, r3>> \in entries
  <2>1. \A u \in entries : u = <<u[1], u[2], u[3]>>
    OBVIOUS
  <2> HIDE DEF entries
  <2> QED
    BY <1>1, <2>1
<1>3. <<r1, r2, r3>> \in entries
        <=> \E a, b, c \in TableIntervals : Of(a, b) = r1 /\ Of(b, c) = r2 /\ Of(a, c) = r3
  <2>1. <<r1, r2, r3>> \in entries
          <=> \E t \in triples : Of(t[1], t[2]) = r1 /\ Of(t[2], t[3]) = r2 /\ Of(t[1], t[3]) = r3
    OBVIOUS
  <2>2. ASSUME NEW t \in triples
        PROVE  t[1] \in TableIntervals /\ t[2] \in TableIntervals /\ t[3] \in TableIntervals
    OBVIOUS
  <2>3. ASSUME NEW a \in TableIntervals, NEW b \in TableIntervals, NEW c \in TableIntervals
        PROVE  /\ <<a, b, c>> \in triples
               /\ <<a, b, c>>[1] = a /\ <<a, b, c>>[2] = b /\ <<a, b, c>>[3] = c
    OBVIOUS
  <2> HIDE DEF triples, entries
  <2>4. ASSUME NEW a \in TableIntervals, NEW b \in TableIntervals, NEW c \in TableIntervals,
               Of(a, b) = r1, Of(b, c) = r2, Of(a, c) = r3
        PROVE  <<r1, r2, r3>> \in entries
    <3>1. /\ Of(<<a, b, c>>[1], <<a, b, c>>[2]) = r1
          /\ Of(<<a, b, c>>[2], <<a, b, c>>[3]) = r2
          /\ Of(<<a, b, c>>[1], <<a, b, c>>[3]) = r3
      BY <2>4
    <3> QED
      BY <2>1, <2>3, <3>1
  <2>5. ASSUME <<r1, r2, r3>> \in entries
        PROVE  \E a, b, c \in TableIntervals : Of(a, b) = r1 /\ Of(b, c) = r2 /\ Of(a, c) = r3
    <3>1. PICK t \in triples : Of(t[1], t[2]) = r1 /\ Of(t[2], t[3]) = r2 /\ Of(t[1], t[3]) = r3
      BY <2>1, <2>5
    <3> QED
      BY <2>2, <3>1
  <2> QED
    BY <2>4, <2>5
<1>4. TableIntervals \subseteq Interval
  BY DEF TableIntervals, Interval, TableValues
<1>5. ASSUME NEW a \in Interval, NEW b \in Interval, NEW c \in Interval,
             Of(a, b) = r1, Of(b, c) = r2, Of(a, c) = r3
      PROVE  \E x, y, z \in TableIntervals : Of(x, y) = r1 /\ Of(y, z) = r2 /\ Of(x, z) = r3
  <2>1. /\ Moved(a, b, c, a) \in TableIntervals
        /\ Moved(a, b, c, b) \in TableIntervals
        /\ Moved(a, b, c, c) \in TableIntervals
        /\ Of(Moved(a, b, c, a), Moved(a, b, c, b)) = r1
        /\ Of(Moved(a, b, c, b), Moved(a, b, c, c)) = r2
        /\ Of(Moved(a, b, c, a), Moved(a, b, c, c)) = r3
    BY <1>5, MovedRelation
  <2> QED
    BY <2>1
<1> HIDE DEF entries
<1> QED
  BY <1>2, <1>3, <1>4, <1>5

-----------------------------------------------------------------------------
(* Uncertain intervals.                                                     *)

FiniteRange == {r \in [es : Int, ls : Int, ee : Int, le : Int] : r.es <= r.ls /\ r.ee <= r.le /\ r.es < r.le}

\* The intervals it may stand for.
Stands(r, i) == r.es <= i.s /\ i.s <= r.ls /\ r.ee <= i.e /\ i.e <= r.le

\* An uncertain interval possibly overlaps a window exactly if one that it may stand for does;
\* if it is said to overlap certainly, all of them do; and it is certainly within the window
\* if all are (possibly_overlaps, certainly_overlaps, certainly_within).
THEOREM OverlapsAsMeant ==
  \A r \in FiniteRange : \A qs, qe \in Int :
    /\ PossiblyOverlaps(r, qs, qe) <=> \E i \in Interval : Stands(r, i) /\ Overlap(i, qs, qe)
    /\ CertainlyOverlaps(r, qs, qe) => \A i \in Interval : Stands(r, i) => Overlap(i, qs, qe)
    /\ CertainlyWithin(r, qs, qe) => \A i \in Interval : Stands(r, i) => qs <= i.s /\ i.e <= qe
<1> SUFFICES ASSUME NEW r \in FiniteRange, NEW qs \in Int, NEW qe \in Int
             PROVE  /\ PossiblyOverlaps(r, qs, qe) <=> \E i \in Interval : Stands(r, i) /\ Overlap(i, qs, qe)
                    /\ CertainlyOverlaps(r, qs, qe) => \A i \in Interval : Stands(r, i) => Overlap(i, qs, qe)
                    /\ CertainlyWithin(r, qs, qe) => \A i \in Interval : Stands(r, i) => qs <= i.s /\ i.e <= qe
  OBVIOUS
<1>1. /\ r.es \in Int /\ r.ls \in Int /\ r.ee \in Int /\ r.le \in Int
      /\ r.es <= r.ls /\ r.ee <= r.le /\ r.es < r.le
  BY DEF FiniteRange
<1>2. ASSUME NEW i \in Interval
      PROVE  i.s \in Int /\ i.e \in Int
  BY DEF Interval
<1>3. ASSUME PossiblyOverlaps(r, qs, qe)
      PROVE  \E i \in Interval : Stands(r, i) /\ Overlap(i, qs, qe)
  <2> DEFINE i == [s |-> r.es, e |-> r.le]
  <2>1. i \in Interval
    BY <1>1 DEF Interval
  <2>2. Stands(r, i) /\ Overlap(i, qs, qe)
    BY <1>1, <1>3 DEF Stands, Overlap, PossiblyOverlaps
  <2> QED
    BY <2>1, <2>2
<1>4. ASSUME NEW i \in Interval, Stands(r, i)
      PROVE  /\ Overlap(i, qs, qe) => PossiblyOverlaps(r, qs, qe)
             /\ CertainlyOverlaps(r, qs, qe) => Overlap(i, qs, qe)
             /\ CertainlyWithin(r, qs, qe) => qs <= i.s /\ i.e <= qe
  BY <1>1, <1>2, <1>4 DEF Stands, Overlap, PossiblyOverlaps, CertainlyOverlaps, CertainlyWithin
<1> QED
  BY <1>3, <1>4

-----------------------------------------------------------------------------
(* Division.                                                                *)

\* Quotient and remainder.
LEMMA Divided ==
  ASSUME NEW a \in Int, NEW m \in Nat \ {0}
  PROVE  a \div m \in Int /\ a % m \in 0..m - 1 /\ a = m * (a \div m) + (a % m)
OBVIOUS

\* There is one way to divide.
LEMMA DividedOnce ==
  ASSUME NEW m \in Nat \ {0}, NEW q \in Int, NEW r \in 0..m - 1
  PROVE  (m * q + r) \div m = q /\ (m * q + r) % m = r
OBVIOUS

-----------------------------------------------------------------------------
(* The Gregorian calendar.  A day is the r-th of the t-th year of the p-th    *)
(* leap cycle of the c-th century of an era; years begin in March.           *)

\* Places of a day in an era: the cycles, and the years, have a day more at the end.
InEra(c, p, t, r) ==
  /\ c \in 0..3 /\ p \in 0..24 /\ t \in 0..3
  /\ r \in Int /\ 0 <= r /\ r <= 365
  /\ r = 365 => t = 3 /\ (p # 24 \/ c = 3)

EraDays == {d \in Int : 0 <= d /\ d <= 146096}

DayOfEra(c, p, t, r) == 36524 * c + 1461 * p + 365 * t + r

YearInEra(c, p, t) == 100 * c + 4 * p + t

\* The year, and the day, at a place of an era.
YearAt(era, c, p, t) == 400 * era + YearInEra(c, p, t)
DayAt(era, c, p, t, r) == 146097 * era + DayOfEra(c, p, t, r) - 719468

\* Every day of an era has such a place.
LEMMA PlaceInEra ==
  ASSUME NEW doe \in EraDays
  PROVE  \E c, p, t, r : InEra(c, p, t, r) /\ doe = DayOfEra(c, p, t, r)
<1> DEFINE c == IF doe \div 36524 > 3 THEN 3 ELSE doe \div 36524
           x == doe - 36524 * c
           p == x \div 1461
           y == x - 1461 * p
           t == IF y \div 365 > 3 THEN 3 ELSE y \div 365
           r == y - 365 * t
<1>1. c \in 0..3 /\ x \in Int /\ 0 <= x /\ x <= 36524 /\ (x = 36524 => c = 3)
  BY SMT DEF EraDays
<1> HIDE DEF c, x
<1>2. p \in 0..24 /\ y \in Int /\ 0 <= y /\ y <= 1460 /\ (y = 1460 /\ p = 24 => c = 3)
  BY SMT, <1>1
<1> HIDE DEF p, y
<1>3. t \in 0..3 /\ r \in Int /\ 0 <= r /\ r <= 365 /\ (r = 365 => t = 3 /\ y = 1460)
  BY SMT, <1>2
<1> HIDE DEF t
<1>4. InEra(c, p, t, r)
  BY SMT, <1>1, <1>2, <1>3 DEF InEra
<1>5. doe = DayOfEra(c, p, t, r)
  BY SMT, <1>1, <1>2, <1>3 DEF DayOfEra, EraDays, x, y
<1> HIDE DEF r
<1> QED
  BY <1>4, <1>5

\* The year that is computed from a day of an era.
LEMMA YearOfPlace ==
  ASSUME NEW c, NEW p, NEW t, NEW r, InEra(c, p, t, r)
  PROVE  /\ DayOfEra(c, p, t, r) \in EraDays
         /\ YearOfEra(DayOfEra(c, p, t, r)) = YearInEra(c, p, t)
<1>1. c \in 0..3 /\ p \in 0..24 /\ t \in 0..3 /\ r \in Int /\ 0 <= r /\ r <= 365
  BY DEF InEra
<1>2. CASE r # 365
  BY SMTT(30), <1>1, <1>2 DEF YearOfEra, DayOfEra, YearInEra, EraDays
<1>3. CASE r = 365
  BY SMTT(30), <1>1, <1>3 DEF YearOfEra, DayOfEra, YearInEra, EraDays, InEra
<1> QED
  BY <1>2, <1>3

\* Its date: the month by the day of the year.
LEMMA CivilOfPlace ==
  ASSUME NEW n \in Int, NEW era \in Int, NEW c, NEW p, NEW t, NEW r, InEra(c, p, t, r),
         n = DayAt(era, c, p, t, r)
  PROVE  CivilFromDays(n) = CivilInYear(YearAt(era, c, p, t), r)
<1> DEFINE doe == DayOfEra(c, p, t, r)
           yoe == YearInEra(c, p, t)
<1>1. c \in 0..3 /\ p \in 0..24 /\ t \in 0..3 /\ r \in Int /\ 0 <= r /\ r <= 365
  BY DEF InEra
<1>2. doe \in EraDays /\ YearOfEra(doe) = yoe /\ yoe \in Int
  <2>1. yoe \in Int
    BY SMT, <1>1 DEF YearInEra
  <2> QED
    BY <2>1, YearOfPlace
<1>3. doe - (365 * yoe + yoe \div 4 - yoe \div 100) = r
  <2>1. yoe \div 100 = c /\ yoe \div 4 = 25 * c + p
    BY <1>1 DEF YearInEra
  <2> QED
    BY <1>1, <2>1 DEF DayOfEra, YearInEra
<1> HIDE DEF doe, yoe
<1>4. n + 719468 = 146097 * era + doe
  BY SMT, <1>2 DEF EraDays, doe, DayAt
<1>5. (n + 719468) \div 146097 = era /\ (n + 719468) % 146097 = doe
  BY SMT, <1>2, <1>4 DEF EraDays
<1>6. CivilFromDays(n) = CivilInEra(era, doe, yoe)
  BY <1>2, <1>5 DEF CivilFromDays
<1>7. yoe + era * 400 = 400 * era + yoe
  BY SMT, <1>2
<1> QED
  BY <1>3, <1>6, <1>7 DEF CivilInEra, yoe, YearAt

\* The months of a year that begins in March.
MonthStart(mp) == (153 * mp + 2) \div 5
MonthAt(r) == (5 * r + 2) \div 153

DateIn(y, r, mp) ==
  [year  |-> IF mp < 10 THEN y ELSE y + 1,
   month |-> IF mp < 10 THEN mp + 3 ELSE mp - 9,
   day   |-> r - MonthStart(mp) + 1]

\* A date in that year.
LEMMA DateInYear ==
  ASSUME NEW y \in Int, NEW r \in Int, 0 <= r, r <= 365
  PROVE  /\ MonthAt(r) \in 0..11 /\ MonthStart(MonthAt(r)) <= r /\ r < MonthStart(MonthAt(r) + 1)
         /\ CivilInYear(y, r) = DateIn(y, r, MonthAt(r))
<1> DEFINE mp == MonthAt(r)
<1>1. mp \in 0..11 /\ MonthStart(mp) <= r /\ r < MonthStart(mp + 1)
  BY SMT DEF MonthStart, MonthAt
<1> HIDE DEF mp
<1>2. CivilInMonth(y, r, mp) = DateIn(y, r, mp)
  BY SMT, <1>1 DEF CivilInMonth, MonthStart, DateIn
<1> QED
  BY <1>1, <1>2 DEF CivilInYear, mp, MonthAt

\* Back from the date to the day.
LEMMA DayOfPlace ==
  ASSUME NEW era \in Int, NEW c, NEW p, NEW t, NEW r, InEra(c, p, t, r),
         NEW d, d = CivilInYear(YearAt(era, c, p, t), r)
  PROVE  DaysFromCivil(d.year, d.month, d.day) = DayAt(era, c, p, t, r)
<1> DEFINE yoe == YearInEra(c, p, t)
           y   == 400 * era + yoe
           mp  == MonthAt(r)
<1>1. c \in 0..3 /\ p \in 0..24 /\ t \in 0..3 /\ r \in Int /\ 0 <= r /\ r <= 365 /\ y \in Int /\ yoe \in Int /\ 0 <= yoe /\ yoe <= 399
  BY DEF InEra, YearInEra
<1>2. /\ mp \in 0..11
      /\ d = DateIn(y, r, mp)
  BY <1>1, DateInYear DEF YearAt
<1>3. yoe \div 100 = c /\ yoe \div 4 = 25 * c + p /\ y \div 400 = era
  BY <1>1 DEF YearInEra
<1>4. 365 * yoe + yoe \div 4 - yoe \div 100 + r = DayOfEra(c, p, t, r)
  BY <1>1, <1>3 DEF DayOfEra, YearInEra
<1> HIDE DEF yoe, mp
<1>5. (IF d.month <= 2 THEN d.year - 1 ELSE d.year) = y
  BY SMT, <1>1, <1>2 DEF DateIn
<1>6. (IF d.month > 2 THEN d.month - 3 ELSE d.month + 9) = mp
  BY SMT, <1>1, <1>2 DEF DateIn
<1>7. (153 * mp + 2) \div 5 + d.day - 1 = r
  BY SMT, <1>1, <1>2 DEF MonthStart, DateIn
<1>8. y - era * 400 = yoe
  BY <1>1
<1>9. d.day = r - MonthStart(mp) + 1 /\ d.day \in Int /\ MonthStart(mp) \in Int
  BY SMT, <1>1, <1>2 DEF MonthStart, DateIn
<1> HIDE DEF y
<1>10. DaysFromCivil(d.year, d.month, d.day)
         = era * 146097 + yoe * 365 + yoe \div 4 - yoe \div 100 + r - 719468
  BY <1>3, <1>5, <1>6, <1>7, <1>8, <1>9 DEF DaysFromCivil, MonthStart
<1> QED
  BY <1>1, <1>3, <1>4, <1>10 DEF DayOfEra, DayAt

\* How long the months are, but for the last one of the year, which is February.
LEMMA MonthLengths ==
  ASSUME NEW y \in Int, NEW mp \in 0..10
  PROVE  DaysInMonth(y, IF mp < 10 THEN mp + 3 ELSE mp - 9) = MonthStart(mp + 1) - MonthStart(mp)
<1>1. mp \in {0, 1, 2, 3, 4, 5, 6, 7, 8, 9, 10}
  BY SMT
<1>2. /\ MonthStart(0) = 0 /\ MonthStart(1) = 31 /\ MonthStart(2) = 61 /\ MonthStart(3) = 92
      /\ MonthStart(4) = 122 /\ MonthStart(5) = 153 /\ MonthStart(6) = 184 /\ MonthStart(7) = 214
      /\ MonthStart(8) = 245 /\ MonthStart(9) = 275 /\ MonthStart(10) = 306 /\ MonthStart(11) = 337
  BY SMT DEF MonthStart
<1> QED
  BY SMT, <1>1, <1>2 DEF DaysInMonth

\* Which years have a leap day at their end, which is in the next calendar year.
LEMMA LeapPlace ==
  ASSUME NEW era \in Int, NEW c \in 0..3, NEW p \in 0..24, NEW t \in 0..3
  PROVE  LeapYear(YearAt(era, c, p, t) + 1) <=> t = 3 /\ (p # 24 \/ c = 3)
<1> DEFINE y == YearAt(era, c, p, t) + 1
<1>1. y \in Int /\ y = 400 * era + 100 * c + 4 * p + t + 1
  BY SMT DEF YearInEra, YearAt
<1> HIDE DEF y
<1>2. y % 4 = 0 <=> t = 3
  BY SMT, <1>1
<1>3. y % 100 = 0 <=> t = 3 /\ p = 24
  BY SMT, <1>1
<1>4. y % 400 = 0 <=> t = 3 /\ p = 24 /\ c = 3
  BY SMT, <1>1
<1>5. LeapYear(y) <=> t = 3 /\ (p # 24 \/ c = 3)
  BY <1>2, <1>3, <1>4 DEF LeapYear
<1> QED
  BY <1>5 DEF y

\* A date.
TheDate(y, m, d) == [year |-> y, month |-> m, day |-> d]

\* What the date after a date is.
LEMMA NextDateIs ==
  ASSUME NEW y \in Int, NEW m \in Int, NEW d \in Int, NEW len \in Int, NEW per \in Int
  PROVE  /\ d < len => NextDate(TheDate(y, m, d), len, per) = TheDate(y, m, d + 1)
         /\ d >= len /\ m < per => NextDate(TheDate(y, m, d), len, per) = TheDate(y, m + 1, 1)
         /\ d >= len /\ m >= per => NextDate(TheDate(y, m, d), len, per) = TheDate(y + 1, 1, 1)
<1> DEFINE c == TheDate(y, m, d)
<1>1. c.year = y /\ c.month = m /\ c.day = d
  BY DEF TheDate
<1>2. /\ [c EXCEPT !.day = @ + 1] = TheDate(y, m, d + 1)
      /\ [year |-> c.year, month |-> c.month + 1, day |-> 1] = TheDate(y, m + 1, 1)
      /\ [year |-> c.year + 1, month |-> 1, day |-> 1] = TheDate(y + 1, 1, 1)
  <2>1. [c EXCEPT !.day = @ + 1] = TheDate(y, m, d + 1)
    BY SMT DEF TheDate
  <2> QED
    BY <1>1, <2>1 DEF TheDate
<1> HIDE DEF c
<1>3. CASE d < len
  <2>1. c.day < len /\ ~ (c.day >= len) /\ ~ (d >= len)
    BY SMT, <1>1, <1>3
  <2>2. NextDate(c, len, per) = [c EXCEPT !.day = @ + 1]
    BY <2>1 DEF NextDate
  <2> QED
    BY <1>2, <1>3, <2>1, <2>2 DEF c
<1>4. CASE d >= len /\ m < per
  <2>1. ~ (c.day < len) /\ c.day >= len /\ c.month < per /\ ~ (d < len) /\ ~ (m >= per)
    BY SMT, <1>1, <1>4
  <2>2. NextDate(c, len, per) = [year |-> c.year, month |-> c.month + 1, day |-> 1]
    BY <2>1 DEF NextDate
  <2> QED
    BY <1>2, <1>4, <2>1, <2>2 DEF c
<1>5. CASE d >= len /\ m >= per
  <2>1. ~ (c.day < len) /\ c.day >= len /\ ~ (c.month < per) /\ ~ (d < len) /\ ~ (m < per)
    BY SMT, <1>1, <1>5
  <2>2. NextDate(c, len, per) = [year |-> c.year + 1, month |-> 1, day |-> 1]
    BY <2>1 DEF NextDate
  <2> QED
    BY <1>2, <1>5, <2>1, <2>2 DEF c
<1>6. (d < len \/ d >= len) /\ (m < per \/ m >= per)
  BY SMT
<1> QED
  BY <1>3, <1>4, <1>5, <1>6

\* The three cases of it, with twelve months: the next day of a month.
LEMMA NextDay ==
  ASSUME NEW y \in Int, NEW m \in Int, NEW d \in Int, NEW len \in Int, d < len
  PROVE  NextDate(TheDate(y, m, d), len, 12) = TheDate(y, m, d + 1)
<1> 12 \in Int
  BY SMT
<1> QED
  BY NextDateIs

\* The first of the next month comes after the last day of a month.
LEMMA NextMonthBegins ==
  ASSUME NEW y \in Int, NEW m \in Int, NEW len \in Int, m < 12
  PROVE  NextDate(TheDate(y, m, len), len, 12) = TheDate(y, m + 1, 1)
<1> 12 \in Int /\ len >= len
  BY SMT
<1> QED
  BY NextDateIs

\* The first of the next year comes after the last day of the last month.
LEMMA NextYearBegins ==
  ASSUME NEW y \in Int, NEW len \in Int
  PROVE  NextDate(TheDate(y, 12, len), len, 12) = TheDate(y + 1, 1, 1)
<1> 12 \in Int /\ len >= len /\ 12 >= 12
  BY SMT
<1> QED
  BY NextDateIs

\* The next day of the same year that begins in March.
LEMMA NextInYear ==
  ASSUME NEW y \in Int, NEW r \in Int, 0 <= r, r < 365, r = 364 => LeapYear(y + 1)
  PROVE  CivilInYear(y, r + 1)
           = NextDate(CivilInYear(y, r), DaysInMonth(CivilInYear(y, r).year, CivilInYear(y, r).month), 12)
<1> DEFINE mp == MonthAt(r)
           dy == IF mp < 10 THEN y ELSE y + 1
           dm == IF mp < 10 THEN mp + 3 ELSE mp - 9
           dd == r - MonthStart(mp) + 1
           len == DaysInMonth(dy, dm)
<1>1. /\ mp \in 0..11 /\ MonthStart(mp) <= r /\ r < MonthStart(mp + 1)
      /\ CivilInYear(y, r) = DateIn(y, r, mp)
      /\ CivilInYear(y, r + 1) = DateIn(y, r + 1, MonthAt(r + 1))
  BY DateInYear
<1>2. MonthStart(mp) \in Int /\ MonthStart(mp + 1) \in Int
  BY SMT, <1>1 DEF MonthStart
<1>3. dy \in Int /\ dm \in Int /\ dd \in Int /\ len \in Int
  BY SMT, <1>1, <1>2 DEF DaysInMonth
<1>4. DateIn(y, r, mp) = TheDate(dy, dm, dd)
  BY DEF DateIn, TheDate
<1>5. CivilInYear(y, r).year = dy /\ CivilInYear(y, r).month = dm
  BY <1>1, <1>4 DEF TheDate
<1>6. CivilInYear(y, r + 1) = NextDate(TheDate(dy, dm, dd), len, 12)
  <2>1. CASE r + 1 < MonthStart(mp + 1)
    <3>1. MonthAt(r + 1) = mp
      BY SMT, <1>1, <2>1 DEF MonthStart, MonthAt
    <3>2. dd < len
      <4>1. CASE mp \in 0..10
        BY SMT, <1>2, <2>1, <4>1, MonthLengths
      <4>2. CASE mp = 11
        <5>1. dy = y + 1 /\ dm = 2 /\ dd = r - 336
          BY SMT, <4>2 DEF MonthStart
        <5>2. DaysInMonth(y + 1, 2) = IF LeapYear(y + 1) THEN 29 ELSE 28
          BY SMT DEF DaysInMonth
        <5> QED
          BY SMT, <5>1, <5>2
      <4> QED
        BY SMT, <1>1, <4>1, <4>2
    <3>3. DateIn(y, r + 1, mp) = TheDate(dy, dm, dd + 1)
      BY SMT, <1>1, <1>2 DEF DateIn, TheDate
    <3> HIDE DEF mp, dy, dm, dd, len
    <3>4. NextDate(TheDate(dy, dm, dd), len, 12) = TheDate(dy, dm, dd + 1)
      BY <1>3, <3>2, NextDay
    <3> QED
      BY <1>1, <3>1, <3>3, <3>4
  <2>2. CASE r + 1 = MonthStart(mp + 1)
    <3>1. mp \in 0..10 /\ MonthAt(r + 1) = mp + 1
      BY SMT, <1>1, <2>2 DEF MonthStart, MonthAt
    <3>2. dd = len
      BY SMT, <1>2, <2>2, <3>1, MonthLengths
    <3>3. CASE mp # 9
      <4>1. (IF mp + 1 < 10 THEN y ELSE y + 1) = dy /\ (IF mp + 1 < 10 THEN (mp + 1) + 3 ELSE (mp + 1) - 9) = dm + 1
        BY SMT, <3>1, <3>3
      <4>2. dm < 12
        BY SMT, <3>1, <3>3
      <4>3. ((r + 1) - MonthStart(mp + 1)) + 1 = 1
        BY SMT, <1>2, <2>2
      <4>4. DateIn(y, r + 1, mp + 1) = TheDate(dy, dm + 1, 1)
        <5>1. DateIn(y, r + 1, mp + 1)
                = TheDate(IF mp + 1 < 10 THEN y ELSE y + 1, IF mp + 1 < 10 THEN (mp + 1) + 3 ELSE (mp + 1) - 9,
                          ((r + 1) - MonthStart(mp + 1)) + 1)
          BY DEF DateIn, TheDate
        <5> HIDE DEF mp, dy, dm
        <5> QED
          BY <4>1, <4>3, <5>1
      <4> HIDE DEF mp, dy, dm, dd, len
      <4>5. NextDate(TheDate(dy, dm, dd), len, 12) = TheDate(dy, dm + 1, 1)
        BY <1>3, <3>2, <4>2, NextMonthBegins
      <4> QED
        BY <1>1, <3>1, <4>4, <4>5
    <3>4. CASE mp = 9
      <4>1. (IF mp + 1 < 10 THEN y ELSE y + 1) = dy + 1 /\ (IF mp + 1 < 10 THEN (mp + 1) + 3 ELSE (mp + 1) - 9) = 1
        BY SMT, <3>1, <3>4
      <4>2. dm = 12
        BY SMT, <3>1, <3>4
      <4>3. ((r + 1) - MonthStart(mp + 1)) + 1 = 1
        BY SMT, <1>2, <2>2
      <4>4. DateIn(y, r + 1, mp + 1) = TheDate(dy + 1, 1, 1)
        <5>1. DateIn(y, r + 1, mp + 1)
                = TheDate(IF mp + 1 < 10 THEN y ELSE y + 1, IF mp + 1 < 10 THEN (mp + 1) + 3 ELSE (mp + 1) - 9,
                          ((r + 1) - MonthStart(mp + 1)) + 1)
          BY DEF DateIn, TheDate
        <5> HIDE DEF mp, dy, dm
        <5> QED
          BY <4>1, <4>3, <5>1
      <4> HIDE DEF mp, dy, dm, dd, len
      <4>5. NextDate(TheDate(dy, dm, dd), len, 12) = TheDate(dy + 1, 1, 1)
        BY <1>3, <3>2, <4>2, NextYearBegins
      <4> QED
        BY <1>1, <3>1, <4>4, <4>5
    <3> QED
      BY <3>3, <3>4
  <2> QED
    BY SMT, <1>1, <1>2, <2>1, <2>2
<1> HIDE DEF mp, dy, dm, dd, len
<1> QED
  BY <1>1, <1>4, <1>5, <1>6 DEF len

\* The last day of a year that ends with February of the year y.
LastDay(y) == IF LeapYear(y) THEN 365 ELSE 364

\* The first of March comes after the last day of February.
LEMMA NextAfterYear ==
  ASSUME NEW y \in Int, NEW r \in Int, r = LastDay(y + 1)
  PROVE  CivilInYear(y + 1, 0)
           = NextDate(CivilInYear(y, r), DaysInMonth(CivilInYear(y, r).year, CivilInYear(y, r).month), 12)
<1>1. (r = 364 \/ r = 365) /\ (LeapYear(y + 1) <=> r = 365)
  BY SMT DEF LastDay
<1>2. MonthAt(r) = 11 /\ MonthAt(0) = 0 /\ MonthStart(11) = 337 /\ MonthStart(0) = 0
  BY SMT, <1>1 DEF MonthAt, MonthStart
<1>3. /\ CivilInYear(y, r) = DateIn(y, r, 11)
      /\ CivilInYear(y + 1, 0) = DateIn(y + 1, 0, 0)
  BY SMT, <1>1, <1>2, DateInYear
<1>4. /\ DateIn(y, r, 11) = [year |-> y + 1, month |-> 2, day |-> r - 336]
      /\ DateIn(y + 1, 0, 0) = [year |-> y + 1, month |-> 3, day |-> 1]
  BY SMT, <1>1, <1>2 DEF DateIn
<1>5. DaysInMonth(y + 1, 2) = r - 336
  BY SMT, <1>1 DEF DaysInMonth
<1>6. NextDate(TheDate(y + 1, 2, r - 336), r - 336, 12) = TheDate(y + 1, 3, 1)
  <2>1. y + 1 \in Int /\ 2 \in Int /\ r - 336 \in Int /\ 2 < 12 /\ 2 + 1 = 3
    BY SMT
  <2> QED
    BY <2>1, NextMonthBegins
<1> QED
  BY <1>3, <1>4, <1>5, <1>6 DEF TheDate

\* The place of the next day: the next of the year, or the first of the next year.
LEMMA NextPlace ==
  ASSUME NEW era \in Int, NEW c, NEW p, NEW t, NEW r, InEra(c, p, t, r),
         r < 364 \/ (r = 364 /\ t = 3 /\ (p # 24 \/ c = 3))
  PROVE  InEra(c, p, t, r + 1) /\ DayAt(era, c, p, t, r + 1) = DayAt(era, c, p, t, r) + 1
<1>1. c \in 0..3 /\ p \in 0..24 /\ t \in 0..3 /\ r \in Int /\ 0 <= r /\ r <= 365
  BY DEF InEra
<1>2. r + 1 \in Int /\ 0 <= r + 1 /\ r + 1 <= 365 /\ (r + 1 = 365 => t = 3 /\ (p # 24 \/ c = 3))
  BY SMT, <1>1
<1>3. DayAt(era, c, p, t, r + 1) = DayAt(era, c, p, t, r) + 1
  BY SMT, <1>1 DEF DayOfEra, DayAt
<1> QED
  BY <1>1, <1>2, <1>3 DEF InEra

\* The day after is the first of the next year, at some place of an era.
BeginsNextYear(n, y) ==
  \E era \in Int : \E c \in 0..3 : \E p \in 0..24 : \E t \in 0..3 :
    InEra(c, p, t, 0) /\ YearAt(era, c, p, t) = y + 1 /\ DayAt(era, c, p, t, 0) = n + 1

\* The first of March is at a place as well.
LEMMA NextYearPlace ==
  ASSUME NEW era \in Int, NEW c, NEW p, NEW t, NEW r, InEra(c, p, t, r),
         r = LastDay(YearAt(era, c, p, t) + 1)
  PROVE  BeginsNextYear(DayAt(era, c, p, t, r), YearAt(era, c, p, t))
<1> DEFINE Goal(e2, c2, p2, t2) ==
             /\ InEra(c2, p2, t2, 0)
             /\ YearAt(e2, c2, p2, t2) = YearAt(era, c, p, t) + 1
             /\ DayAt(e2, c2, p2, t2, 0) = DayAt(era, c, p, t, r) + 1
<1>1. c \in 0..3 /\ p \in 0..24 /\ t \in 0..3 /\ r \in Int /\ 0 <= r /\ r <= 365
  BY DEF InEra
<1>0. r = IF t = 3 /\ (p # 24 \/ c = 3) THEN 365 ELSE 364
  BY <1>1, LeapPlace DEF LastDay
<1>2. CASE t < 3
  <2>1. t + 1 \in 0..3
    BY SMT, <1>1, <1>2
  <2>2. Goal(era, c, p, t + 1)
    BY SMT, <1>0, <1>1, <1>2 DEF InEra, YearAt, YearInEra, DayAt, DayOfEra
  <2> QED
    BY <1>1, <2>1, <2>2 DEF BeginsNextYear
<1>3. CASE t = 3 /\ p < 24
  <2>1. p + 1 \in 0..24 /\ 0 \in 0..3
    BY SMT, <1>1, <1>3
  <2>2. Goal(era, c, p + 1, 0)
    BY SMT, <1>0, <1>1, <1>3 DEF InEra, YearAt, YearInEra, DayAt, DayOfEra
  <2> QED
    BY <1>1, <2>1, <2>2 DEF BeginsNextYear
<1>4. CASE t = 3 /\ p = 24 /\ c < 3
  <2>1. c + 1 \in 0..3 /\ 0 \in 0..3 /\ 0 \in 0..24
    BY SMT, <1>1, <1>4
  <2>2. Goal(era, c + 1, 0, 0)
    BY SMT, <1>0, <1>1, <1>4 DEF InEra, YearAt, YearInEra, DayAt, DayOfEra
  <2> QED
    BY <1>1, <2>1, <2>2 DEF BeginsNextYear
<1>5. CASE t = 3 /\ p = 24 /\ c = 3
  <2>1. PICK e \in Int : e = era + 1
    BY SMT
  <2>2. Goal(e, 0, 0, 0)
    BY SMT, <1>0, <1>1, <1>5, <2>1 DEF InEra, YearAt, YearInEra, DayAt, DayOfEra
  <2>3. 0 \in 0..3 /\ 0 \in 0..24
    BY SMT
  <2> QED
    BY <2>2, <2>3 DEF BeginsNextYear
<1>6. t < 3 \/ (t = 3 /\ p < 24) \/ (t = 3 /\ p = 24 /\ c < 3) \/ (t = 3 /\ p = 24 /\ c = 3)
  BY SMT, <1>1
<1> QED
  BY <1>2, <1>3, <1>4, <1>5, <1>6

\* Every day has such a place.
LEMMA PlaceOfDay ==
  ASSUME NEW n \in Int
  PROVE  \E era \in Int : \E c, p, t, r : InEra(c, p, t, r) /\ n = DayAt(era, c, p, t, r)
<1> DEFINE e == (n + 719468) \div 146097
           doe == (n + 719468) % 146097
<1>1. e \in Int /\ doe \in EraDays /\ n = 146097 * e + doe - 719468
  BY SMT DEF EraDays
<1> HIDE DEF e, doe
<1>2. PICK c, p, t, r : InEra(c, p, t, r) /\ doe = DayOfEra(c, p, t, r)
  BY <1>1, PlaceInEra
<1>3. n = DayAt(e, c, p, t, r)
  BY <1>1, <1>2 DEF DayAt
<1> QED
  BY <1>1, <1>2, <1>3

\* Every day has a date that leads back to it, and the next day has the next date.
LEMMA GregorianDays ==
  ASSUME NEW n \in Int
  PROVE  LET d == CivilFromDays(n)
         IN  /\ DaysFromCivil(d.year, d.month, d.day) = n
             /\ CivilFromDays(n + 1) = NextDate(d, DaysInMonth(d.year, d.month), 12)
<1>1. PICK era \in Int : \E c, p, t, r : InEra(c, p, t, r) /\ n = DayAt(era, c, p, t, r)
  BY PlaceOfDay
<1>2. PICK c, p, t, r : InEra(c, p, t, r) /\ n = DayAt(era, c, p, t, r)
  BY <1>1
<1>3. c \in 0..3 /\ p \in 0..24 /\ t \in 0..3 /\ r \in Int /\ 0 <= r /\ r <= 365
  BY <1>2 DEF InEra
<1> DEFINE y == YearAt(era, c, p, t)
<1>4. y \in Int /\ (LeapYear(y + 1) <=> t = 3 /\ (p # 24 \/ c = 3))
  <2>1. y \in Int
    BY SMT, <1>3 DEF YearInEra, YearAt
  <2> QED
    BY <1>3, <2>1, LeapPlace
<1>5. CivilFromDays(n) = CivilInYear(y, r)
  BY <1>2, CivilOfPlace
<1>6. DaysFromCivil(CivilInYear(y, r).year, CivilInYear(y, r).month, CivilInYear(y, r).day) = n
  BY <1>2, DayOfPlace
<1>7. n + 1 \in Int
  BY SMT
<1>8. CASE r < 364 \/ (r = 364 /\ LeapYear(y + 1))
  <2>1. InEra(c, p, t, r + 1) /\ n + 1 = DayAt(era, c, p, t, r + 1)
    BY <1>2, <1>4, <1>8, NextPlace
  <2>2. CivilFromDays(n + 1) = CivilInYear(y, r + 1)
    BY <1>7, <2>1, CivilOfPlace
  <2>3. r < 365 /\ (r = 364 => LeapYear(y + 1))
    BY SMT, <1>3, <1>8
  <2> HIDE DEF y
  <2>4. CivilInYear(y, r + 1)
          = NextDate(CivilInYear(y, r), DaysInMonth(CivilInYear(y, r).year, CivilInYear(y, r).month), 12)
    BY <1>3, <1>4, <2>3, NextInYear
  <2> QED
    BY <1>5, <1>6, <2>2, <2>4
<1>9. CASE r = LastDay(y + 1)
  <2>1. BeginsNextYear(n, y)
    BY <1>2, <1>9, NextYearPlace
  <2>2. PICK e2 \in Int : \E c2 \in 0..3 : \E p2 \in 0..24 : \E t2 \in 0..3 :
          InEra(c2, p2, t2, 0) /\ YearAt(e2, c2, p2, t2) = y + 1 /\ n + 1 = DayAt(e2, c2, p2, t2, 0)
    BY <2>1 DEF BeginsNextYear
  <2> PICK c2 \in 0..3, p2 \in 0..24, t2 \in 0..3 :
          InEra(c2, p2, t2, 0) /\ YearAt(e2, c2, p2, t2) = y + 1 /\ n + 1 = DayAt(e2, c2, p2, t2, 0)
    BY <2>2
  <2>3. CivilFromDays(n + 1) = CivilInYear(y + 1, 0)
    <3>1. CivilFromDays(n + 1) = CivilInYear(YearAt(e2, c2, p2, t2), 0)
      BY <1>7, <2>2, CivilOfPlace
    <3> HIDE DEF y
    <3> QED
      BY <2>2, <3>1
  <2> HIDE DEF y
  <2>4. CivilInYear(y + 1, 0)
          = NextDate(CivilInYear(y, r), DaysInMonth(CivilInYear(y, r).year, CivilInYear(y, r).month), 12)
    BY <1>3, <1>4, <1>9, NextAfterYear
  <2> QED
    BY <1>5, <1>6, <2>3, <2>4
<1>10. r < 364 \/ (r = 364 /\ LeapYear(y + 1)) \/ r = LastDay(y + 1)
  <2>1. r = 365 => LeapYear(y + 1)
    BY <1>2, <1>4 DEF InEra
  <2> QED
    BY SMT, <1>3, <2>1 DEF LastDay
<1> QED
  BY <1>8, <1>9, <1>10
-----------------------------------------------------------------------------
(* The Julian calendar.                                                     *)

\* Days that have passed of a year that begins in March, before a month.
BeforeMonth(m) == (153 * (m + 12 * ((14 - m) \div 12) - 3) + 2) \div 5
Early(m) == (14 - m) \div 12

JulianNo(y, m, d) ==
  d + BeforeMonth(m) + 365 * (y + 4800 - Early(m)) + (y + 4800 - Early(m)) \div 4 - 2472671

\* The day of a date, by month.
LEMMA JulianDay ==
  ASSUME NEW y \in Int, NEW m \in 1..12, NEW d \in Int
  PROVE  /\ BeforeMonth(m) \in Int /\ Early(m) \in {0, 1}
         /\ DaysFromJulian(y, m, d) = JulianNo(y, m, d)
<1>1. Early(m) \in {0, 1}
  BY SMT DEF Early
<1>2. BeforeMonth(m) \in Int
  BY SMT DEF BeforeMonth
<1>3. DaysFromJulian(y, m, d) = JulianNo(y, m, d)
  BY SMT, <1>1, <1>2 DEF DaysFromJulian, JulianNo, BeforeMonth, Early
<1> QED
  BY <1>1, <1>2, <1>3

\* Each month, and the year, is as long as it says.
LEMMA JulianMonths ==
  ASSUME NEW y \in Int, NEW m \in 1..12
  PROVE  /\ JulianDaysInMonth(y, m) \in Int
         /\ m < 12 => DaysFromJulian(y, m + 1, 1) = DaysFromJulian(y, m, JulianDaysInMonth(y, m)) + 1
         /\ m = 12 => DaysFromJulian(y + 1, 1, 1) = DaysFromJulian(y, m, JulianDaysInMonth(y, m)) + 1
<1> DEFINE len == JulianDaysInMonth(y, m)
<1>1. len \in Int
  BY SMT DEF JulianDaysInMonth
<1>2. /\ BeforeMonth(1) = 306 /\ BeforeMonth(2) = 337 /\ BeforeMonth(3) = 0 /\ BeforeMonth(4) = 31
      /\ BeforeMonth(5) = 61 /\ BeforeMonth(6) = 92 /\ BeforeMonth(7) = 122 /\ BeforeMonth(8) = 153
      /\ BeforeMonth(9) = 184 /\ BeforeMonth(10) = 214 /\ BeforeMonth(11) = 245 /\ BeforeMonth(12) = 275
  BY SMT DEF BeforeMonth
<1>3. Early(1) = 1 /\ Early(2) = 1 /\ \A k \in 3..12 : Early(k) = 0
  BY SMT DEF Early
<1>4. m \in {1, 2, 3, 4, 5, 6, 7, 8, 9, 10, 11, 12}
  BY SMT
<1>5. CASE m \notin {2, 12}
  <2>1. len = BeforeMonth(m + 1) - BeforeMonth(m) /\ Early(m + 1) = Early(m)
    BY SMT, <1>2, <1>3, <1>4, <1>5 DEF JulianDaysInMonth
  <2>2. m + 1 \in 1..12 /\ 1 \in Int
    BY SMT, <1>5
  <2> HIDE DEF len
  <2>3. /\ DaysFromJulian(y, m + 1, 1) = JulianNo(y, m + 1, 1)
        /\ DaysFromJulian(y, m, len) = JulianNo(y, m, len)
        /\ BeforeMonth(m) \in Int /\ BeforeMonth(m + 1) \in Int /\ Early(m) \in {0, 1}
    BY <1>1, <2>2, JulianDay
  <2>4. JulianNo(y, m + 1, 1) = JulianNo(y, m, len) + 1
    BY SMT, <1>1, <2>1, <2>3 DEF JulianNo
  <2> QED
    BY <1>1, <1>5, <2>3, <2>4 DEF len
<1>6. CASE m = 2
  <2>1. len = IF y % 4 = 0 THEN 29 ELSE 28
    BY <1>6 DEF JulianDaysInMonth
  <2>2. DaysFromJulian(y, 3, 1) = 1 + 365 * (y + 4800) + (y + 4800) \div 4 - 2472671
    <3>1. 3 \in 1..12 /\ 1 \in Int /\ Early(3) = 0
      BY SMT, <1>3
    <3>2. DaysFromJulian(y, 3, 1) = JulianNo(y, 3, 1)
      BY <3>1, JulianDay
    <3> QED
      BY SMT, <1>2, <3>1, <3>2 DEF JulianNo
  <2>3. DaysFromJulian(y, 2, len) = len + 337 + 365 * (y + 4799) + (y + 4799) \div 4 - 2472671
    <3>1. 2 \in 1..12
      BY SMT
    <3> HIDE DEF len
    <3>2. DaysFromJulian(y, 2, len) = JulianNo(y, 2, len)
      BY <1>1, <3>1, JulianDay
    <3> QED
      BY SMT, <1>1, <1>2, <1>3, <3>2 DEF JulianNo
  <2>4. (y + 4800) \div 4 = (y + 4799) \div 4 + (IF y % 4 = 0 THEN 1 ELSE 0)
    BY SMT
  <2> QED
    BY SMT, <1>1, <1>6, <2>1, <2>2, <2>3, <2>4
<1>7. CASE m = 12
  <2>1. len = 31
    BY SMT, <1>7 DEF JulianDaysInMonth
  <2>2. DaysFromJulian(y + 1, 1, 1) = 1 + 306 + 365 * (y + 4800) + (y + 4800) \div 4 - 2472671
    <3>1. y + 1 \in Int /\ 1 \in 1..12 /\ 1 \in Int
      BY SMT
    <3>2. DaysFromJulian(y + 1, 1, 1) = JulianNo(y + 1, 1, 1)
      BY <3>1, JulianDay
    <3> QED
      BY SMT, <1>2, <1>3, <3>2 DEF JulianNo
  <2>3. DaysFromJulian(y, 12, 31) = 31 + 275 + 365 * (y + 4800) + (y + 4800) \div 4 - 2472671
    <3>1. 12 \in 1..12 /\ 31 \in Int /\ Early(12) = 0
      BY SMT, <1>3
    <3>2. DaysFromJulian(y, 12, 31) = JulianNo(y, 12, 31)
      BY <3>1, JulianDay
    <3> QED
      BY SMT, <1>2, <3>1, <3>2 DEF JulianNo
  <2> QED
    BY SMT, <1>1, <1>7, <2>1, <2>2, <2>3
<1> QED
  BY <1>1, <1>5, <1>6, <1>7

\* The day after a date is the next day.
LEMMA JulianDays ==
  ASSUME NEW y \in Int, NEW m \in 1..12, NEW d \in 1..JulianDaysInMonth(y, m)
  PROVE  LET c == NextDate(TheDate(y, m, d), JulianDaysInMonth(y, m), 12)
         IN  DaysFromJulian(c.year, c.month, c.day) = DaysFromJulian(y, m, d) + 1
<1> DEFINE len == JulianDaysInMonth(y, m)
           c == NextDate(TheDate(y, m, d), len, 12)
<1>1. len \in Int /\ d \in Int /\ m \in Int /\ d <= len /\ m <= 12 /\ d + 1 \in Int
  BY SMT DEF JulianDaysInMonth
<1> HIDE DEF len
<1>2. CASE d < len
  <2>1. c = TheDate(y, m, d + 1)
    BY <1>1, <1>2, NextDay
  <2>2. DaysFromJulian(y, m, d + 1) = DaysFromJulian(y, m, d) + 1
    <3>1. /\ DaysFromJulian(y, m, d + 1) = JulianNo(y, m, d + 1)
          /\ DaysFromJulian(y, m, d) = JulianNo(y, m, d)
          /\ BeforeMonth(m) \in Int /\ Early(m) \in {0, 1}
      BY <1>1, JulianDay
    <3> QED
      BY SMT, <1>1, <3>1 DEF JulianNo
  <2> HIDE DEF c
  <2> QED
    BY <2>1, <2>2 DEF TheDate, c, len
<1>3. CASE d = len /\ m < 12
  <2>1. c = TheDate(y, m + 1, 1)
    BY <1>1, <1>3, NextMonthBegins
  <2>2. DaysFromJulian(y, m + 1, 1) = DaysFromJulian(y, m, d) + 1
    BY <1>3, JulianMonths DEF len
  <2> HIDE DEF c
  <2> QED
    BY <2>1, <2>2 DEF TheDate, c, len
<1>4. CASE d = len /\ m = 12
  <2>1. c = TheDate(y + 1, 1, 1)
    BY <1>1, <1>4, NextYearBegins
  <2>2. DaysFromJulian(y + 1, 1, 1) = DaysFromJulian(y, m, d) + 1
    BY <1>4, JulianMonths DEF len
  <2> HIDE DEF c
  <2> QED
    BY <2>1, <2>2 DEF TheDate, c, len
<1>5. d < len \/ (d = len /\ m < 12) \/ (d = len /\ m = 12)
  BY SMT, <1>1
<1> QED
  BY <1>2, <1>3, <1>4, <1>5

\* The last day of the Julian calendar is followed by the first of the Gregorian one.
LEMMA CalendarsMeet == DaysFromJulian(1582, 10, 5) = DaysFromCivil(1582, 10, 15)
<1>1. DaysFromJulian(1582, 10, 5) = -141427
  BY SMT DEF DaysFromJulian
<1>2. DaysFromCivil(1582, 10, 15) = -141427
  BY SMT DEF DaysFromCivil
<1> QED
  BY SMT, <1>1, <1>2
-----------------------------------------------------------------------------
(* Uniform calendars: a day is the b-th of the a-th month of the q-th year.  *)

\* Multiples keep their order: what is below a product is in an earlier row.
LEMMA Rows ==
  ASSUME NEW k \in Nat \ {0}, NEW n \in Nat \ {0}, NEW a \in Nat
  PROVE  /\ k * n \in Nat \ {0}
         /\ a < n => k * a + k <= k * n
         /\ a >= n => k * a >= k * n
<1>1. k * n \in Nat \ {0} /\ k * a \in Nat
  BY SMT
<1>2. ASSUME a < n PROVE k * a + k <= k * n
  <2>1. PICK x \in Nat : n = (a + 1) + x
    <3>1. n - (a + 1) \in Nat /\ n = (a + 1) + (n - (a + 1))
      BY SMT, <1>2
    <3> QED
      BY <3>1
  <2>2. k * n = k * a + k + k * x /\ k * x \in Nat
    BY SMT, <2>1
  <2> QED
    BY SMT, <1>1, <2>2
<1>3. ASSUME a >= n PROVE k * a >= k * n
  <2>1. PICK x \in Nat : a = n + x
    <3>1. a - n \in Nat /\ a = n + (a - n)
      BY SMT, <1>3
    <3> QED
      BY <3>1
  <2>2. k * a = k * n + k * x /\ k * x \in Nat
    BY SMT, <2>1
  <2> QED
    BY SMT, <1>1, <2>2
<1> QED
  BY <1>1, <1>2, <1>3

\* The day of such a place.
DayOfPlan(k, n, q, a, b) == k * n * q + k * a + b

\* Every day has a place, and its date follows from it.
LEMMA UniformPlace ==
  ASSUME NEW k \in Nat \ {0}, NEW n \in Nat \ {0}, NEW day \in Int
  PROVE  \E q \in Int : \E a \in 0..n - 1 : \E b \in 0..k - 1 : day = DayOfPlan(k, n, q, a, b)
<1> DEFINE year == k * n
           q == day \div year
           rem == day % year
           a == rem \div k
           b == rem % k
<1>1. year \in Nat \ {0}
  BY Rows
<1> HIDE DEF year
<1>2. q \in Int /\ rem \in 0..year - 1 /\ day = year * q + rem
  BY <1>1, Divided
<1> HIDE DEF q, rem
<1>3. rem \in Int
  BY SMT, <1>1, <1>2
<1>4. a \in Int /\ b \in 0..k - 1 /\ rem = k * a + b
  BY <1>3, Divided
<1> HIDE DEF a, b
<1>5. a >= 0
  <2> SUFFICES ASSUME a < 0 PROVE FALSE
    BY SMT, <1>4
  <2>1. PICK x \in Nat : a = -1 - x
    <3>1. -1 - a \in Nat /\ a = -1 - (-1 - a)
      BY SMT, <1>4
    <3> QED
      BY <3>1
  <2>2. k * a = -k - k * x /\ k * x \in Nat
    BY SMT, <2>1
  <2> QED
    BY SMT, <1>1, <1>2, <1>4, <2>2
<1>6. a < n
  <2>1. a \in Nat
    BY SMT, <1>4, <1>5
  <2>2. a >= n => k * a >= year
    BY <2>1, Rows DEF year
  <2>3. k * a \in Int
    BY SMT, <2>1
  <2> QED
    BY SMT, <1>1, <1>2, <1>4, <2>1, <2>2, <2>3
<1>7. a \in 0..n - 1
  BY SMT, <1>4, <1>5, <1>6
<1>8. day = DayOfPlan(k, n, q, a, b)
  <2>1. year * q \in Int /\ k * a \in Int /\ b \in Int
    BY SMT, <1>1, <1>2, <1>4
  <2>2. day = year * q + k * a + b
    BY SMT, <1>2, <1>4, <2>1
  <2> QED
    BY <2>2 DEF DayOfPlan, year
<1> QED
  BY <1>2, <1>4, <1>7, <1>8

\* The date of a place, and the way back.
LEMMA UniformDate ==
  ASSUME NEW cal, cal.kind = "uniform", cal.first \in Int,
         cal.perMonth \in Nat \ {0}, cal.perYear \in Nat \ {0},
         NEW q \in Int, NEW a \in 0..cal.perYear - 1, NEW b \in 0..cal.perMonth - 1,
         NEW day, day = DayOfPlan(cal.perMonth, cal.perYear, q, a, b)
  PROVE  /\ CivilOfDay(cal, day) = TheDate(q + cal.first, a + 1, b + 1)
         /\ DayFromCivil(cal, q + cal.first, a + 1, b + 1) = day
<1> DEFINE k == cal.perMonth
           n == cal.perYear
           f == cal.first
           year == k * n
           rem == k * a + b
<1>0. k \in Nat \ {0} /\ n \in Nat \ {0} /\ f \in Int /\ a \in 0..n - 1 /\ b \in 0..k - 1
  OBVIOUS
<1>1. cal.kind # "gregorian"
  OBVIOUS
<1>2. CivilOfDay(cal, day)
        = [year |-> day \div year + f, month |-> (day % year) \div k + 1, day |-> ((day % year) % k) + 1]
  BY <1>1 DEF CivilOfDay
<1>3. DayFromCivil(cal, q + f, a + 1, b + 1) = ((q + f - f) * n + (a + 1) - 1) * k + (b + 1) - 1
  BY <1>1 DEF DayFromCivil
<1>4. day = k * n * q + k * a + b
  BY DEF DayOfPlan
<1> HIDE DEF k, n, f
<1>5. a \in Nat /\ a \in Int /\ a < n /\ b \in Int /\ 0 <= b /\ b < k
  BY SMT, <1>0
<1>6. year \in Nat \ {0} /\ k * a + k <= year
  BY <1>0, <1>5, Rows
<1> HIDE DEF year
<1>7. rem \in 0..year - 1 /\ rem \in Int
  <2>1. k * a \in Nat
    BY SMT, <1>0, <1>5
  <2> QED
    BY SMT, <1>0, <1>5, <1>6, <2>1
<1>8. rem \div k = a /\ rem % k = b
  BY <1>0, <1>5, DividedOnce
<1> HIDE DEF rem
<1>9. day = year * q + rem
  <2>1. k * n * q \in Int /\ k * a \in Int
    BY SMT, <1>0, <1>5
  <2> QED
    BY SMT, <1>4, <1>5, <2>1 DEF year, rem
<1>10. day \div year = q /\ day % year = rem
  BY <1>6, <1>7, <1>9, DividedOnce
<1>11. CivilOfDay(cal, day) = TheDate(q + f, a + 1, b + 1)
  BY <1>2, <1>8, <1>10 DEF TheDate
<1>12. ((q + f - f) * n + (a + 1) - 1) * k + (b + 1) - 1 = day
  <2>1. (q + f - f) * n + (a + 1) - 1 = q * n + a
    BY SMT, <1>0, <1>5
  <2>2. (q * n + a) * k = k * n * q + k * a
    BY SMT, <1>0, <1>5
  <2> QED
    BY SMT, <1>0, <1>4, <1>5, <2>1, <2>2
<1> QED
  BY <1>3, <1>11, <1>12 DEF f

\* The next day has the next date, and leads back.
LEMMA UniformDays ==
  ASSUME NEW cal, cal.kind = "uniform", cal.first \in Int,
         cal.perMonth \in Nat \ {0}, cal.perYear \in Nat \ {0}, NEW day \in Int
  PROVE  LET c == CivilOfDay(cal, day)
         IN  /\ DayFromCivil(cal, c.year, c.month, c.day) = day
             /\ CivilOfDay(cal, day + 1) = NextDate(c, MonthLength(cal, c.year, c.month), MonthsPerYear(cal))
<1> DEFINE k == cal.perMonth
           n == cal.perYear
           f == cal.first
<1>1. k \in Nat \ {0} /\ n \in Nat \ {0} /\ f \in Int
  OBVIOUS
<1>2. PICK q \in Int : \E a \in 0..n - 1 : \E b \in 0..k - 1 : day = DayOfPlan(k, n, q, a, b)
  BY <1>1, UniformPlace
<1>3. PICK a \in 0..n - 1 : \E b \in 0..k - 1 : day = DayOfPlan(k, n, q, a, b)
  BY <1>2
<1>4. PICK b \in 0..k - 1 : day = DayOfPlan(k, n, q, a, b)
  BY <1>3
<1>5. /\ CivilOfDay(cal, day) = TheDate(q + f, a + 1, b + 1)
      /\ DayFromCivil(cal, q + f, a + 1, b + 1) = day
  BY <1>4, UniformDate
<1>6. cal.kind # "gregorian"
  OBVIOUS
<1>7. MonthLength(cal, q + f, a + 1) = k /\ MonthsPerYear(cal) = n
  BY <1>6 DEF MonthLength, MonthsPerYear
<1>8. ASSUME NEW q2 \in Int, NEW a2 \in 0..n - 1, NEW b2 \in 0..k - 1, day + 1 = DayOfPlan(k, n, q2, a2, b2)
      PROVE  CivilOfDay(cal, day + 1) = TheDate(q2 + f, a2 + 1, b2 + 1)
  BY <1>8, UniformDate
<1> DEFINE dy == q + f
           dm == a + 1
           dd == b + 1
<1>9. dm \in Int /\ dd \in Int /\ dy \in Int /\ k \in Int /\ n \in Int
  BY SMT, <1>1
<1> HIDE DEF k, n, f
<1>10. CivilOfDay(cal, day + 1) = NextDate(TheDate(q + f, a + 1, b + 1), k, n)
  <2>1. CASE b + 1 < k
    <3>1. b + 1 \in 0..k - 1
      BY SMT, <1>1, <2>1
    <3>2. day + 1 = DayOfPlan(k, n, q, a, b + 1)
      <4>1. k * n * q \in Int /\ k * a \in Int
        BY SMT, <1>1
      <4> QED
        BY SMT, <1>4, <4>1 DEF DayOfPlan
    <3>3. CivilOfDay(cal, day + 1) = TheDate(dy, dm, dd + 1)
      BY <1>8, <3>1, <3>2
    <3>4. dd < k
      BY <2>1
    <3> HIDE DEF dy, dm, dd
    <3>5. NextDate(TheDate(dy, dm, dd), k, n) = TheDate(dy, dm, dd + 1)
      BY <1>9, <3>4, NextDateIs
    <3> QED
      BY <3>3, <3>5 DEF dy, dm, dd
  <2>2. CASE b + 1 = k /\ a + 1 < n
    <3>1. a + 1 \in 0..n - 1 /\ 0 \in 0..k - 1 /\ 0 + 1 = 1 /\ b + 1 >= k
      BY SMT, <1>1, <2>2
    <3>2. day + 1 = DayOfPlan(k, n, q, a + 1, 0)
      <4>1. k * n * q \in Int /\ k * a \in Int /\ k * (a + 1) = k * a + k
        BY SMT, <1>1
      <4> QED
        BY SMT, <1>1, <1>4, <2>2, <4>1 DEF DayOfPlan
    <3>3. CivilOfDay(cal, day + 1) = TheDate(dy, dm + 1, 1)
      BY <1>8, <3>1, <3>2
    <3>4. dd >= k /\ dm < n
      BY <2>2, <3>1
    <3> HIDE DEF dy, dm, dd
    <3>5. NextDate(TheDate(dy, dm, dd), k, n) = TheDate(dy, dm + 1, 1)
      BY <1>9, <3>4, NextDateIs
    <3> QED
      BY <3>3, <3>5 DEF dy, dm, dd
  <2>3. CASE b + 1 = k /\ a + 1 = n
    <3>1. q + 1 \in Int /\ 0 \in 0..n - 1 /\ 0 \in 0..k - 1 /\ 0 + 1 = 1 /\ b + 1 >= k /\ a + 1 >= n
      BY SMT, <1>1, <2>3
    <3>2. day + 1 = DayOfPlan(k, n, q + 1, 0, 0)
      <4>1. /\ k * n * q \in Int /\ k * a \in Int /\ k * n \in Int
            /\ k * n * (q + 1) = k * n * q + k * n /\ k * (a + 1) = k * a + k /\ k * 0 = 0
        BY SMT, <1>1
      <4> QED
        BY SMT, <1>1, <1>4, <2>3, <4>1 DEF DayOfPlan
    <3>3. CivilOfDay(cal, day + 1) = TheDate((q + 1) + f, 1, 1)
      BY <1>8, <3>1, <3>2
    <3>4. (q + 1) + f = dy + 1
      BY SMT, <1>1
    <3>5. dd >= k /\ dm >= n
      BY <3>1
    <3> HIDE DEF dy, dm, dd
    <3>6. NextDate(TheDate(dy, dm, dd), k, n) = TheDate(dy + 1, 1, 1)
      BY <1>9, <3>5, NextDateIs
    <3> QED
      BY <3>3, <3>4, <3>6 DEF dy, dm, dd
  <2>4. b + 1 < k \/ (b + 1 = k /\ a + 1 < n) \/ (b + 1 = k /\ a + 1 = n)
    BY SMT, <1>1
  <2> QED
    BY <2>1, <2>2, <2>3, <2>4
<1> QED
  BY <1>5, <1>7, <1>10 DEF TheDate

-----------------------------------------------------------------------------
(* Days of the week.                                                        *)

\* The remainders of consecutive numbers go round.
LEMMA RoundAbout ==
  ASSUME NEW w \in Nat \ {0}, NEW x \in Int
  PROVE  (x + 1) % w = ((x % w) + 1) % w
<1> DEFINE q == x \div w
           r == x % w
<1>1. q \in Int /\ r \in 0..w - 1 /\ x = w * q + r
  BY Divided
<1> HIDE DEF q, r
<1>2. w * q \in Int /\ r \in Int
  BY SMT, <1>1
<1>3. CASE r + 1 < w
  <2>1. r + 1 \in 0..w - 1 /\ x + 1 = w * q + (r + 1) /\ r + 1 = w * 0 + (r + 1) /\ 0 \in Int
    BY SMT, <1>1, <1>2, <1>3
  <2>2. (w * q + (r + 1)) % w = r + 1 /\ (w * 0 + (r + 1)) % w = r + 1
    BY <1>1, <2>1, DividedOnce
  <2> QED
    BY <2>1, <2>2 DEF r
<1>4. CASE r + 1 = w
  <2>1. q + 1 \in Int /\ 0 \in 0..w - 1 /\ x + 1 = w * (q + 1) + 0 /\ r + 1 = w * 1 + 0 /\ 1 \in Int
    BY SMT, <1>1, <1>2, <1>4
  <2>2. (w * (q + 1) + 0) % w = 0 /\ (w * 1 + 0) % w = 0
    BY <1>1, <2>1, DividedOnce
  <2> QED
    BY <2>1, <2>2 DEF r
<1> QED
  BY SMT, <1>1, <1>3, <1>4

\* The next day is the next day of the week.
LEMMA NextWeekday ==
  ASSUME NEW cal, Countable(cal), NEW day \in Int
  PROVE  Weekday(cal, day + 1) = (Weekday(cal, day) + 1) % DaysPerWeek(cal)
<1>1. CASE cal.kind = "gregorian"
  <2>1. (day + 1 + 3) % 7 = (((day + 3) % 7) + 1) % 7
    BY SMT
  <2> QED
    BY <1>1, <2>1 DEF Weekday, DaysPerWeek, WeekdayFromDays
<1>2. CASE cal.kind # "gregorian"
  <2>1. cal.kind = "uniform" /\ cal.perWeek \in Nat \ {0}
    BY <1>2 DEF Countable
  <2>2. (day + 1) % cal.perWeek = ((day % cal.perWeek) + 1) % cal.perWeek
    BY <2>1, RoundAbout
  <2>3. DaysPerWeek(cal) = cal.perWeek
    BY <1>2, <2>1 DEF DaysPerWeek
  <2> QED
    BY <1>2, <2>2, <2>3 DEF Weekday
<1> QED
  BY <1>1, <1>2

-----------------------------------------------------------------------------
(* The questions about days.                                                *)

\* A day of a calendar, the next day and its day of the week.
LEMMA DaysOfCalendar ==
  ASSUME NEW cal, Countable(cal), NEW n \in Int
  PROVE  LET c == CivilOfDay(cal, n)
         IN  /\ DayFromCivil(cal, c.year, c.month, c.day) = n
             /\ CivilOfDay(cal, n + 1) = NextDate(c, MonthLength(cal, c.year, c.month), MonthsPerYear(cal))
<1>1. CASE cal.kind = "gregorian"
  <2>1. \A k : CivilOfDay(cal, k) = CivilFromDays(k)
    BY <1>1 DEF CivilOfDay
  <2>2. /\ \A y, m, d : DayFromCivil(cal, y, m, d) = DaysFromCivil(y, m, d)
        /\ \A y, m : MonthLength(cal, y, m) = DaysInMonth(y, m)
        /\ MonthsPerYear(cal) = 12
    BY <1>1 DEF DayFromCivil, MonthLength, MonthsPerYear
  <2> DEFINE c == CivilFromDays(n)
  <2>3. /\ DaysFromCivil(c.year, c.month, c.day) = n
        /\ CivilFromDays(n + 1) = NextDate(c, DaysInMonth(c.year, c.month), 12)
    BY GregorianDays
  <2> HIDE DEF c
  <2> QED
    BY <2>1, <2>2, <2>3 DEF c
<1>2. CASE cal.kind # "gregorian"
  BY <1>2, UniformDays DEF Countable
<1> QED
  BY <1>1, <1>2

\* What is asked about a day of a calendar is answered as meant.
LEMMA AfterConverts == ASSUME Converts PROVE DaysCounted'
<1>1. PICK cal \in Calendars, n \in Days : question' = [about |-> "day", cal |-> cal, n |-> n]
  BY DEF Converts
<1>2. question'.about = "day" /\ question'.cal = cal /\ question'.n = n /\ question'.about # "julian"
  BY <1>1
<1>3. Countable(cal) /\ n \in Int
  BY LawsAssumption
<1> DEFINE c == CivilOfDay(cal, n)
<1>4. /\ DayFromCivil(cal, c.year, c.month, c.day) = n
      /\ CivilOfDay(cal, n + 1) = NextDate(c, MonthLength(cal, c.year, c.month), MonthsPerYear(cal))
  BY <1>3, DaysOfCalendar
<1>5. Weekday(cal, n + 1) = (Weekday(cal, n) + 1) % DaysPerWeek(cal)
  BY <1>3, NextWeekday
<1> QED
  BY <1>2, <1>4, <1>5 DEF DaysCounted

\* So is what is asked about a date of the Julian calendar.
LEMMA AfterConvertsJulian == ASSUME ConvertsJulian PROVE DaysCounted'
<1>1. PICK y \in JulianYears, m \in 1..12 : \E d \in 1..JulianDaysInMonth(y, m) :
        question' = [about |-> "julian", date |-> [year |-> y, month |-> m, day |-> d]]
  BY DEF ConvertsJulian
<1>2. PICK d \in 1..JulianDaysInMonth(y, m) : question' = [about |-> "julian", date |-> TheDate(y, m, d)]
  BY <1>1 DEF TheDate
<1> DEFINE c == TheDate(y, m, d)
           next == NextDate(c, JulianDaysInMonth(y, m), 12)
<1>3. question'.about = "julian" /\ question'.date = c /\ question'.about # "day"
  BY <1>2
<1>4. y \in Int
  BY LawsAssumption
<1>5. c.year = y /\ c.month = m /\ c.day = d
  BY DEF TheDate
<1>6. DaysFromJulian(next.year, next.month, next.day) = DaysFromJulian(y, m, d) + 1
  BY <1>4, JulianDays
<1>7. c = [year |-> 1582, month |-> 10, day |-> 5] =>
        DaysFromJulian(c.year, c.month, c.day) = DaysFromCivil(1582, 10, 15)
  <2>1. ASSUME c = [year |-> 1582, month |-> 10, day |-> 5]
        PROVE  DaysFromJulian(c.year, c.month, c.day) = DaysFromJulian(1582, 10, 5)
    BY SMT, <2>1
  <2> HIDE DEF c
  <2> QED
    BY <2>1, CalendarsMeet
<1> HIDE DEF c
<1> QED
  BY <1>3, <1>5, <1>6, <1>7 DEF DaysCounted

\* Counting days and naming them go together, in every calendar that days can be counted in
\* and on both sides of the Julian calendar's end (days_from_civil, civil_from_days,
\* civil_of_day, days_from_julian).
THEOREM CountedRight == Spec => []DaysCounted
<1>1. Init => DaysCounted
  BY DEF Init, Subjects, DaysCounted
<1>2. ASSUME DaysCounted, [Next]_question PROVE DaysCounted'
  <2>1. CASE question' = question
    BY <1>2, <2>1 DEF DaysCounted
  <2>2. CASE AsksTime
    <3>1. ASSUME question'.about \notin {"day", "julian"} PROVE DaysCounted'
      BY <3>1 DEF DaysCounted
    <3>2. CASE Relate
      BY <3>1, <3>2 DEF Relate
    <3>3. CASE Overlaps
      BY <3>1, <3>3 DEF Overlaps
    <3>4. CASE Compounds
      BY <3>1, <3>4 DEF Compounds
    <3>5. CASE Nears
      BY <3>1, <3>5 DEF Nears
    <3>6. CASE Writes
      BY <3>1, <3>6 DEF Writes
    <3>7. CASE Recurs
      BY <3>1, <3>7 DEF Recurs
    <3>8. CASE CountsMonths
      BY <3>1, <3>8 DEF CountsMonths
    <3>9. CASE CountsWeeks
      BY <3>1, <3>9 DEF CountsWeeks
    <3>10. CASE RefersToEvents
      BY <3>1, <3>10 DEF RefersToEvents
    <3> QED
      BY <2>2, <3>2, <3>3, <3>4, <3>5, <3>6, <3>7, <3>8, <3>9, <3>10, AfterConverts, AfterConvertsJulian DEF AsksTime
  <2>3. CASE AsksIndexes
    <3>1. question'.about \notin {"day", "julian"}
      BY <2>3 DEF AsksIndexes, FindsSpans, FindsPlacements, FindsTexts
    <3> QED
      BY <3>1 DEF DaysCounted
  <2>4. CASE AsksHistory
    <3>1. question'.about \notin {"day", "julian"}
      BY <2>4 DEF AsksHistory, Pages, PagesOfText
    <3> QED
      BY <3>1 DEF DaysCounted
  <2> QED
    BY <1>2, <2>1, <2>2, <2>3, <2>4 DEF Next
<1> QED
  BY <1>1, <1>2, PTL DEF Spec

-----------------------------------------------------------------------------
(* The bounds between endpoints.                                            *)

Matrix == [Node \X Node -> Int]

Constraint == [from : 1..4, to : 1..4, strict : BOOLEAN]

\* The pairs of Node by their parts.
LEMMA Entries ==
  ASSUME NEW d \in Matrix, NEW i \in Node, NEW j \in Node
  PROVE  <<i, j>> \in Node \X Node /\ d[<<i, j>>] \in Int
BY DEF Matrix

\* No bound is a number.
LEMMA InfinityIs == Infinity \in Int /\ Infinity > 0
BY TicksAssumption DEF Infinity

\* An entry after a round through k.
LEMMA ThroughIs ==
  ASSUME NEW d \in Matrix, NEW k \in Node
  PROVE  /\ Through(d, k) \in Matrix
         /\ \A i, j \in Node :
              Through(d, k)[<<i, j>>] =
                IF d[<<i, k>>] = Infinity \/ d[<<k, j>>] = Infinity THEN d[<<i, j>>]
                ELSE Smaller(d[<<i, j>>], d[<<i, k>>] + d[<<k, j>>])
<1>1. ASSUME NEW i \in Node, NEW j \in Node
      PROVE  /\ Through(d, k)[<<i, j>>] =
                  IF d[<<i, k>>] = Infinity \/ d[<<k, j>>] = Infinity THEN d[<<i, j>>]
                  ELSE Smaller(d[<<i, j>>], d[<<i, k>>] + d[<<k, j>>])
             /\ Through(d, k)[<<i, j>>] \in Int
  <2>1. Through(d, k)[<<i, j>>] =
          IF d[<<i, k>>] = Infinity \/ d[<<k, j>>] = Infinity THEN d[<<i, j>>]
          ELSE Smaller(d[<<i, j>>], d[<<i, k>>] + d[<<k, j>>])
    BY DEF Through
  <2>2. d[<<i, k>>] \in Int /\ d[<<k, j>>] \in Int /\ d[<<i, j>>] \in Int
    BY Entries
  <2> QED
    BY <2>1, <2>2 DEF Smaller
<1>2. Through(d, k) \in Matrix
  <2>1. ASSUME NEW p \in Node \X Node PROVE Through(d, k)[p] \in Int
    <3>1. PICK i \in Node, j \in Node : p = <<i, j>>
      OBVIOUS
    <3> QED
      BY <1>1, <3>1
  <2>2. Through(d, k) = [p \in Node \X Node |-> Through(d, k)[p]]
    BY DEF Through
  <2> QED
    BY <2>1, <2>2 DEF Matrix
<1> QED
  BY <1>1, <1>2

\* e is d but for one entry, which is at most w.
TightensTo(d, i, j, w, e) ==
  /\ e \in Matrix
  /\ \A k, l \in Node : e[<<k, l>>] = IF k = i /\ l = j THEN Smaller(d[<<i, j>>], w) ELSE d[<<k, l>>]

\* An entry with another bound.
LEMMA TightenedIs ==
  ASSUME NEW d \in Matrix, NEW i \in Node, NEW j \in Node, NEW w \in Int
  PROVE  TightensTo(d, i, j, w, Tightened(d, <<i, j>>, w))
<1>1. <<i, j>> \in Node \X Node /\ d[<<i, j>>] \in Int
  BY Entries
<1>2. Smaller(d[<<i, j>>], w) \in Int
  BY <1>1 DEF Smaller
<1> QED
  BY <1>1, <1>2 DEF TightensTo, Tightened, Matrix

\* What holds of the differences between the values x.
Respects(x, d, P) == \A i, j \in Node : <<i, j>> \in P /\ d[<<i, j>>] # Infinity => x[j] - x[i] <= d[<<i, j>>]

Values == [Node -> Int]

MeetsConstraint(x, c) == IF c.strict THEN x[c.from] < x[c.to] ELSE x[c.from] = x[c.to]

\* Nothing that holds is lost by a round of paths.
LEMMA RespectsThrough ==
  ASSUME NEW d \in Matrix, NEW k \in Node, NEW x \in Values, NEW P,
         \A i, j \in Node : <<i, j>> \in P => <<i, k>> \in P /\ <<k, j>> \in P,
         Respects(x, d, P)
  PROVE  Respects(x, Through(d, k), P)
<1> SUFFICES ASSUME NEW i \in Node, NEW j \in Node, <<i, j>> \in P, Through(d, k)[<<i, j>>] # Infinity
             PROVE  x[j] - x[i] <= Through(d, k)[<<i, j>>]
  BY DEF Respects
<1>1. x[i] \in Int /\ x[j] \in Int /\ x[k] \in Int
  BY DEF Values
<1>2. d[<<i, k>>] \in Int /\ d[<<k, j>>] \in Int /\ d[<<i, j>>] \in Int
  BY Entries
<1>3. d[<<i, k>>] # Infinity => x[k] - x[i] <= d[<<i, k>>]
  BY DEF Respects
<1>4. d[<<k, j>>] # Infinity => x[j] - x[k] <= d[<<k, j>>]
  BY DEF Respects
<1>5. d[<<i, j>>] # Infinity => x[j] - x[i] <= d[<<i, j>>]
  BY DEF Respects
<1>6. Through(d, k)[<<i, j>>] =
        IF d[<<i, k>>] = Infinity \/ d[<<k, j>>] = Infinity THEN d[<<i, j>>]
        ELSE Smaller(d[<<i, j>>], d[<<i, k>>] + d[<<k, j>>])
  BY ThroughIs
<1> QED
  BY <1>1, <1>2, <1>3, <1>4, <1>5, <1>6, InfinityIs DEF Smaller

\* Nor by a bound that holds.
LEMMA RespectsTightened ==
  ASSUME NEW d \in Matrix, NEW i \in Node, NEW j \in Node, NEW w \in Int, NEW x \in Values, NEW P,
         x[j] - x[i] <= w, Respects(x, d, P)
  PROVE  Respects(x, Tightened(d, <<i, j>>, w), P)
<1> SUFFICES ASSUME NEW k \in Node, NEW l \in Node, <<k, l>> \in P, Tightened(d, <<i, j>>, w)[<<k, l>>] # Infinity
             PROVE  x[l] - x[k] <= Tightened(d, <<i, j>>, w)[<<k, l>>]
  BY DEF Respects
<1>1. d[<<i, j>>] \in Int /\ d[<<k, l>>] \in Int
  BY Entries
<1>2. Tightened(d, <<i, j>>, w)[<<k, l>>] = IF k = i /\ l = j THEN Smaller(d[<<i, j>>], w) ELSE d[<<k, l>>]
  BY TightenedIs DEF TightensTo
<1>3. d[<<k, l>>] # Infinity => x[l] - x[k] <= d[<<k, l>>]
  BY DEF Respects
<1>4. x[i] \in Int /\ x[j] \in Int
  BY DEF Values
<1>5. CASE k = i /\ l = j
  BY <1>1, <1>2, <1>3, <1>4, <1>5, InfinityIs DEF Smaller
<1>6. CASE ~ (k = i /\ l = j)
  BY <1>2, <1>3, <1>6
<1> QED
  BY <1>5, <1>6

\* A constraint tightens entries, as much as it says.
LEMMA WithConstraintIs ==
  ASSUME NEW d \in Matrix, NEW c \in Constraint
  PROVE  /\ WithConstraint(d, c) \in Matrix
         /\ \A i, j \in Node : WithConstraint(d, c)[<<i, j>>] <= d[<<i, j>>]
         /\ \A i, j \in Node : \/ WithConstraint(d, c)[<<i, j>>] = d[<<i, j>>]
                               \/ i \in 1..4 /\ j \in 1..4 /\ WithConstraint(d, c)[<<i, j>>] <= 0
         /\ WithConstraint(d, c)[<<c.to, c.from>>] <= IF c.strict THEN -1 ELSE 0
         /\ ~ c.strict => WithConstraint(d, c)[<<c.from, c.to>>] <= 0
<1>1. /\ c.from \in 1..4 /\ c.to \in 1..4 /\ c.strict \in BOOLEAN
      /\ c.from \in Node /\ c.to \in Node
  BY DEF Constraint, Node
<1>2. PICK f \in Node, t \in Node : f = c.from /\ t = c.to
  BY <1>1
<1>4. \A i, j \in Node : d[<<i, j>>] \in Int
  BY Entries
<1>5. CASE c.strict
  <2>1. PICK w \in Int : w = -1
    OBVIOUS
  <2>2. TightensTo(d, t, f, w, Tightened(d, <<t, f>>, w))
    BY TightenedIs
  <2>3. WithConstraint(d, c) = Tightened(d, <<t, f>>, w)
    BY <1>2, <1>5, <2>1 DEF WithConstraint
  <2>4. TightensTo(d, t, f, w, WithConstraint(d, c))
    BY <2>2, <2>3
  <2> QED
    BY <1>1, <1>2, <1>4, <1>5, <2>1, <2>4 DEF Smaller, TightensTo
<1>6. CASE ~ c.strict
  <2>1. PICK e, w : w = 0 /\ e = Tightened(d, <<t, f>>, w)
    OBVIOUS
  <2>2. TightensTo(d, t, f, w, e)
    BY <2>1, TightenedIs
  <2>3. e \in Matrix /\ WithConstraint(d, c) = Tightened(e, <<f, t>>, w)
    BY <1>2, <1>6, <2>1, <2>2 DEF WithConstraint, TightensTo
  <2>4. TightensTo(e, f, t, w, WithConstraint(d, c))
    <3>1. TightensTo(e, f, t, w, Tightened(e, <<f, t>>, w))
      BY <2>1, <2>3, TightenedIs
    <3> QED
      BY <2>3, <3>1
  <2>5. \A i, j \in Node : e[<<i, j>>] \in Int
    BY <2>3, Entries
  <2> QED
    BY <1>1, <1>2, <1>4, <1>6, <2>1, <2>2, <2>4, <2>5 DEF Smaller, TightensTo
<1> QED
  BY <1>1, <1>5, <1>6

\* A constraint that is met is respected.
LEMMA RespectsConstraint ==
  ASSUME NEW d \in Matrix, NEW c \in Constraint, NEW x \in Values, NEW P,
         MeetsConstraint(x, c), Respects(x, d, P)
  PROVE  Respects(x, WithConstraint(d, c), P)
<1>1. /\ c.from \in Node /\ c.to \in Node /\ c.strict \in BOOLEAN
  BY DEF Constraint, Node
<1>2. x[c.from] \in Int /\ x[c.to] \in Int
  BY <1>1 DEF Values
<1>3. CASE c.strict
  <2>1. x[c.from] - x[c.to] <= -1
    BY <1>2, <1>3 DEF MeetsConstraint
  <2> QED
    BY <1>1, <1>3, <2>1, RespectsTightened DEF WithConstraint
<1>4. CASE ~ c.strict
  <2>1. x[c.from] - x[c.to] <= 0 /\ x[c.to] - x[c.from] <= 0
    BY <1>2, <1>4 DEF MeetsConstraint
  <2>2. Respects(x, Tightened(d, <<c.to, c.from>>, 0), P)
    BY <1>1, <2>1, RespectsTightened
  <2>3. Tightened(d, <<c.to, c.from>>, 0) \in Matrix
    BY <1>1, TightenedIs DEF TightensTo
  <2> QED
    BY <1>1, <1>4, <2>1, <2>2, <2>3, RespectsTightened DEF WithConstraint
<1> QED
  BY <1>1, <1>3, <1>4

-----------------------------------------------------------------------------
(* The constraints of a relation, one after another.                        *)

\* What the recursion of Constrained computes.
LEMMA ConstrainedIs ==
  ASSUME NEW d \in Matrix, NEW cs \in Seq(Constraint)
  PROVE  \E f \in [0..Len(cs) -> Matrix] :
           /\ f[0] = d
           /\ \A m \in 1..Len(cs) : f[m] = WithConstraint(f[m - 1], cs[m])
           /\ Constrained(d, cs) = f[Len(cs)]
<1> DEFINE n == Len(cs)
           next == [p \in (1..n) \X Matrix |-> WithConstraint(p[2], cs[p[1]])]
           Body(g) == [m \in 0..Len(cs) |-> IF m = 0 THEN d ELSE WithConstraint(g[m - 1], cs[m])]
           with == CHOOSE g : g = Body(g)
<1>1. n \in Nat
  OBVIOUS
<1>2. next \in [(1..n) \X Matrix -> Matrix]
  <2>1. ASSUME NEW p \in (1..n) \X Matrix
        PROVE  WithConstraint(p[2], cs[p[1]]) \in Matrix
    <3>1. p[2] \in Matrix /\ cs[p[1]] \in Constraint
      OBVIOUS
    <3> QED
      BY <3>1, WithConstraintIs
  <2> QED
    BY <2>1
<1> HIDE DEF Body, with
<1>4. PICK g \in [0..n -> Matrix] : Steps(g, n, d, next)
  <2> HIDE DEF next, n
  <2> QED
    BY <1>1, <1>2, StepsExist
<1>5. ASSUME NEW m \in 1..n
      PROVE  g[m] = WithConstraint(g[m - 1], cs[m])
  <2>1. m - 1 \in 0..n
    BY <1>1
  <2>2. g[m] = next[<<m, g[m - 1]>>]
    BY <1>4 DEF Steps
  <2>3. <<m, g[m - 1]>> \in (1..n) \X Matrix
    BY <2>1
  <2> QED
    BY <2>2, <2>3
<1>6. g[0] = d
  BY <1>4 DEF Steps
<1> HIDE DEF next
<1>7. ASSUME NEW h
      PROVE  Body(h)[0] = d /\ \A m \in 1..n : Body(h)[m] = WithConstraint(h[m - 1], cs[m])
  <2>1. Body(h)[0] = d
    BY <1>1 DEF Body
  <2>2. ASSUME NEW m \in 1..n
        PROVE  Body(h)[m] = WithConstraint(h[m - 1], cs[m])
    <3>1. m \in 0..n /\ m # 0
      BY <1>1
    <3> QED
      BY <3>1 DEF Body
  <2> QED
    BY <2>1, <2>2
<1>8. g = Body(g)
  <2>1. Body(g) = [m \in 0..n |-> Body(g)[m]]
    BY DEF Body
  <2>2. g = [m \in 0..n |-> g[m]]
    OBVIOUS
  <2>3. ASSUME NEW m \in 0..n
        PROVE  Body(g)[m] = g[m]
    <3>1. CASE m = 0
      BY <1>6, <1>7, <3>1
    <3>2. CASE m \in 1..n
      BY <1>5, <1>7, <3>2
    <3> QED
      BY <1>1, <3>1, <3>2
  <2> QED
    BY <2>1, <2>2, <2>3
<1>9. with = Body(with)
  BY <1>8 DEF with
<1>10. with[0] = d /\ \A m \in 1..n : with[m] = WithConstraint(with[m - 1], cs[m])
  BY <1>7, <1>9
<1>11. 0..n \subseteq {m \in 0..n : with[m] = g[m]}
  <2> DEFINE S == {m \in 0..n : with[m] = g[m]}
  <2>1. 0 \in S
    BY <1>1, <1>6, <1>10
  <2>2. ASSUME NEW m \in 1..n, m - 1 \in S
        PROVE  m \in S
    BY <1>1, <1>5, <1>10, <2>2
  <2> HIDE DEF S
  <2>3. 0..n \subseteq S
    BY <1>1, <2>1, <2>2, InductionUpTo
  <2> QED
    BY <2>3 DEF S
<1>12. Constrained(d, cs) = with[n]
  BY DEF Constrained, with, Body
<1> QED
  BY <1>1, <1>5, <1>6, <1>11, <1>12

\* What the recursion of ShortestPaths computes: five rounds.
LEMMA ShortestPathsIs ==
  ASSUME NEW d \in Matrix
  PROVE  \E f \in [0..5 -> Matrix] :
           /\ f[0] = d
           /\ \A k \in 1..5 : f[k] = Through(f[k - 1], k)
           /\ ShortestPaths(d) = f[5]
<1> DEFINE next == [p \in (1..5) \X Matrix |-> Through(p[2], p[1])]
           Body(g) == [k \in 0..5 |-> IF k = 0 THEN d ELSE Through(g[k - 1], k)]
           through == CHOOSE g : g = Body(g)
<1>2. next \in [(1..5) \X Matrix -> Matrix]
  <2>1. ASSUME NEW p \in (1..5) \X Matrix
        PROVE  Through(p[2], p[1]) \in Matrix
    <3>1. p[2] \in Matrix /\ p[1] \in Node
      BY DEF Node
    <3> QED
      BY <3>1, ThroughIs
  <2> QED
    BY <2>1
<1> HIDE DEF Body, through
<1>4. PICK g \in [0..5 -> Matrix] : Steps(g, 5, d, next)
  <2> HIDE DEF next
  <2> QED
    BY <1>2, StepsExist
<1>5. ASSUME NEW k \in 1..5
      PROVE  g[k] = Through(g[k - 1], k)
  <2>1. k - 1 \in 0..5
    OBVIOUS
  <2>2. g[k] = next[<<k, g[k - 1]>>]
    BY <1>4 DEF Steps
  <2>3. <<k, g[k - 1]>> \in (1..5) \X Matrix
    BY <2>1
  <2> QED
    BY <2>2, <2>3
<1>6. g[0] = d
  BY <1>4 DEF Steps
<1> HIDE DEF next
<1>7. ASSUME NEW h
      PROVE  Body(h)[0] = d /\ \A k \in 1..5 : Body(h)[k] = Through(h[k - 1], k)
  BY DEF Body
<1>8. g = Body(g)
  <2>1. Body(g) = [k \in 0..5 |-> Body(g)[k]]
    BY DEF Body
  <2>2. g = [k \in 0..5 |-> g[k]]
    OBVIOUS
  <2>3. ASSUME NEW k \in 0..5
        PROVE  Body(g)[k] = g[k]
    <3>1. CASE k = 0
      BY <1>6, <1>7, <3>1
    <3>2. CASE k \in 1..5
      BY <1>5, <1>7, <3>2
    <3> QED
      BY <3>1, <3>2
  <2> QED
    BY <2>1, <2>2, <2>3
<1>9. through = Body(through)
  BY <1>8 DEF through
<1>10. through[0] = d /\ \A k \in 1..5 : through[k] = Through(through[k - 1], k)
  BY <1>7, <1>9
<1>11. 0..5 \subseteq {k \in 0..5 : through[k] = g[k]}
  <2> DEFINE S == {k \in 0..5 : through[k] = g[k]}
  <2>1. 0 \in S
    BY <1>6, <1>10
  <2>2. ASSUME NEW k \in 1..5, k - 1 \in S
        PROVE  k \in S
    BY <1>5, <1>10, <2>2
  <2> HIDE DEF S
  <2>3. 0..5 \subseteq S
    BY <2>1, <2>2, InductionUpTo
  <2> QED
    BY <2>3 DEF S
<1>12. ShortestPaths(d) = through[5]
  BY DEF ShortestPaths, through, Body
<1> QED
  BY <1>5, <1>6, <1>11, <1>12

\* What a constraint asks of the bounds.
Bounded(e, c) ==
  /\ e[<<c.to, c.from>>] <= IF c.strict THEN -1 ELSE 0
  /\ ~ c.strict => e[<<c.from, c.to>>] <= 0

\* e is d but for bounds of endpoints by each other that are at most 0.
Under(d, e) ==
  /\ e \in Matrix
  /\ \A i, j \in Node : e[<<i, j>>] <= d[<<i, j>>]
  /\ \A i, j \in Node : e[<<i, j>>] = d[<<i, j>>] \/ (i \in 1..4 /\ j \in 1..4 /\ e[<<i, j>>] <= 0)

\* What is under one matrix is under those that it is under.
LEMMA UnderUnder ==
  ASSUME NEW d \in Matrix, NEW e \in Matrix, NEW f, Under(d, e), Under(e, f)
  PROVE  Under(d, f)
<1>1. f \in Matrix
  BY DEF Under
<1>2. ASSUME NEW i \in Node, NEW j \in Node
      PROVE  /\ f[<<i, j>>] <= d[<<i, j>>]
             /\ f[<<i, j>>] = d[<<i, j>>] \/ (i \in 1..4 /\ j \in 1..4 /\ f[<<i, j>>] <= 0)
  <2>1. d[<<i, j>>] \in Int /\ e[<<i, j>>] \in Int /\ f[<<i, j>>] \in Int
    BY <1>1, Entries
  <2>2. /\ e[<<i, j>>] <= d[<<i, j>>] /\ f[<<i, j>>] <= e[<<i, j>>]
        /\ e[<<i, j>>] = d[<<i, j>>] \/ (i \in 1..4 /\ j \in 1..4 /\ e[<<i, j>>] <= 0)
        /\ f[<<i, j>>] = e[<<i, j>>] \/ (i \in 1..4 /\ j \in 1..4 /\ f[<<i, j>>] <= 0)
    BY DEF Under
  <2> QED
    BY <2>1, <2>2
<1> QED
  BY <1>1, <1>2 DEF Under

\* The bounds with a constraint are under those without, and are what it asks for.
LEMMA ConstraintUnder ==
  ASSUME NEW d \in Matrix, NEW c \in Constraint
  PROVE  Under(d, WithConstraint(d, c)) /\ Bounded(WithConstraint(d, c), c)
<1>1. PICK e : e = WithConstraint(d, c)
  OBVIOUS
<1>2. /\ e \in Matrix
      /\ \A i, j \in Node : e[<<i, j>>] <= d[<<i, j>>]
      /\ \A i, j \in Node : e[<<i, j>>] = d[<<i, j>>] \/ (i \in 1..4 /\ j \in 1..4 /\ e[<<i, j>>] <= 0)
      /\ e[<<c.to, c.from>>] <= IF c.strict THEN -1 ELSE 0
      /\ ~ c.strict => e[<<c.from, c.to>>] <= 0
  BY <1>1, WithConstraintIs
<1>3. Under(d, e) /\ Bounded(e, c)
  BY <1>2 DEF Under, Bounded
<1> QED
  BY <1>1, <1>3

\* And stay so under others.
LEMMA StaysBounded ==
  ASSUME NEW d \in Matrix, NEW e, Under(d, e), NEW c \in Constraint, Bounded(d, c)
  PROVE  Bounded(e, c)
<1>1. c.from \in Node /\ c.to \in Node /\ c.strict \in BOOLEAN
  BY DEF Constraint, Node
<1>2. e \in Matrix
  BY DEF Under
<1>3. /\ d[<<c.to, c.from>>] \in Int /\ e[<<c.to, c.from>>] \in Int
      /\ d[<<c.from, c.to>>] \in Int /\ e[<<c.from, c.to>>] \in Int
  BY <1>1, <1>2, Entries
<1>4. e[<<c.to, c.from>>] <= d[<<c.to, c.from>>] /\ e[<<c.from, c.to>>] <= d[<<c.from, c.to>>]
  BY <1>1 DEF Under
<1>5. CASE c.strict
  <2>1. d[<<c.to, c.from>>] <= -1
    BY <1>5 DEF Bounded
  <2>2. e[<<c.to, c.from>>] <= -1
    BY <1>3, <1>4, <2>1
  <2> QED
    BY <1>5, <2>2 DEF Bounded
<1>6. CASE ~ c.strict
  <2>1. d[<<c.to, c.from>>] <= 0 /\ d[<<c.from, c.to>>] <= 0
    BY <1>6 DEF Bounded
  <2>2. e[<<c.to, c.from>>] <= 0 /\ e[<<c.from, c.to>>] <= 0
    BY <1>3, <1>4, <2>1
  <2> QED
    BY <1>6, <2>2 DEF Bounded
<1> QED
  BY <1>1, <1>5, <1>6

\* All constraints tighten the bounds as much as they say.
LEMMA ConstrainedBounds ==
  ASSUME NEW d \in Matrix, NEW cs \in Seq(Constraint)
  PROVE  /\ Under(d, Constrained(d, cs))
         /\ \A m \in 1..Len(cs) : Bounded(Constrained(d, cs), cs[m])
<1> DEFINE n == Len(cs)
<1>1. PICK f \in [0..n -> Matrix] :
        /\ f[0] = d
        /\ \A m \in 1..n : f[m] = WithConstraint(f[m - 1], cs[m])
        /\ Constrained(d, cs) = f[n]
  BY ConstrainedIs
<1>2. n \in Nat
  OBVIOUS
<1> DEFINE S == {m \in 0..n : Under(d, f[m]) /\ \A k \in 1..m : Bounded(f[m], cs[k])}
<1>3. 0 \in S
  <2>1. \A i, j \in Node : d[<<i, j>>] \in Int
    BY Entries
  <2>2. Under(d, d)
    BY <2>1 DEF Under
  <2>3. Under(d, f[0])
    BY <1>1, <2>2
  <2> QED
    BY <1>2, <2>3
<1>4. ASSUME NEW m \in 1..n, m - 1 \in S
      PROVE  m \in S
  <2>1. f[m - 1] \in Matrix /\ cs[m] \in Constraint /\ f[m] = WithConstraint(f[m - 1], cs[m])
    BY <1>1, <1>2
  <2>2. Under(f[m - 1], f[m]) /\ Bounded(f[m], cs[m])
    BY <2>1, ConstraintUnder
  <2>3. Under(d, f[m])
    BY <1>4, <2>1, <2>2, UnderUnder
  <2>4. ASSUME NEW k \in 1..m
        PROVE  Bounded(f[m], cs[k])
    <3>1. CASE k = m
      BY <2>2, <3>1
    <3>2. CASE k \in 1..(m - 1)
      <4>1. Bounded(f[m - 1], cs[k])
        BY <1>4, <3>2
      <4>2. cs[k] \in Constraint
        BY <1>2
      <4> QED
        BY <2>1, <2>2, <4>1, <4>2, StaysBounded
    <3> QED
      BY <1>2, <3>1, <3>2
  <2> QED
    BY <1>2, <2>3, <2>4
<1> HIDE DEF S
<1>5. 0..n \subseteq S
  BY <1>2, <1>3, <1>4, InductionUpTo
<1> QED
  BY <1>1, <1>2, <1>5 DEF S

\* Values that meet all constraints respect the bounds with them.
LEMMA RespectsConstrained ==
  ASSUME NEW d \in Matrix, NEW cs \in Seq(Constraint), NEW x \in Values, NEW P,
         \A m \in 1..Len(cs) : MeetsConstraint(x, cs[m]), Respects(x, d, P)
  PROVE  Respects(x, Constrained(d, cs), P)
<1> DEFINE n == Len(cs)
<1>1. PICK f \in [0..n -> Matrix] :
        /\ f[0] = d
        /\ \A m \in 1..n : f[m] = WithConstraint(f[m - 1], cs[m])
        /\ Constrained(d, cs) = f[n]
  BY ConstrainedIs
<1>2. n \in Nat
  OBVIOUS
<1> DEFINE S == {m \in 0..n : Respects(x, f[m], P)}
<1>3. 0 \in S
  BY <1>1, <1>2
<1>4. ASSUME NEW m \in 1..n, m - 1 \in S
      PROVE  m \in S
  <2>1. f[m - 1] \in Matrix /\ cs[m] \in Constraint /\ f[m] = WithConstraint(f[m - 1], cs[m])
    BY <1>1, <1>2
  <2>2. Respects(x, f[m - 1], P) /\ MeetsConstraint(x, cs[m])
    BY <1>4
  <2>3. Respects(x, f[m], P)
    BY <2>1, <2>2, RespectsConstraint
  <2> QED
    BY <1>2, <2>3
<1> HIDE DEF S
<1>5. 0..n \subseteq S
  BY <1>2, <1>3, <1>4, InductionUpTo
<1> QED
  BY <1>1, <1>2, <1>5 DEF S

-----------------------------------------------------------------------------
(* Shortest paths.                                                          *)

\* The most that a bound can be, if there is one.
Cap(i, j) ==
  IF i = Origin /\ j # Origin THEN MaxInt - 1
  ELSE IF i # Origin /\ j = Origin THEN -MinInt - 1
  ELSE 0

Small(d) == \A i, j \in Node : d[<<i, j>>] = Infinity \/ d[<<i, j>>] <= Cap(i, j)

\* No path from endpoint to endpoint has a node on itself.
Rooted(d) == \A i \in Node : d[<<i, i>>] <= 0

\* No detour through m is shorter.
Direct(d, m) ==
  \A i, j \in Node :
    d[<<i, m>>] # Infinity /\ d[<<m, j>>] # Infinity
      => d[<<i, j>>] # Infinity /\ d[<<i, j>>] <= d[<<i, m>>] + d[<<m, j>>]

\* What a round through an endpoint makes of an entry.
LEMMA ThroughEntry ==
  ASSUME NEW d \in Matrix, Small(d), Rooted(d), NEW k \in 1..4, NEW i \in Node, NEW j \in Node
  PROVE  /\ d[<<i, j>>] \in Int /\ d[<<i, k>>] \in Int /\ d[<<k, j>>] \in Int
         /\ Through(d, k)[<<i, j>>] \in Int
         /\ Through(d, k)[<<i, j>>] <= d[<<i, j>>]
         /\ Through(d, k)[<<i, j>>] = Infinity \/ Through(d, k)[<<i, j>>] <= Cap(i, j)
         /\ Through(d, k)[<<i, j>>] = d[<<i, j>>]
              \/ (d[<<i, k>>] # Infinity /\ d[<<k, j>>] # Infinity /\ Through(d, k)[<<i, j>>] = d[<<i, k>>] + d[<<k, j>>])
         /\ d[<<i, k>>] # Infinity /\ d[<<k, j>>] # Infinity
              => /\ Through(d, k)[<<i, j>>] # Infinity
                 /\ Through(d, k)[<<i, j>>] <= d[<<i, k>>] + d[<<k, j>>]
         /\ d[<<i, j>>] # Infinity => Through(d, k)[<<i, j>>] # Infinity
<1>1. k \in Node /\ k # Origin
  BY DEF Node, Origin
<1>2. d[<<i, j>>] \in Int /\ d[<<i, k>>] \in Int /\ d[<<k, j>>] \in Int
  BY <1>1, Entries
<1>3. PICK v : v = Through(d, k)[<<i, j>>]
  OBVIOUS
<1>4. v = IF d[<<i, k>>] = Infinity \/ d[<<k, j>>] = Infinity THEN d[<<i, j>>]
          ELSE Smaller(d[<<i, j>>], d[<<i, k>>] + d[<<k, j>>])
  BY <1>1, <1>3, ThroughIs
<1>5. /\ d[<<i, j>>] = Infinity \/ d[<<i, j>>] <= Cap(i, j)
      /\ d[<<i, k>>] = Infinity \/ d[<<i, k>>] <= Cap(i, k)
      /\ d[<<k, j>>] = Infinity \/ d[<<k, j>>] <= Cap(k, j)
      /\ i = j => d[<<i, j>>] <= 0
  BY <1>1 DEF Small, Rooted
<1>6. MaxInt \in Int /\ MinInt \in Int /\ MinInt < 0 /\ MaxInt > 0 /\ Infinity = MaxInt - MinInt
  BY TicksAssumption DEF Infinity
<1> QED
  BY <1>1, <1>2, <1>3, <1>4, <1>5, <1>6 DEF Cap, Smaller

\* A round keeps what a matrix has to be.
LEMMA ThroughKeeps ==
  ASSUME NEW d \in Matrix, Small(d), Rooted(d), NEW k \in 1..4
  PROVE  /\ Through(d, k) \in Matrix /\ Small(Through(d, k)) /\ Rooted(Through(d, k))
         /\ \A i, j \in Node : Through(d, k)[<<i, j>>] <= d[<<i, j>>]
         /\ \A i, j \in Node : d[<<i, j>>] # Infinity => Through(d, k)[<<i, j>>] # Infinity
<1>1. k \in Node
  BY DEF Node
<1>2. Through(d, k) \in Matrix
  BY <1>1, ThroughIs
<1>3. Small(Through(d, k))
  BY ThroughEntry DEF Small
<1>4. \A i, j \in Node : Through(d, k)[<<i, j>>] <= d[<<i, j>>]
  BY ThroughEntry
<1>5. \A i, j \in Node : d[<<i, j>>] # Infinity => Through(d, k)[<<i, j>>] # Infinity
  BY ThroughEntry
<1>6. ASSUME NEW i \in Node PROVE Through(d, k)[<<i, i>>] <= 0
  <2>1. d[<<i, i>>] <= 0
    BY DEF Rooted
  <2>2. d[<<i, i>>] \in Int /\ Through(d, k)[<<i, i>>] \in Int
    BY ThroughEntry
  <2> QED
    BY <1>4, <2>1, <2>2
<1> QED
  BY <1>2, <1>3, <1>4, <1>5, <1>6 DEF Rooted

\* After the round through k, no detour through k is shorter.
LEMMA DirectOnce ==
  ASSUME NEW d \in Matrix, Small(d), Rooted(d), NEW k \in 1..4, d[<<k, k>>] >= 0
  PROVE  Direct(Through(d, k), k)
<1> SUFFICES ASSUME NEW i \in Node, NEW j \in Node,
                    Through(d, k)[<<i, k>>] # Infinity, Through(d, k)[<<k, j>>] # Infinity
             PROVE  /\ Through(d, k)[<<i, j>>] # Infinity
                    /\ Through(d, k)[<<i, j>>] <= Through(d, k)[<<i, k>>] + Through(d, k)[<<k, j>>]
  BY DEF Direct
<1>1. k \in Node
  BY DEF Node
<1>2. PICK kk : kk = d[<<k, k>>]
  OBVIOUS
<1>3. kk \in Int /\ kk >= 0 /\ kk <= 0
  BY <1>1, <1>2, Entries DEF Rooted
<1>4. Through(d, k)[<<i, k>>] = d[<<i, k>>]
  <2>1. /\ d[<<i, k>>] \in Int
        /\ Through(d, k)[<<i, k>>] = d[<<i, k>>] \/ Through(d, k)[<<i, k>>] = d[<<i, k>>] + kk
    BY <1>1, <1>2, ThroughEntry
  <2> QED
    BY <1>3, <2>1
<1>5. Through(d, k)[<<k, j>>] = d[<<k, j>>]
  <2>1. /\ d[<<k, j>>] \in Int
        /\ Through(d, k)[<<k, j>>] = d[<<k, j>>] \/ Through(d, k)[<<k, j>>] = kk + d[<<k, j>>]
    BY <1>1, <1>2, ThroughEntry
  <2> QED
    BY <1>3, <2>1
<1> QED
  BY <1>4, <1>5, ThroughEntry

\* And none through a node of which that was so before.
LEMMA StaysDirect ==
  ASSUME NEW d \in Matrix, Small(d), Rooted(d), NEW k \in 1..4, d[<<k, k>>] >= 0, NEW m \in 1..4, Direct(d, m)
  PROVE  Direct(Through(d, k), m)
<1> SUFFICES ASSUME NEW i \in Node, NEW j \in Node,
                    Through(d, k)[<<i, m>>] # Infinity, Through(d, k)[<<m, j>>] # Infinity
             PROVE  /\ Through(d, k)[<<i, j>>] # Infinity
                    /\ Through(d, k)[<<i, j>>] <= Through(d, k)[<<i, m>>] + Through(d, k)[<<m, j>>]
  BY DEF Direct
<1>1. k \in Node /\ m \in Node
  BY DEF Node
<1> DEFINE e(a, b) == Through(d, k)[<<a, b>>]
           c(a, b) == d[<<a, b>>]
<1>2. \A a, b \in Node : /\ c(a, b) \in Int /\ e(a, b) \in Int /\ e(a, b) <= c(a, b)
                         /\ e(a, b) = c(a, b) \/ (c(a, k) # Infinity /\ c(k, b) # Infinity /\ e(a, b) = c(a, k) + c(k, b))
                         /\ c(a, k) # Infinity /\ c(k, b) # Infinity => e(a, b) # Infinity /\ e(a, b) <= c(a, k) + c(k, b)
                         /\ c(a, b) # Infinity => e(a, b) # Infinity
  BY ThroughEntry
<1>3. \A a, b \in Node : c(a, m) # Infinity /\ c(m, b) # Infinity => c(a, b) # Infinity /\ c(a, b) <= c(a, m) + c(m, b)
  BY DEF Direct
<1>4. c(k, k) >= 0
  OBVIOUS
<1> HIDE DEF e, c
<1>5. e(i, m) # Infinity /\ e(m, j) # Infinity
  BY DEF e
<1>6. e(i, j) # Infinity /\ e(i, j) <= e(i, m) + e(m, j)
  <2>1. CASE e(i, m) = c(i, m) /\ e(m, j) = c(m, j)
    <3>1. c(i, j) # Infinity /\ c(i, j) <= c(i, m) + c(m, j)
      BY <1>1, <1>3, <1>5, <2>1
    <3>2. /\ c(i, j) \in Int /\ e(i, j) \in Int /\ e(i, j) <= c(i, j)
          /\ e(i, j) # Infinity /\ c(i, m) \in Int /\ c(m, j) \in Int
      BY <1>1, <1>2, <3>1
    <3> QED
      BY <2>1, <3>1, <3>2
  <2>2. CASE e(i, m) = c(i, m) /\ e(m, j) # c(m, j)
    <3>1. c(m, k) # Infinity /\ c(k, j) # Infinity /\ e(m, j) = c(m, k) + c(k, j)
      BY <1>1, <1>2, <2>2
    <3>2. c(i, k) # Infinity /\ c(i, k) <= c(i, m) + c(m, k)
      BY <1>1, <1>3, <1>5, <2>2, <3>1
    <3>3. e(i, j) # Infinity /\ e(i, j) <= c(i, k) + c(k, j)
      BY <1>1, <1>2, <3>1, <3>2
    <3>4. e(i, j) \in Int /\ c(i, k) \in Int /\ c(k, j) \in Int /\ c(i, m) \in Int /\ c(m, k) \in Int
      BY <1>1, <1>2
    <3> QED
      BY <2>2, <3>1, <3>2, <3>3, <3>4
  <2>3. CASE e(i, m) # c(i, m) /\ e(m, j) = c(m, j)
    <3>1. c(i, k) # Infinity /\ c(k, m) # Infinity /\ e(i, m) = c(i, k) + c(k, m)
      BY <1>1, <1>2, <2>3
    <3>2. c(k, j) # Infinity /\ c(k, j) <= c(k, m) + c(m, j)
      BY <1>1, <1>3, <1>5, <2>3, <3>1
    <3>3. e(i, j) # Infinity /\ e(i, j) <= c(i, k) + c(k, j)
      BY <1>1, <1>2, <3>1, <3>2
    <3>4. e(i, j) \in Int /\ c(i, k) \in Int /\ c(k, j) \in Int /\ c(m, j) \in Int /\ c(k, m) \in Int
      BY <1>1, <1>2
    <3> QED
      BY <2>3, <3>1, <3>2, <3>3, <3>4
  <2>4. CASE e(i, m) # c(i, m) /\ e(m, j) # c(m, j)
    <3>1. c(i, k) # Infinity /\ c(k, m) # Infinity /\ e(i, m) = c(i, k) + c(k, m)
      BY <1>1, <1>2, <2>4
    <3>2. c(m, k) # Infinity /\ c(k, j) # Infinity /\ e(m, j) = c(m, k) + c(k, j)
      BY <1>1, <1>2, <2>4
    <3>3. c(k, k) <= c(k, m) + c(m, k)
      BY <1>1, <1>3, <3>1, <3>2
    <3>4. e(i, j) # Infinity /\ e(i, j) <= c(i, k) + c(k, j)
      BY <1>1, <1>2, <3>1, <3>2
    <3>5. /\ e(i, j) \in Int /\ c(i, k) \in Int /\ c(k, j) \in Int
          /\ c(k, m) \in Int /\ c(m, k) \in Int /\ c(k, k) \in Int
      BY <1>1, <1>2
    <3> QED
      BY <1>4, <3>1, <3>2, <3>3, <3>4, <3>5
  <2> QED
    BY <2>1, <2>2, <2>3, <2>4
<1> QED
  BY <1>6 DEF e

-----------------------------------------------------------------------------
(* Paths keep what their bounds kept, and are closed in the end.            *)

\* Paths between the nodes of pairs of P do not leave them at an endpoint.
PathsStay(P) == \A i, j \in Node : \A k \in 1..4 : <<i, j>> \in P => <<i, k>> \in P /\ <<k, j>> \in P

\* All that respects d respects e too.
NothingLost(d, e) == \A x \in Values : \A P : PathsStay(P) /\ Respects(x, d, P) => Respects(x, e, P)

\* The entries of e are at most those of d.
Below(d, e) ==
  /\ \A i, j \in Node : e[<<i, j>>] <= d[<<i, j>>]
  /\ \A i, j \in Node : d[<<i, j>>] # Infinity => e[<<i, j>>] # Infinity

\* A matrix that bounds between endpoints may be.
Sound(d) == d \in Matrix /\ Small(d) /\ Rooted(d)

NoCircle(d) == \A n \in Node : d[<<n, n>>] >= 0

\* What a round through an endpoint does.
LEMMA Round ==
  ASSUME NEW d, Sound(d), NEW k \in 1..4
  PROVE  /\ Sound(Through(d, k)) /\ Below(d, Through(d, k)) /\ NothingLost(d, Through(d, k))
         /\ NoCircle(Through(d, k)) => NoCircle(d)
         /\ NoCircle(d) => Direct(Through(d, k), k)
         /\ NoCircle(d) => \A m \in 1..4 : Direct(d, m) => Direct(Through(d, k), m)
<1>1. d \in Matrix /\ Small(d) /\ Rooted(d) /\ k \in Node
  BY DEF Sound, Node
<1>2. Sound(Through(d, k))
  BY <1>1, ThroughKeeps DEF Sound
<1>3. Below(d, Through(d, k))
  BY <1>1, ThroughKeeps DEF Below
<1>4. NothingLost(d, Through(d, k))
  <2> SUFFICES ASSUME NEW x \in Values, NEW P, PathsStay(P), Respects(x, d, P)
               PROVE  Respects(x, Through(d, k), P)
    BY DEF NothingLost
  <2>1. \A i, j \in Node : <<i, j>> \in P => <<i, k>> \in P /\ <<k, j>> \in P
    BY DEF PathsStay
  <2> QED
    BY <1>1, <2>1, RespectsThrough
<1>5. ASSUME NoCircle(Through(d, k)) PROVE NoCircle(d)
  <2> SUFFICES ASSUME NEW n \in Node PROVE d[<<n, n>>] >= 0
    BY DEF NoCircle
  <2>1. PICK e : e = Through(d, k)
    OBVIOUS
  <2>2. e[<<n, n>>] >= 0 /\ e[<<n, n>>] <= d[<<n, n>>]
    BY <1>3, <1>5, <2>1 DEF NoCircle, Below
  <2>3. e[<<n, n>>] \in Int /\ d[<<n, n>>] \in Int
    BY <1>1, <1>2, <2>1, Entries DEF Sound
  <2> QED
    BY <2>2, <2>3
<1>6. ASSUME NoCircle(d) PROVE d[<<k, k>>] >= 0
  BY <1>1, <1>6 DEF NoCircle
<1>7. NoCircle(d) => Direct(Through(d, k), k)
  BY <1>1, <1>6, DirectOnce
<1>8. NoCircle(d) => \A m \in 1..4 : Direct(d, m) => Direct(Through(d, k), m)
  BY <1>1, <1>6, StaysDirect
<1> QED
  BY <1>2, <1>3, <1>4, <1>5, <1>7, <1>8

\* What is below one matrix is below those that it is below.
LEMMA BelowBelow ==
  ASSUME NEW d, NEW e, NEW f, Sound(d), Sound(e), Sound(f), Below(d, e), Below(e, f)
  PROVE  Below(d, f)
<1>1. \A i, j \in Node : d[<<i, j>>] \in Int /\ e[<<i, j>>] \in Int /\ f[<<i, j>>] \in Int
  <2>1. d \in Matrix /\ e \in Matrix /\ f \in Matrix
    BY DEF Sound
  <2> QED
    BY <2>1, Entries
<1>2. \A i, j \in Node : e[<<i, j>>] <= d[<<i, j>>] /\ f[<<i, j>>] <= e[<<i, j>>]
  BY DEF Below
<1>3. ASSUME NEW i \in Node, NEW j \in Node PROVE f[<<i, j>>] <= d[<<i, j>>]
  <2>1. PICK u \in Int, v \in Int, w \in Int : u = d[<<i, j>>] /\ v = e[<<i, j>>] /\ w = f[<<i, j>>]
    BY <1>1
  <2>2. v <= u /\ w <= v
    BY <1>2, <2>1
  <2>3. w <= u
    BY <2>2
  <2> QED
    BY <2>1, <2>3
<1>4. \A i, j \in Node : d[<<i, j>>] # Infinity => f[<<i, j>>] # Infinity
  BY DEF Below
<1> QED
  BY <1>3, <1>4 DEF Below

\* The bounds that follow through the endpoints.
Closure(e, g) ==
  /\ Sound(g) /\ Below(e, g) /\ NothingLost(e, g) /\ NoCircle(g)
  /\ \A m \in 1..4 : Direct(g, m)

\* Without a negative circle in the end, there is none on the way, and no detour is shorter
\* after the rounds through the endpoints.
LEMMA Rounds ==
  ASSUME NEW e, Sound(e), NoCircle(ShortestPaths(e))
  PROVE  \E g : Closure(e, g)
<1>1. e \in Matrix
  BY DEF Sound
<1>2. PICK f \in [0..5 -> Matrix] :
        /\ f[0] = e
        /\ \A k \in 1..5 : f[k] = Through(f[k - 1], k)
        /\ ShortestPaths(e) = f[5]
  BY <1>1, ShortestPathsIs
<1>3. PICK d1, d2, d3, d4 :
        /\ d1 = Through(e, 1) /\ d2 = Through(d1, 2) /\ d3 = Through(d2, 3) /\ d4 = Through(d3, 4)
        /\ ShortestPaths(e) = Through(d4, 5)
  <2>1. /\ f[1] = Through(e, 1) /\ f[2] = Through(f[1], 2) /\ f[3] = Through(f[2], 3) /\ f[4] = Through(f[3], 4)
        /\ ShortestPaths(e) = Through(f[4], 5)
    BY <1>2
  <2> QED
    BY <2>1
<1>4. /\ Sound(d1) /\ Below(e, d1) /\ NothingLost(e, d1)
      /\ NoCircle(d1) => NoCircle(e)
      /\ NoCircle(e) => Direct(d1, 1)
  BY <1>3, Round
<1>5. /\ Sound(d2) /\ Below(d1, d2) /\ NothingLost(d1, d2)
      /\ NoCircle(d2) => NoCircle(d1)
      /\ NoCircle(d1) => Direct(d2, 2)
      /\ NoCircle(d1) => \A m \in 1..4 : Direct(d1, m) => Direct(d2, m)
  BY <1>3, <1>4, Round
<1>6. /\ Sound(d3) /\ Below(d2, d3) /\ NothingLost(d2, d3)
      /\ NoCircle(d3) => NoCircle(d2)
      /\ NoCircle(d2) => Direct(d3, 3)
      /\ NoCircle(d2) => \A m \in 1..4 : Direct(d2, m) => Direct(d3, m)
  BY <1>3, <1>5, Round
<1>7. /\ Sound(d4) /\ Below(d3, d4) /\ NothingLost(d3, d4)
      /\ NoCircle(d4) => NoCircle(d3)
      /\ NoCircle(d3) => Direct(d4, 4)
      /\ NoCircle(d3) => \A m \in 1..4 : Direct(d3, m) => Direct(d4, m)
  BY <1>3, <1>6, Round
<1>8. NoCircle(d4)
  <2> SUFFICES ASSUME NEW n \in Node PROVE d4[<<n, n>>] >= 0
    BY DEF NoCircle
  <2>1. d4 \in Matrix /\ 5 \in Node
    BY <1>7 DEF Sound, Node
  <2>2. PICK v : v = Through(d4, 5)[<<n, n>>]
    OBVIOUS
  <2>3. v = IF d4[<<n, 5>>] = Infinity \/ d4[<<5, n>>] = Infinity THEN d4[<<n, n>>]
            ELSE Smaller(d4[<<n, n>>], d4[<<n, 5>>] + d4[<<5, n>>])
    BY <2>1, <2>2, ThroughIs
  <2>4. d4[<<n, n>>] \in Int /\ d4[<<n, 5>>] \in Int /\ d4[<<5, n>>] \in Int
    BY <2>1, Entries
  <2>5. v >= 0
    BY <1>3, <2>2 DEF NoCircle
  <2> QED
    BY <2>3, <2>4, <2>5 DEF Smaller
<1>9. NoCircle(d3) /\ NoCircle(d2) /\ NoCircle(d1) /\ NoCircle(e)
  BY <1>4, <1>5, <1>6, <1>7, <1>8
<1>10. \A m \in 1..4 : Direct(d4, m)
  <2>1. Direct(d2, 1) /\ Direct(d2, 2)
    BY <1>4, <1>5, <1>9
  <2>2. Direct(d3, 1) /\ Direct(d3, 2) /\ Direct(d3, 3)
    BY <1>6, <1>9, <2>1
  <2>3. Direct(d4, 1) /\ Direct(d4, 2) /\ Direct(d4, 3) /\ Direct(d4, 4)
    BY <1>7, <1>9, <2>2
  <2> QED
    BY <2>3
<1>11. Below(e, d4)
  <2>1. Below(e, d2)
    BY <1>4, <1>5, BelowBelow
  <2>2. Below(e, d3)
    BY <1>5, <1>6, <2>1, BelowBelow
  <2> QED
    BY <1>6, <1>7, <2>2, BelowBelow
<1>12. NothingLost(e, d4)
  BY <1>4, <1>5, <1>6, <1>7 DEF NothingLost
<1> QED
  BY <1>7, <1>8, <1>10, <1>11, <1>12 DEF Closure

\* What respects the bounds respects the shortest paths, which then have no negative circle.
LEMMA NoCircleThen ==
  ASSUME NEW e \in Matrix, NEW x \in Values, Respects(x, e, Node \X Node)
  PROVE  NoCircle(ShortestPaths(e))
<1>1. PICK f \in [0..5 -> Matrix] :
        /\ f[0] = e
        /\ \A k \in 1..5 : f[k] = Through(f[k - 1], k)
        /\ ShortestPaths(e) = f[5]
  BY ShortestPathsIs
<1> DEFINE S == {k \in 0..5 : Respects(x, f[k], Node \X Node)}
<1>2. 0 \in S
  BY <1>1
<1>3. ASSUME NEW k \in 1..5, k - 1 \in S
      PROVE  k \in S
  <2>1. f[k - 1] \in Matrix /\ Respects(x, f[k - 1], Node \X Node) /\ k \in Node
    BY <1>3 DEF Node
  <2>2. \A i, j \in Node : <<i, j>> \in Node \X Node => <<i, k>> \in Node \X Node /\ <<k, j>> \in Node \X Node
    BY <2>1
  <2>3. Respects(x, Through(f[k - 1], k), Node \X Node)
    BY <2>1, <2>2, RespectsThrough
  <2> QED
    BY <1>1, <2>3
<1> HIDE DEF S
<1>4. 0..5 \subseteq S
  BY <1>2, <1>3, InductionUpTo
<1>5. f[5] \in Matrix /\ Respects(x, f[5], Node \X Node)
  BY <1>4 DEF S
<1>6. ASSUME NEW n \in Node PROVE f[5][<<n, n>>] >= 0
  <2>1. f[5][<<n, n>>] \in Int /\ x[n] \in Int
    BY <1>5, Entries DEF Values
  <2>2. f[5][<<n, n>>] # Infinity => x[n] - x[n] <= f[5][<<n, n>>]
    BY <1>5 DEF Respects
  <2> QED
    BY <2>1, <2>2, InfinityIs
<1> QED
  BY <1>1, <1>6 DEF NoCircle

-----------------------------------------------------------------------------
(* The bounds of two ranges are those of their endpoints in sight.          *)

\* The first and the last tick that an endpoint may be at.
LowEnd(a, b, n) == CASE n = 1 -> a.es [] n = 2 -> a.ee [] n = 3 -> b.es [] n = 4 -> b.ee
HighEnd(a, b, n) == CASE n = 1 -> a.ls [] n = 2 -> a.le [] n = 3 -> b.ls [] n = 4 -> b.le

Low(t) == IF t = NegInf THEN -Horizon ELSE t
High(t) == IF t = PosInf THEN Horizon ELSE t

\* The horizon is on the axis.
LEMMA HorizonIs ==
  /\ Horizon \in Int /\ Horizon >= 3 /\ MinInt \in Int /\ MaxInt \in Int
  /\ MinInt < -Horizon /\ Horizon < MaxInt /\ NegInf = MinInt /\ PosInf = MaxInt
BY TicksAssumption, RangesAssumption DEF NegInf, PosInf

\* What the ends of a range in sight are.
LEMMA EndsInSight ==
  ASSUME NEW a, NEW b, InSightRange(a), InSightRange(b), NEW n \in 1..4
  PROVE  /\ LowEnd(a, b, n) \in Int /\ HighEnd(a, b, n) \in Int
         /\ LowEnd(a, b, n) = NegInf \/ (LowEnd(a, b, n) <= Horizon - 3 /\ -(Horizon - 3) <= LowEnd(a, b, n))
         /\ HighEnd(a, b, n) = PosInf \/ (HighEnd(a, b, n) <= Horizon - 3 /\ -(Horizon - 3) <= HighEnd(a, b, n))
         /\ Finite(LowEnd(a, b, n)) <=> LowEnd(a, b, n) # NegInf
         /\ Finite(HighEnd(a, b, n)) <=> HighEnd(a, b, n) # PosInf
<1>1. \A r, t : InSightRange(r) /\ t \in {r.es, r.ee} => t = NegInf \/ InSight(t)
  BY DEF InSightRange
<1>2. \A r, t : InSightRange(r) /\ t \in {r.ls, r.le} => t = PosInf \/ InSight(t)
  BY DEF InSightRange
<1>3. LowEnd(a, b, n) = NegInf \/ InSight(LowEnd(a, b, n))
  BY <1>1 DEF LowEnd
<1>4. HighEnd(a, b, n) = PosInf \/ InSight(HighEnd(a, b, n))
  BY <1>2 DEF HighEnd
<1>5. ASSUME NEW t, InSight(t)
      PROVE  t \in Int /\ t <= Horizon - 3 /\ -(Horizon - 3) <= t /\ t # NegInf /\ t # PosInf
  BY <1>5, HorizonIs DEF InSight
<1>6. NegInf \in Int /\ PosInf \in Int /\ NegInf # PosInf
  BY HorizonIs
<1> QED
  BY <1>3, <1>4, <1>5, <1>6 DEF Finite

\* Two nodes are a pair.
LEMMA PairOfNodes ==
  ASSUME NEW i \in Node, NEW j \in Node
  PROVE  \E p \in Node \X Node : p = <<i, j>> /\ p[1] = i /\ p[2] = j
<1>1. <<i, j>> \in Node \X Node /\ <<i, j>>[1] = i /\ <<i, j>>[2] = j
  OBVIOUS
<1>2. PICK p : p = <<i, j>>
  OBVIOUS
<1>3. p \in Node \X Node /\ p[1] = i /\ p[2] = j
  BY <1>1, <1>2
<1> QED
  BY <1>2, <1>3

\* The bounds of the endpoints of two ranges.
LEMMA BoundsAre ==
  ASSUME NEW a, NEW b, InSightRange(a), InSightRange(b)
  PROVE  /\ \A n \in 1..4 : Bounds(a, b)[<<n, 5>>] = IF LowEnd(a, b, n) = NegInf THEN Infinity ELSE -LowEnd(a, b, n)
         /\ \A n \in 1..4 : Bounds(a, b)[<<5, n>>] = IF HighEnd(a, b, n) = PosInf THEN Infinity ELSE HighEnd(a, b, n)
         /\ \A n \in Node : Bounds(a, b)[<<n, n>>] = 0
         /\ Bounds(a, b)[<<2, 1>>] = -1 /\ Bounds(a, b)[<<4, 3>>] = -1
         /\ \A i, j \in 1..4 : i # j /\ <<i, j>> # <<2, 1>> /\ <<i, j>> # <<4, 3>> => Bounds(a, b)[<<i, j>>] = Infinity
<1> DEFINE lo == <<a.es, a.ee, b.es, b.ee>>
           hi == <<a.ls, a.le, b.ls, b.le>>
           B == Bounds(a, b)
<1>1. \A n \in 1..4 : lo[n] = LowEnd(a, b, n) /\ hi[n] = HighEnd(a, b, n)
  BY DEF LowEnd, HighEnd
<1>2. ASSUME NEW p \in Node \X Node
      PROVE  /\ p[1] = p[2] => B[p] = 0
             /\ p[1] # 5 /\ p[2] = 5 => B[p] = IF Finite(lo[p[1]]) THEN -lo[p[1]] ELSE Infinity
             /\ p[1] = 5 /\ p[2] # 5 => B[p] = IF Finite(hi[p[2]]) THEN hi[p[2]] ELSE Infinity
             /\ p[1] # 5 /\ p[2] # 5 /\ p[1] # p[2] /\ p \in {<<2, 1>>, <<4, 3>>} => B[p] = -1
             /\ p[1] # 5 /\ p[2] # 5 /\ p[1] # p[2] /\ p \notin {<<2, 1>>, <<4, 3>>} => B[p] = Infinity
  <2>1. B[p] =
        CASE p[1] = p[2] -> 0
          [] p[1] # 5 /\ p[2] = 5 -> IF Finite(lo[p[1]]) THEN -lo[p[1]] ELSE Infinity
          [] p[1] = 5 /\ p[2] # 5 -> IF Finite(hi[p[2]]) THEN hi[p[2]] ELSE Infinity
          [] p \in {<<2, 1>>, <<4, 3>>} -> -1
          [] OTHER -> Infinity
    BY DEF Bounds, BoundsFor, S1, S2, E1, E2, Origin
  <2>2. p \in {<<2, 1>>, <<4, 3>>} => p[1] # p[2] /\ p[1] # 5 /\ p[2] # 5
    OBVIOUS
  <2> HIDE DEF B, lo, hi
  <2>3. CASE p[1] = p[2]
    BY <2>1, <2>2, <2>3
  <2>4. CASE p[1] # p[2] /\ p[2] = 5
    BY <2>1, <2>2, <2>4
  <2>5. CASE p[1] # p[2] /\ p[1] = 5
    BY <2>1, <2>2, <2>5
  <2>6. CASE p[1] # p[2] /\ p[1] # 5 /\ p[2] # 5
    BY <2>1, <2>6
  <2> QED
    BY <2>3, <2>4, <2>5, <2>6
<1> HIDE DEF B, lo, hi
<1>3. ASSUME NEW n \in 1..4
      PROVE  B[<<n, 5>>] = IF LowEnd(a, b, n) = NegInf THEN Infinity ELSE -LowEnd(a, b, n)
  <2>1. PICK p \in Node \X Node : p = <<n, 5>> /\ p[1] = n /\ p[2] = 5
    <3>1. n \in Node /\ 5 \in Node
      BY DEF Node
    <3> QED
      BY <3>1, PairOfNodes
  <2>2. B[p] = IF Finite(lo[n]) THEN -lo[n] ELSE Infinity
    BY <1>2, <2>1
  <2>3. Finite(LowEnd(a, b, n)) <=> LowEnd(a, b, n) # NegInf
    BY EndsInSight
  <2> QED
    BY <1>1, <2>1, <2>2, <2>3
<1>4. ASSUME NEW n \in 1..4
      PROVE  B[<<5, n>>] = IF HighEnd(a, b, n) = PosInf THEN Infinity ELSE HighEnd(a, b, n)
  <2>1. PICK p \in Node \X Node : p = <<5, n>> /\ p[1] = 5 /\ p[2] = n
    <3>1. n \in Node /\ 5 \in Node
      BY DEF Node
    <3> QED
      BY <3>1, PairOfNodes
  <2>2. B[p] = IF Finite(hi[n]) THEN hi[n] ELSE Infinity
    BY <1>2, <2>1
  <2>3. Finite(HighEnd(a, b, n)) <=> HighEnd(a, b, n) # PosInf
    BY EndsInSight
  <2> QED
    BY <1>1, <2>1, <2>2, <2>3
<1>5. ASSUME NEW n \in Node PROVE B[<<n, n>>] = 0
  <2>1. PICK p \in Node \X Node : p = <<n, n>> /\ p[1] = n /\ p[2] = n
    BY PairOfNodes
  <2> QED
    BY <1>2, <2>1
<1>6. ASSUME NEW i \in 1..4, NEW j \in 1..4, i # j
      PROVE  B[<<i, j>>] = IF <<i, j>> \in {<<2, 1>>, <<4, 3>>} THEN -1 ELSE Infinity
  <2>1. PICK p \in Node \X Node : p = <<i, j>> /\ p[1] = i /\ p[2] = j
    <3>1. i \in Node /\ j \in Node
      BY DEF Node
    <3> QED
      BY <3>1, PairOfNodes
  <2>2. i # 5 /\ j # 5
    OBVIOUS
  <2> QED
    BY <1>2, <1>6, <2>1, <2>2
<1>7. B[<<2, 1>>] = -1 /\ B[<<4, 3>>] = -1
  BY <1>6
<1>8. \A i, j \in 1..4 : i # j /\ <<i, j>> # <<2, 1>> /\ <<i, j>> # <<4, 3>> => B[<<i, j>>] = Infinity
  BY <1>6
<1> QED
  BY <1>3, <1>4, <1>5, <1>7, <1>8 DEF B

\* They are what the rounds ask for.
LEMMA BoundsSound ==
  ASSUME NEW a, NEW b, InSightRange(a), InSightRange(b)
  PROVE  Sound(Bounds(a, b))
<1> DEFINE B == Bounds(a, b)
<1>1. ASSUME NEW i \in Node, NEW j \in Node
      PROVE  /\ B[<<i, j>>] \in Int
             /\ B[<<i, j>>] = Infinity \/ B[<<i, j>>] <= Cap(i, j)
             /\ i = j => B[<<i, j>>] <= 0
  <2>1. (i = 5 \/ i \in 1..4) /\ (j = 5 \/ j \in 1..4)
    BY DEF Node
  <2>2. CASE i = j
    <3>1. B[<<i, j>>] = 0
      BY <2>2, BoundsAre
    <3> QED
      BY <2>2, <3>1 DEF Cap
  <2>3. CASE i = 5 /\ j \in 1..4
    <3>1. B[<<i, j>>] = IF HighEnd(a, b, j) = PosInf THEN Infinity ELSE HighEnd(a, b, j)
      BY <2>3, BoundsAre
    <3>2. /\ HighEnd(a, b, j) \in Int
          /\ HighEnd(a, b, j) = PosInf \/ HighEnd(a, b, j) <= Horizon - 3
      BY <2>3, EndsInSight
    <3>3. Cap(i, j) = MaxInt - 1
      BY <2>3 DEF Cap, Origin
    <3> QED
      BY <2>3, <3>1, <3>2, <3>3, HorizonIs, InfinityIs
  <2>4. CASE i \in 1..4 /\ j = 5
    <3>1. B[<<i, j>>] = IF LowEnd(a, b, i) = NegInf THEN Infinity ELSE -LowEnd(a, b, i)
      BY <2>4, BoundsAre
    <3>2. /\ LowEnd(a, b, i) \in Int
          /\ LowEnd(a, b, i) = NegInf \/ -(Horizon - 3) <= LowEnd(a, b, i)
      BY <2>4, EndsInSight
    <3>3. Cap(i, j) = -MinInt - 1
      BY <2>4 DEF Cap, Origin
    <3> QED
      BY <2>4, <3>1, <3>2, <3>3, HorizonIs, InfinityIs
  <2>5. CASE i \in 1..4 /\ j \in 1..4 /\ i # j
    <3>1. B[<<i, j>>] = Infinity \/ B[<<i, j>>] = -1
      BY <2>5, BoundsAre
    <3>2. Cap(i, j) = 0
      BY <2>5 DEF Cap, Origin
    <3> QED
      BY <2>5, <3>1, <3>2, InfinityIs
  <2> QED
    BY <2>1, <2>2, <2>3, <2>4, <2>5
<1>2. B \in Matrix
  <2>1. B = [p \in Node \X Node |-> B[p]]
    BY DEF Bounds, BoundsFor
  <2>2. ASSUME NEW p \in Node \X Node PROVE B[p] \in Int
    <3>1. PICK i \in Node, j \in Node : p = <<i, j>>
      OBVIOUS
    <3> QED
      BY <1>1, <3>1
  <2> QED
    BY <2>1, <2>2 DEF Matrix
<1>3. Small(B)
  BY <1>1 DEF Small
<1>4. Rooted(B)
  BY <1>1 DEF Rooted
<1> QED
  BY <1>2, <1>3, <1>4 DEF Sound

\* And what is under them too.
LEMMA UnderSound ==
  ASSUME NEW d, NEW e, Sound(d), Under(d, e)
  PROVE  Sound(e)
<1>1. d \in Matrix /\ Small(d) /\ Rooted(d) /\ e \in Matrix
  BY DEF Sound, Under
<1>2. ASSUME NEW i \in Node, NEW j \in Node
      PROVE  /\ e[<<i, j>>] = Infinity \/ e[<<i, j>>] <= Cap(i, j)
             /\ i = j => e[<<i, j>>] <= 0
  <2>1. d[<<i, j>>] \in Int /\ e[<<i, j>>] \in Int
    BY <1>1, Entries
  <2>2. e[<<i, j>>] = d[<<i, j>>] \/ (i \in 1..4 /\ j \in 1..4 /\ e[<<i, j>>] <= 0)
    BY DEF Under
  <2>3. /\ d[<<i, j>>] = Infinity \/ d[<<i, j>>] <= Cap(i, j)
        /\ i = j => d[<<i, j>>] <= 0
    BY <1>1 DEF Small, Rooted
  <2>4. i \in 1..4 /\ j \in 1..4 => Cap(i, j) = 0
    BY DEF Cap, Origin
  <2> QED
    BY <2>1, <2>2, <2>3, <2>4
<1>3. Small(e)
  BY <1>2 DEF Small
<1>4. Rooted(e)
  BY <1>2 DEF Rooted
<1> QED
  BY <1>1, <1>3, <1>4 DEF Sound

-----------------------------------------------------------------------------
(* A choice of two intervals makes its relation feasible.                   *)

\* An interval that a range may stand for, as its horizon shows it.
LEMMA InIntervals ==
  ASSUME NEW r, InSightRange(r)
  PROVE  /\ Intervals(r, Horizon) \subseteq Interval
         /\ \A i \in Interval : i \in Intervals(r, Horizon)
              <=> Low(r.es) <= i.s /\ i.s <= High(r.ls) /\ Low(r.ee) <= i.e /\ i.e <= High(r.le)
<1> DEFINE least(t) == IF t = NegInf THEN -Horizon ELSE IF t = PosInf THEN Horizon ELSE t
<1>1. ASSUME NEW t, InSight(t)
      PROVE  t \in Int /\ t # NegInf /\ t # PosInf
  BY <1>1, HorizonIs DEF InSight
<1>2. NegInf # PosInf /\ Horizon \in Int
  BY HorizonIs
<1>3. /\ least(r.es) = Low(r.es) /\ Low(r.es) \in Int
      /\ least(r.ee) = Low(r.ee) /\ Low(r.ee) \in Int
  BY <1>1, <1>2 DEF Low, InSightRange
<1>4. /\ least(r.ls) = High(r.ls) /\ High(r.ls) \in Int
      /\ least(r.le) = High(r.le) /\ High(r.le) \in Int
  BY <1>1, <1>2 DEF High, InSightRange
<1>5. Intervals(r, Horizon) =
        {i \in [s : least(r.es)..least(r.ls), e : least(r.ee)..least(r.le)] : i.s < i.e}
  BY DEF Intervals
<1> HIDE DEF least
<1>6. Intervals(r, Horizon) =
        {i \in [s : Low(r.es)..High(r.ls), e : Low(r.ee)..High(r.le)] : i.s < i.e}
  BY <1>3, <1>4, <1>5
<1>7. Intervals(r, Horizon) \subseteq Interval
  BY <1>3, <1>4, <1>6 DEF Interval
<1>8. ASSUME NEW i \in Interval
      PROVE  i \in Intervals(r, Horizon)
               <=> Low(r.es) <= i.s /\ i.s <= High(r.ls) /\ Low(r.ee) <= i.e /\ i.e <= High(r.le)
  <2>1. i \in [s : Int, e : Int] /\ i.s \in Int /\ i.e \in Int /\ i.s < i.e
    BY DEF Interval
  <2>2. i \in [s : Low(r.es)..High(r.ls), e : Low(r.ee)..High(r.le)]
          <=> i.s \in Low(r.es)..High(r.ls) /\ i.e \in Low(r.ee)..High(r.le)
    BY <2>1
  <2> QED
    BY <1>3, <1>4, <1>6, <2>1, <2>2
<1> QED
  BY <1>7, <1>8

\* Two intervals, endpoint by endpoint.
LEMMA StandingFor ==
  ASSUME NEW a, NEW b, InSightRange(a), InSightRange(b), NEW i \in Interval, NEW j \in Interval
  PROVE  i \in Intervals(a, Horizon) /\ j \in Intervals(b, Horizon)
           <=> \A n \in 1..4 : Low(LowEnd(a, b, n)) <= Endpoint(i, j, n) /\ Endpoint(i, j, n) <= High(HighEnd(a, b, n))
<1>1. i \in Intervals(a, Horizon)
        <=> Low(a.es) <= i.s /\ i.s <= High(a.ls) /\ Low(a.ee) <= i.e /\ i.e <= High(a.le)
  BY InIntervals
<1>2. j \in Intervals(b, Horizon)
        <=> Low(b.es) <= j.s /\ j.s <= High(b.ls) /\ Low(b.ee) <= j.e /\ j.e <= High(b.le)
  BY InIntervals
<1>3. /\ LowEnd(a, b, 1) = a.es /\ LowEnd(a, b, 2) = a.ee /\ LowEnd(a, b, 3) = b.es /\ LowEnd(a, b, 4) = b.ee
      /\ HighEnd(a, b, 1) = a.ls /\ HighEnd(a, b, 2) = a.le /\ HighEnd(a, b, 3) = b.ls /\ HighEnd(a, b, 4) = b.le
  BY DEF LowEnd, HighEnd
<1>4. Endpoint(i, j, 1) = i.s /\ Endpoint(i, j, 2) = i.e /\ Endpoint(i, j, 3) = j.s /\ Endpoint(i, j, 4) = j.e
  BY DEF Endpoint, S1, E1, S2, E2
<1>5. 1..4 = {1, 2, 3, 4}
  OBVIOUS
<1> QED
  BY <1>1, <1>2, <1>3, <1>4, <1>5

\* The constraints of a relation are constraints.
LEMMA ConstraintsOf ==
  ASSUME NEW rel \in Relation
  PROVE  EndpointConstraints(rel) \in Seq(Constraint)
<1>1. \A i, j \in 1..4 : Lt(i, j) \in Constraint /\ Eq(i, j) \in Constraint
  BY DEF Lt, Eq, Constraint
<1>2. \A x, y, z \in Constraint : <<x>> \in Seq(Constraint) /\ <<x, y>> \in Seq(Constraint) /\ <<x, y, z>> \in Seq(Constraint)
  OBVIOUS
<1>3. S1 \in 1..4 /\ E1 \in 1..4 /\ S2 \in 1..4 /\ E2 \in 1..4
  BY DEF S1, E1, S2, E2
<1>4. \A r \in {"before", "meets", "overlaps", "starts"} : EndpointConstraints(r) \in Seq(Constraint)
  BY <1>1, <1>2, <1>3 DEF EndpointConstraints
<1>5. \A r \in {"during", "finishes", "equals", "finished_by"} : EndpointConstraints(r) \in Seq(Constraint)
  BY <1>1, <1>2, <1>3 DEF EndpointConstraints
<1>6. \A r \in {"contains", "started_by", "overlapped_by", "met_by", "after"} : EndpointConstraints(r) \in Seq(Constraint)
  BY <1>1, <1>2, <1>3 DEF EndpointConstraints
<1> QED
  BY <1>4, <1>5, <1>6, RelationNames

\* Where the endpoints of two intervals are, and the origin.
Vertices(i, j) == [n \in Node |-> IF n = Origin THEN 0 ELSE Endpoint(i, j, n)]

\* They meet a constraint if the intervals satisfy it.
LEMMA VerticesAre ==
  ASSUME NEW i \in Interval, NEW j \in Interval
  PROVE  /\ Vertices(i, j) \in Values /\ Vertices(i, j)[5] = 0
         /\ \A n \in 1..4 : Vertices(i, j)[n] = Endpoint(i, j, n) /\ Endpoint(i, j, n) \in Int
         /\ \A c \in Constraint : MeetsConstraint(Vertices(i, j), c) <=> Satisfies(i, j, c)
         /\ Vertices(i, j)[1] < Vertices(i, j)[2] /\ Vertices(i, j)[3] < Vertices(i, j)[4]
<1>1. Endpoint(i, j, 1) = i.s /\ Endpoint(i, j, 2) = i.e /\ Endpoint(i, j, 3) = j.s /\ Endpoint(i, j, 4) = j.e
  BY DEF Endpoint, S1, E1, S2, E2
<1>2. i.s \in Int /\ i.e \in Int /\ j.s \in Int /\ j.e \in Int /\ i.s < i.e /\ j.s < j.e
  BY DEF Interval
<1>3. ASSUME NEW n \in 1..4 PROVE Vertices(i, j)[n] = Endpoint(i, j, n) /\ Endpoint(i, j, n) \in Int
  <2>1. n \in {1, 2, 3, 4}
    OBVIOUS
  <2>2. Endpoint(i, j, n) \in Int
    BY <1>1, <1>2, <2>1
  <2>3. n \in Node /\ n # Origin
    BY DEF Node, Origin
  <2> QED
    BY <2>2, <2>3 DEF Vertices
<1>4. Vertices(i, j)[5] = 0
  BY DEF Vertices, Node, Origin
<1>5. Vertices(i, j) \in Values
  <2>1. ASSUME NEW n \in Node PROVE Vertices(i, j)[n] \in Int
    <3>1. n = 5 \/ n \in 1..4
      BY DEF Node
    <3> QED
      BY <1>3, <1>4, <3>1
  <2>2. Vertices(i, j) = [n \in Node |-> Vertices(i, j)[n]]
    BY DEF Vertices
  <2> QED
    BY <2>1, <2>2 DEF Values
<1>6. ASSUME NEW c \in Constraint PROVE MeetsConstraint(Vertices(i, j), c) <=> Satisfies(i, j, c)
  <2>1. c.from \in 1..4 /\ c.to \in 1..4
    BY DEF Constraint
  <2> QED
    BY <1>3, <2>1 DEF MeetsConstraint, Satisfies
<1>7. Vertices(i, j)[1] < Vertices(i, j)[2] /\ Vertices(i, j)[3] < Vertices(i, j)[4]
  BY <1>1, <1>2, <1>3
<1> QED
  BY <1>3, <1>4, <1>5, <1>6, <1>7

\* Two intervals that have a relation meet its constraints, and those that meet them have it.
LEMMA RelationMet ==
  ASSUME NEW i \in Interval, NEW j \in Interval, NEW rel \in Relation
  PROVE  Of(i, j) = rel
           <=> \A m \in 1..Len(EndpointConstraints(rel)) : MeetsConstraint(Vertices(i, j), EndpointConstraints(rel)[m])
<1>1. PICK cs : cs = EndpointConstraints(rel)
  OBVIOUS
<1>2. cs \in Seq(Constraint)
  BY <1>1, ConstraintsOf
<1>3. ASSUME NEW m \in 1..Len(cs) PROVE MeetsConstraint(Vertices(i, j), cs[m]) <=> Satisfies(i, j, cs[m])
  <2>1. cs[m] \in Constraint
    BY <1>2
  <2> QED
    BY <2>1, VerticesAre
<1>4. SatisfiesAll(i, j, cs) <=> Of(i, j) = rel
  BY <1>1, ConstraintsExact
<1> QED
  BY <1>1, <1>3, <1>4 DEF SatisfiesAll

\* The differences within an interval, and the bounds of its endpoints by the origin.
LEMMA RespectsBounds ==
  ASSUME NEW a, NEW b, InSightRange(a), InSightRange(b), NEW i \in Interval, NEW j \in Interval, NEW P,
         \A n \in 1..4 : <<n, 5>> \in P => Low(LowEnd(a, b, n)) <= Endpoint(i, j, n),
         \A n \in 1..4 : <<5, n>> \in P => Endpoint(i, j, n) <= High(HighEnd(a, b, n))
  PROVE  Respects(Vertices(i, j), Bounds(a, b), P)
<1> DEFINE x == Vertices(i, j)
           B == Bounds(a, b)
<1> SUFFICES ASSUME NEW k \in Node, NEW l \in Node, <<k, l>> \in P, B[<<k, l>>] # Infinity
             PROVE  x[l] - x[k] <= B[<<k, l>>]
  BY DEF Respects
<1>1. (k = 5 \/ k \in 1..4) /\ (l = 5 \/ l \in 1..4)
  BY DEF Node
<1>2. /\ x[5] = 0 /\ \A n \in 1..4 : x[n] = Endpoint(i, j, n) /\ x[n] \in Int
      /\ x[1] < x[2] /\ x[3] < x[4]
  BY VerticesAre
<1> HIDE DEF x, B
<1>3. CASE k = l
  <2>1. B[<<k, l>>] = 0
    BY <1>3, BoundsAre DEF B
  <2> QED
    BY <1>1, <1>2, <1>3, <2>1
<1>4. CASE k = 5 /\ l \in 1..4
  <2>1. B[<<k, l>>] = HighEnd(a, b, l) /\ HighEnd(a, b, l) # PosInf
    BY <1>4, BoundsAre DEF B
  <2>2. Endpoint(i, j, l) <= HighEnd(a, b, l) /\ HighEnd(a, b, l) \in Int
    BY <1>4, <2>1, EndsInSight DEF High
  <2> QED
    BY <1>2, <1>4, <2>1, <2>2
<1>5. CASE k \in 1..4 /\ l = 5
  <2>1. B[<<k, l>>] = -LowEnd(a, b, k) /\ LowEnd(a, b, k) # NegInf
    BY <1>5, BoundsAre DEF B
  <2>2. LowEnd(a, b, k) <= Endpoint(i, j, k) /\ LowEnd(a, b, k) \in Int
    BY <1>5, <2>1, EndsInSight DEF Low
  <2> QED
    BY <1>2, <1>5, <2>1, <2>2
<1>6. CASE k \in 1..4 /\ l \in 1..4 /\ k # l
  <2>1. (k = 2 /\ l = 1) \/ (k = 4 /\ l = 3)
    <3>1. \A u, v \in 1..4 : <<u, v>> = <<k, l>> => u = k /\ v = l
      OBVIOUS
    <3>2. <<k, l>> = <<2, 1>> \/ <<k, l>> = <<4, 3>>
      BY <1>6, BoundsAre DEF B
    <3> QED
      BY <3>1, <3>2
  <2>2. B[<<k, l>>] = -1
    BY <2>1, BoundsAre DEF B
  <2> QED
    BY <1>2, <2>1, <2>2
<1> QED
  BY <1>1, <1>3, <1>4, <1>5, <1>6

\* A relation that two intervals have is feasible.
LEMMA FeasibleIf ==
  ASSUME NEW a, NEW b, InSightRange(a), InSightRange(b), NEW rel \in Relation,
         NEW i \in Intervals(a, Horizon), NEW j \in Intervals(b, Horizon), Of(i, j) = rel
  PROVE  Feasible(a, b, rel)
<1> DEFINE x == Vertices(i, j)
           cs == EndpointConstraints(rel)
           P == Node \X Node
<1>1. i \in Interval /\ j \in Interval
  BY InIntervals
<1>2. x \in Values /\ cs \in Seq(Constraint) /\ Bounds(a, b) \in Matrix
  BY <1>1, VerticesAre, ConstraintsOf, BoundsSound DEF Sound
<1>3. \A n \in 1..4 : Low(LowEnd(a, b, n)) <= Endpoint(i, j, n) /\ Endpoint(i, j, n) <= High(HighEnd(a, b, n))
  BY <1>1, StandingFor
<1>4. Respects(x, Bounds(a, b), P)
  BY <1>1, <1>3, RespectsBounds
<1>5. \A m \in 1..Len(cs) : MeetsConstraint(x, cs[m])
  BY <1>1, RelationMet
<1> HIDE DEF x, cs, P
<1>6. Respects(x, Constrained(Bounds(a, b), cs), P)
  BY <1>2, <1>4, <1>5, RespectsConstrained
<1>7. Constrained(Bounds(a, b), cs) \in Matrix
  BY <1>2, ConstrainedBounds DEF Under
<1>8. NoCircle(ShortestPaths(Constrained(Bounds(a, b), cs)))
  BY <1>2, <1>6, <1>7, NoCircleThen DEF P
<1> QED
  BY <1>8 DEF Feasible, NoCircle, cs

-----------------------------------------------------------------------------
(* What is feasible, a choice of two intervals has: each at its latest place.*)

\* Four values are enough for any relation.
LEMMA FourValues ==
  ASSUME NEW rel \in Relation
  PROVE  \E w \in [1..4 -> 0..3] : w[1] < w[2] /\ w[3] < w[4] /\ Of([s |-> w[1], e |-> w[2]], [s |-> w[3], e |-> w[4]]) = rel
<1> DEFINE Shows(w, r) == w[1] < w[2] /\ w[3] < w[4] /\ Of([s |-> w[1], e |-> w[2]], [s |-> w[3], e |-> w[4]]) = r
<1>1. \A p, q, u, v \in 0..3 : <<p, q, u, v>> \in [1..4 -> 0..3]
  OBVIOUS
<1>2. /\ Shows(<<0, 1, 2, 3>>, "before") /\ Shows(<<0, 1, 1, 2>>, "meets")
      /\ Shows(<<0, 2, 1, 3>>, "overlaps") /\ Shows(<<0, 1, 0, 2>>, "starts")
  BY DEF Of
<1>3. /\ Shows(<<1, 2, 0, 3>>, "during") /\ Shows(<<1, 2, 0, 2>>, "finishes")
      /\ Shows(<<0, 1, 0, 1>>, "equals") /\ Shows(<<0, 2, 1, 2>>, "finished_by")
  BY DEF Of
<1>4. /\ Shows(<<0, 3, 1, 2>>, "contains") /\ Shows(<<0, 2, 0, 1>>, "started_by")
      /\ Shows(<<1, 3, 0, 2>>, "overlapped_by") /\ Shows(<<1, 2, 0, 1>>, "met_by")
      /\ Shows(<<2, 3, 0, 1>>, "after")
  BY DEF Of
<1> HIDE DEF Shows
<1>5. \E w \in [1..4 -> 0..3] : Shows(w, rel)
  BY <1>1, <1>2, <1>3, <1>4, RelationNames
<1> QED
  BY <1>5 DEF Shows

\* Intervals that are as far from others keep their relation.
LEMMA AsFar ==
  ASSUME NEW i \in Interval, NEW j \in Interval, NEW t \in Int
  PROVE  /\ [s |-> i.s + t, e |-> i.e + t] \in Interval
         /\ Of([s |-> i.s + t, e |-> i.e + t], [s |-> j.s + t, e |-> j.e + t]) = Of(i, j)
<1>1. i.s \in Int /\ i.e \in Int /\ j.s \in Int /\ j.e \in Int /\ i.s < i.e /\ j.s < j.e
  BY DEF Interval
<1> QED
  BY <1>1 DEF Interval, Of

\* For any relation there are values from any tick on, all within three ticks, that have it.
LEMMA ValuesFrom ==
  ASSUME NEW rel \in Relation
  PROVE  \E w \in [1..4 -> 0..3] : \A t \in Int : \E i, j \in Interval :
           /\ Of(i, j) = rel
           /\ \A n \in 1..4 : Endpoint(i, j, n) = w[n] + t
<1>1. PICK w \in [1..4 -> 0..3] :
        w[1] < w[2] /\ w[3] < w[4] /\ Of([s |-> w[1], e |-> w[2]], [s |-> w[3], e |-> w[4]]) = rel
  BY FourValues
<1>2. w[1] \in Int /\ w[2] \in Int /\ w[3] \in Int /\ w[4] \in Int
  OBVIOUS
<1>3. PICK a, b : a = [s |-> w[1], e |-> w[2]] /\ b = [s |-> w[3], e |-> w[4]]
  OBVIOUS
<1>4. a \in Interval /\ b \in Interval /\ Of(a, b) = rel
  BY <1>1, <1>2, <1>3 DEF Interval
<1>5. ASSUME NEW t \in Int
      PROVE  \E i, j \in Interval : Of(i, j) = rel /\ \A n \in 1..4 : Endpoint(i, j, n) = w[n] + t
  <2>1. PICK i, j : i = [s |-> a.s + t, e |-> a.e + t] /\ j = [s |-> b.s + t, e |-> b.e + t]
    OBVIOUS
  <2>2. i \in Interval /\ j \in Interval /\ Of(i, j) = rel
    BY <1>4, <2>1, AsFar
  <2>3. i.s = w[1] + t /\ i.e = w[2] + t /\ j.s = w[3] + t /\ j.e = w[4] + t
    BY <1>3, <2>1
  <2>4. ASSUME NEW n \in 1..4 PROVE Endpoint(i, j, n) = w[n] + t
    <3>1. n \in {1, 2, 3, 4}
      OBVIOUS
    <3> QED
      BY <2>3, <3>1 DEF Endpoint, S1, E1, S2, E2
  <2> QED
    BY <2>2, <2>4
<1> QED
  BY <1>5

\* Where an endpoint can be: as late as the bounds from the origin allow, or at z where they
\* allow anything.
Latest(g, z, n) == IF g[<<5, n>>] = Infinity THEN z[n] ELSE Smaller(g[<<5, n>>], z[n])

\* What is bounded by another endpoint stays so, if z is.
LEMMA LatestTogether ==
  ASSUME NEW e, NEW g, Sound(e), Closure(e, g), NEW z \in [1..4 -> Int],
         NEW i \in 1..4, NEW j \in 1..4, NEW c \in Int, c <= 0, e[<<i, j>>] <= c, z[j] - z[i] <= c
  PROVE  /\ Latest(g, z, i) \in Int /\ Latest(g, z, j) \in Int
         /\ Latest(g, z, j) - Latest(g, z, i) <= c
<1>1. i \in Node /\ j \in Node /\ 5 \in Node
  BY DEF Node
<1>2. e \in Matrix /\ g \in Matrix
  BY DEF Closure, Sound
<1>3. PICK u, v, w, f : u = g[<<5, i>>] /\ v = g[<<5, j>>] /\ w = g[<<i, j>>] /\ f = e[<<i, j>>]
  OBVIOUS
<1>4. u \in Int /\ v \in Int /\ w \in Int /\ f \in Int
  BY <1>1, <1>2, <1>3, Entries
<1>5. f # Infinity
  BY <1>3, <1>4, InfinityIs
<1>6. w <= f /\ w # Infinity
  BY <1>1, <1>3, <1>5 DEF Closure, Below
<1>7. u # Infinity => v # Infinity /\ v <= u + w
  BY <1>1, <1>3, <1>6 DEF Closure, Direct
<1>8. z[i] \in Int /\ z[j] \in Int
  OBVIOUS
<1>9. Latest(g, z, i) = (IF u = Infinity THEN z[i] ELSE Smaller(u, z[i]))
  BY <1>3 DEF Latest
<1>10. Latest(g, z, j) = (IF v = Infinity THEN z[j] ELSE Smaller(v, z[j]))
  BY <1>3 DEF Latest
<1>11. f <= c
  BY <1>3
<1> QED
  BY <1>4, <1>6, <1>7, <1>8, <1>9, <1>10, <1>11 DEF Smaller

\* They are in the ranges.
LEMMA LatestWithin ==
  ASSUME NEW a, NEW b, InSightRange(a), InSightRange(b), NEW e, NEW g, Under(Bounds(a, b), e), Closure(e, g),
         NEW z \in [1..4 -> Int], NEW n \in 1..4,
         z[n] <= Horizon, z[n] >= Horizon - 3, g[<<5, n>>] # Infinity => g[<<5, n>>] >= -Horizon
  PROVE  Low(LowEnd(a, b, n)) <= Latest(g, z, n) /\ Latest(g, z, n) <= High(HighEnd(a, b, n))
<1>1. n \in Node /\ 5 \in Node /\ n # 5
  BY DEF Node
<1>2. e \in Matrix /\ g \in Matrix
  BY DEF Closure, Sound, Under
<1>3. PICK u, v, o, h, k : u = g[<<5, n>>] /\ v = g[<<n, 5>>] /\ o = g[<<5, 5>>] /\ h = e[<<5, n>>] /\ k = e[<<n, 5>>]
  OBVIOUS
<1>4. u \in Int /\ v \in Int /\ o \in Int /\ h \in Int /\ k \in Int
  BY <1>1, <1>2, <1>3, Entries
<1>5. PICK lo, hi : lo = LowEnd(a, b, n) /\ hi = HighEnd(a, b, n)
  OBVIOUS
<1>6. /\ lo \in Int /\ hi \in Int
      /\ lo = NegInf \/ (lo <= Horizon - 3 /\ -(Horizon - 3) <= lo)
      /\ hi = PosInf \/ (hi <= Horizon - 3 /\ -(Horizon - 3) <= hi)
  BY <1>5, EndsInSight
<1>7. h = IF hi = PosInf THEN Infinity ELSE hi
  <2>1. e[<<5, n>>] = Bounds(a, b)[<<5, n>>]
    BY <1>1 DEF Under
  <2> QED
    BY <1>3, <1>5, <2>1, BoundsAre
<1>8. k = IF lo = NegInf THEN Infinity ELSE -lo
  <2>1. e[<<n, 5>>] = Bounds(a, b)[<<n, 5>>]
    BY <1>1 DEF Under
  <2> QED
    BY <1>3, <1>5, <2>1, BoundsAre
<1>9. u <= h /\ v <= k /\ (h # Infinity => u # Infinity) /\ (k # Infinity => v # Infinity)
  BY <1>1, <1>3 DEF Closure, Below
<1>10. o >= 0
  BY <1>1, <1>3 DEF Closure, NoCircle
<1>11. u # Infinity /\ v # Infinity => o <= u + v
  BY <1>1, <1>3 DEF Closure, Direct
<1>12. Latest(g, z, n) = (IF u = Infinity THEN z[n] ELSE Smaller(u, z[n]))
  BY <1>3 DEF Latest
<1>13. PICK x \in Int : x = z[n]
  OBVIOUS
<1>14. x <= Horizon /\ x >= Horizon - 3
  BY <1>13
<1>15. u # Infinity => u >= -Horizon
  BY <1>3
<1>16. PICK y : y = Latest(g, z, n)
  OBVIOUS
<1>17. y <= High(hi)
  <2>1. CASE hi = PosInf
    <3>1. y <= x
      BY <1>4, <1>12, <1>13, <1>16 DEF Smaller
    <3>2. y \in Int
      BY <1>4, <1>12, <1>13, <1>16 DEF Smaller
    <3> QED
      BY <1>14, <2>1, <3>1, <3>2, HorizonIs DEF High
  <2>2. CASE hi # PosInf
    <3>1. h = hi /\ hi <= Horizon - 3
      BY <1>6, <1>7, <2>2
    <3>2. hi < Infinity
      BY <1>6, <3>1, HorizonIs DEF Infinity
    <3>3. u # Infinity /\ u <= hi
      BY <1>9, <3>1, <3>2, <1>6
    <3>4. y <= u /\ y \in Int
      BY <1>4, <1>12, <1>13, <1>16, <3>3 DEF Smaller
    <3> QED
      BY <1>4, <1>6, <2>2, <3>3, <3>4 DEF High
  <2> QED
    BY <2>1, <2>2
<1>18. Low(lo) <= y
  <2>1. CASE lo = NegInf
    <3>1. Low(lo) = -Horizon
      BY <2>1 DEF Low
    <3> QED
      BY <1>4, <1>12, <1>13, <1>14, <1>15, <1>16, <3>1, HorizonIs DEF Smaller
  <2>2. CASE lo # NegInf
    <3>1. k = -lo /\ lo <= Horizon - 3 /\ -(Horizon - 3) <= lo /\ Low(lo) = lo
      BY <1>6, <1>8, <2>2 DEF Low
    <3>2. -lo < Infinity /\ k # Infinity
      BY <1>6, <3>1, HorizonIs DEF Infinity
    <3>3. v # Infinity /\ v <= -lo
      BY <1>9, <3>1, <3>2
    <3>4. u # Infinity => u >= lo
      BY <1>4, <1>6, <1>10, <1>11, <3>3
    <3>5. x >= lo
      BY <1>6, <1>14, <3>1, HorizonIs
    <3> QED
      BY <1>4, <1>6, <1>12, <1>13, <1>16, <3>1, <3>4, <3>5 DEF Smaller
  <2> QED
    BY <2>1, <2>2
<1> QED
  BY <1>5, <1>16, <1>17, <1>18

\* What is feasible, two intervals have.
LEMMA FeasibleOnlyIf ==
  ASSUME NEW a, NEW b, InSightRange(a), InSightRange(b), NEW rel \in Relation, Feasible(a, b, rel)
  PROVE  \E i \in Intervals(a, Horizon), j \in Intervals(b, Horizon) : Of(i, j) = rel
<1> DEFINE B == Bounds(a, b)
           cs == EndpointConstraints(rel)
           e == Constrained(B, cs)
           P == Node \X (1..4)
<1>1. cs \in Seq(Constraint) /\ Sound(B) /\ B \in Matrix
  BY ConstraintsOf, BoundsSound DEF Sound
<1>2. NoCircle(ShortestPaths(e))
  BY DEF Feasible, NoCircle
<1> HIDE DEF cs, B
<1>3. Under(B, e) /\ \A m \in 1..Len(cs) : Bounded(e, cs[m])
  BY <1>1, ConstrainedBounds
<1>4. Sound(e)
  BY <1>1, <1>3, UnderSound
<1> HIDE DEF e
<1>5. PICK g : Closure(e, g)
  BY <1>2, <1>4, Rounds
<1>6. PICK w \in [1..4 -> 0..3] : \A t \in Int : \E i, j \in Interval :
        /\ Of(i, j) = rel
        /\ \A n \in 1..4 : Endpoint(i, j, n) = w[n] + t
  BY ValuesFrom
<1>7. Horizon \in Int /\ Horizon >= 3
  BY HorizonIs
<1>8. ASSUME NEW n \in 1..4, g[<<5, n>>] # Infinity
      PROVE  g[<<5, n>>] >= -Horizon
  <2>1. PICK i \in Interval, j \in Interval :
          /\ Of(i, j) = rel
          /\ \A k \in 1..4 : Endpoint(i, j, k) = w[k] + (-Horizon)
    BY <1>6, <1>7
  <2> DEFINE x == Vertices(i, j)
  <2>2. x \in Values /\ x[5] = 0 /\ \A k \in 1..4 : x[k] = Endpoint(i, j, k)
    BY VerticesAre
  <2>3. ASSUME NEW k \in 1..4 PROVE <<k, 5>> \notin P
    OBVIOUS
  <2>4. ASSUME NEW k \in 1..4 PROVE Endpoint(i, j, k) <= High(HighEnd(a, b, k))
    <3>1. w[k] \in 0..3 /\ Endpoint(i, j, k) = w[k] + (-Horizon)
      BY <2>1
    <3>2. HighEnd(a, b, k) \in Int /\ (HighEnd(a, b, k) = PosInf \/ -(Horizon - 3) <= HighEnd(a, b, k))
      BY EndsInSight
    <3> QED
      BY <1>7, <3>1, <3>2 DEF High
  <2> HIDE DEF P
  <2>5. Respects(x, B, P)
    BY <2>3, <2>4, RespectsBounds DEF B
  <2>6. \A m \in 1..Len(cs) : MeetsConstraint(x, cs[m])
    BY <2>1, RelationMet DEF cs
  <2> HIDE DEF x
  <2>7. Respects(x, e, P)
    BY <1>1, <2>2, <2>5, <2>6, RespectsConstrained DEF e
  <2>8. PathsStay(P)
    <3> SUFFICES ASSUME NEW k \in Node, NEW l \in Node, NEW m \in 1..4, <<k, l>> \in P
                 PROVE  <<k, m>> \in P /\ <<m, l>> \in P
      BY DEF PathsStay
    <3> QED
      BY DEF P, Node
  <2>9. Respects(x, g, P)
    BY <1>5, <2>2, <2>7, <2>8 DEF Closure, NothingLost
  <2>10. <<5, n>> \in P /\ 5 \in Node /\ n \in Node
    BY DEF P, Node
  <2>11. x[n] - x[5] <= g[<<5, n>>]
    BY <1>8, <2>9, <2>10 DEF Respects
  <2>12. x[n] = w[n] + (-Horizon) /\ x[5] = 0 /\ w[n] \in 0..3
    BY <2>1, <2>2
  <2>13. g[<<5, n>>] \in Int
    BY <1>5, <2>10, Entries DEF Closure, Sound
  <2> QED
    BY <1>7, <2>11, <2>12, <2>13
<1>9. PICK p \in Interval, q \in Interval :
        /\ Of(p, q) = rel
        /\ \A n \in 1..4 : Endpoint(p, q, n) = w[n] + (Horizon - 3)
  <2>1. Horizon - 3 \in Int
    BY <1>7
  <2> QED
    BY <1>6, <2>1
<1> DEFINE z == [n \in 1..4 |-> Endpoint(p, q, n)]
<1>10. /\ z \in [1..4 -> Int] /\ \A n \in 1..4 : z[n] <= Horizon /\ z[n] >= Horizon - 3
       /\ z[1] < z[2] /\ z[3] < z[4]
       /\ \A m \in 1..Len(cs) : IF cs[m].strict THEN z[cs[m].from] < z[cs[m].to] ELSE z[cs[m].from] = z[cs[m].to]
  <2>1. \A n \in 1..4 : z[n] = w[n] + (Horizon - 3) /\ w[n] \in 0..3
    BY <1>9
  <2>2. z \in [1..4 -> Int]
    BY <1>7, <1>9
  <2>3. \A n \in 1..4 : z[n] <= Horizon /\ z[n] >= Horizon - 3
    BY <1>7, <2>1
  <2>4. \A n \in 1..4 : Vertices(p, q)[n] = z[n]
    BY VerticesAre
  <2>5. z[1] < z[2] /\ z[3] < z[4]
    <3>1. Vertices(p, q)[1] < Vertices(p, q)[2] /\ Vertices(p, q)[3] < Vertices(p, q)[4]
      BY VerticesAre
    <3> QED
      BY <2>4, <3>1
  <2>6. ASSUME NEW m \in 1..Len(cs)
        PROVE  IF cs[m].strict THEN z[cs[m].from] < z[cs[m].to] ELSE z[cs[m].from] = z[cs[m].to]
    <3>1. MeetsConstraint(Vertices(p, q), cs[m])
      BY <1>9, RelationMet DEF cs
    <3>2. cs[m] \in Constraint
      BY <1>1
    <3>3. cs[m].from \in 1..4 /\ cs[m].to \in 1..4
      BY <3>2 DEF Constraint
    <3> HIDE DEF z
    <3> QED
      BY <2>4, <3>1, <3>3 DEF MeetsConstraint
  <2> QED
    BY <2>2, <2>3, <2>5, <2>6
<1> HIDE DEF z
<1> DEFINE x(n) == Latest(g, z, n)
           i == [s |-> x(1), e |-> x(2)]
           j == [s |-> x(3), e |-> x(4)]
<1>11. ASSUME NEW k \in 1..4, NEW l \in 1..4, NEW c \in Int, c <= 0, e[<<k, l>>] <= c, z[l] - z[k] <= c
       PROVE  x(k) \in Int /\ x(l) \in Int /\ x(l) - x(k) <= c
  BY <1>4, <1>5, <1>10, <1>11, LatestTogether
<1>12. e[<<2, 1>>] <= -1 /\ e[<<4, 3>>] <= -1
  <2>1. B[<<2, 1>>] = -1 /\ B[<<4, 3>>] = -1
    BY BoundsAre DEF B
  <2> QED
    BY <1>3, <2>1 DEF Under, Node
<1>13. z[1] \in Int /\ z[2] \in Int /\ z[3] \in Int /\ z[4] \in Int
  BY <1>10
<1>14. x(1) \in Int /\ x(2) \in Int /\ x(1) - x(2) <= -1
  <2>1. z[1] - z[2] <= -1
    BY <1>10, <1>13
  <2> QED
    BY <1>11, <1>12, <2>1
<1>15. x(3) \in Int /\ x(4) \in Int /\ x(3) - x(4) <= -1
  <2>1. z[3] - z[4] <= -1
    BY <1>10, <1>13
  <2> QED
    BY <1>11, <1>12, <2>1
<1> HIDE DEF x
<1>16. i \in Interval /\ j \in Interval
  BY <1>14, <1>15 DEF Interval
<1>17. ASSUME NEW n \in 1..4 PROVE Endpoint(i, j, n) = x(n) /\ x(n) \in Int
  <2>1. n \in {1, 2, 3, 4}
    OBVIOUS
  <2>2. i.s = x(1) /\ i.e = x(2) /\ j.s = x(3) /\ j.e = x(4)
    OBVIOUS
  <2> HIDE DEF i, j
  <2> QED
    BY <1>14, <1>15, <2>1, <2>2 DEF Endpoint, S1, E1, S2, E2
<1> HIDE DEF i, j
<1>18. Of(i, j) = rel
  <2>1. ASSUME NEW m \in 1..Len(cs) PROVE MeetsConstraint(Vertices(i, j), cs[m])
    <3>1. PICK c : c = cs[m]
      OBVIOUS
    <3>2. /\ c \in Constraint /\ Bounded(e, c)
          /\ IF c.strict THEN z[c.from] < z[c.to] ELSE z[c.from] = z[c.to]
      BY <1>1, <1>3, <1>10, <3>1
    <3>3. PICK k \in 1..4, l \in 1..4 : k = c.from /\ l = c.to
      BY <3>2 DEF Constraint
    <3>4. z[k] \in Int /\ z[l] \in Int /\ c.strict \in BOOLEAN
      BY <1>10, <3>2 DEF Constraint
    <3>5. Vertices(i, j)[k] = x(k) /\ Vertices(i, j)[l] = x(l) /\ x(k) \in Int /\ x(l) \in Int
      BY <1>16, <1>17, VerticesAre
    <3>6. CASE c.strict
      <4>1. e[<<l, k>>] <= -1 /\ z[k] - z[l] <= -1
        <5>1. e[<<c.to, c.from>>] <= -1 /\ z[c.from] < z[c.to]
          BY <3>2, <3>6 DEF Bounded
        <5>2. z[k] < z[l] /\ e[<<l, k>>] <= -1
          BY <3>3, <5>1, Zenon
        <5>3. z[k] - z[l] <= -1
          BY <3>4, <5>2
        <5> QED
          BY <5>2, <5>3
      <4>2. x(k) - x(l) <= -1
        <5>1. PICK v \in Int : v = -1 /\ v <= 0
          OBVIOUS
        <5>2. e[<<l, k>>] <= v /\ z[k] - z[l] <= v
          BY <4>1, <5>1
        <5>3. x(k) - x(l) <= v
          BY <1>11, <5>1, <5>2
        <5> QED
          BY <5>1, <5>3
      <4>3. x(k) < x(l)
        BY <3>5, <4>2
      <4> QED
        BY <3>1, <3>3, <3>5, <3>6, <4>3 DEF MeetsConstraint
    <3>7. CASE ~ c.strict
      <4>1. e[<<l, k>>] <= 0 /\ z[k] - z[l] <= 0 /\ e[<<k, l>>] <= 0 /\ z[l] - z[k] <= 0
        <5>1. e[<<c.to, c.from>>] <= 0 /\ e[<<c.from, c.to>>] <= 0 /\ z[c.from] = z[c.to]
          BY <3>2, <3>7 DEF Bounded
        <5>2. z[k] = z[l] /\ e[<<l, k>>] <= 0 /\ e[<<k, l>>] <= 0
          BY <3>3, <5>1, Zenon
        <5>3. z[k] - z[l] <= 0 /\ z[l] - z[k] <= 0
          BY <3>4, <5>2
        <5> QED
          BY <5>2, <5>3
      <4>2. x(k) - x(l) <= 0 /\ x(l) - x(k) <= 0
        <5>1. PICK v \in Int : v = 0 /\ v <= 0
          OBVIOUS
        <5>2. e[<<l, k>>] <= v /\ z[k] - z[l] <= v /\ e[<<k, l>>] <= v /\ z[l] - z[k] <= v
          BY <4>1, <5>1
        <5>3. x(k) - x(l) <= v /\ x(l) - x(k) <= v
          BY <1>11, <5>1, <5>2
        <5> QED
          BY <5>1, <5>3
      <4>3. x(k) = x(l)
        BY <3>5, <4>2
      <4> QED
        BY <3>1, <3>3, <3>5, <3>7, <4>3 DEF MeetsConstraint
    <3> QED
      BY <3>4, <3>6, <3>7
  <2> QED
    BY <1>16, <2>1, RelationMet DEF cs
<1>19. ASSUME NEW n \in 1..4
       PROVE  Low(LowEnd(a, b, n)) <= Endpoint(i, j, n) /\ Endpoint(i, j, n) <= High(HighEnd(a, b, n))
  <2>1. Low(LowEnd(a, b, n)) <= x(n) /\ x(n) <= High(HighEnd(a, b, n))
    BY <1>3, <1>5, <1>8, <1>10, LatestWithin DEF B, x
  <2> QED
    BY <1>17, <2>1
<1>20. i \in Intervals(a, Horizon) /\ j \in Intervals(b, Horizon)
  BY <1>16, <1>19, StandingFor
<1> QED
  BY <1>18, <1>20

\* possible_relations says exactly what two uncertain intervals may be to each other: a relation
\* is possible if and only if two intervals that they may stand for have it.  The bounds may be
\* any ticks or infinite.
THEOREM PossibleExact ==
  \A a, b : InSightRange(a) /\ InSightRange(b) =>
    PossibleRelations(a, b) = {Of(p[1], p[2]) : p \in Intervals(a, Horizon) \X Intervals(b, Horizon)}
<1> SUFFICES ASSUME NEW a, NEW b, InSightRange(a), InSightRange(b)
             PROVE  PossibleRelations(a, b) = {Of(p[1], p[2]) : p \in Intervals(a, Horizon) \X Intervals(b, Horizon)}
  OBVIOUS
<1> DEFINE as == Intervals(a, Horizon)
           bs == Intervals(b, Horizon)
<1>1. as \subseteq Interval /\ bs \subseteq Interval
  BY InIntervals
<1>2. \A i \in as, j \in bs : Of(i, j) \in Relation /\ Feasible(a, b, Of(i, j))
  BY <1>1, OfIsRelation, FeasibleIf
<1>3. \A rel \in Relation : Feasible(a, b, rel) => \E i \in as, j \in bs : Of(i, j) = rel
  BY FeasibleOnlyIf
<1> HIDE DEF as, bs
<1> DEFINE shown == {Of(p[1], p[2]) : p \in as \X bs}
<1>4. ASSUME NEW i \in as, NEW j \in bs PROVE Of(i, j) \in shown
  <2>1. PICK p : p = <<i, j>>
    OBVIOUS
  <2>2. p \in as \X bs /\ p[1] = i /\ p[2] = j
    BY <2>1
  <2> QED
    BY <2>2
<1>5. ASSUME NEW rel \in shown PROVE \E i \in as, j \in bs : Of(i, j) = rel
  <2>1. PICK p \in as \X bs : rel = Of(p[1], p[2])
    OBVIOUS
  <2>2. p[1] \in as /\ p[2] \in bs
    OBVIOUS
  <2> QED
    BY <2>1, <2>2
<1> HIDE DEF shown
<1>6. ASSUME NEW rel \in PossibleRelations(a, b) PROVE rel \in shown
  <2>1. PICK i \in as, j \in bs : Of(i, j) = rel
    BY <1>3 DEF PossibleRelations
  <2> QED
    BY <1>4, <2>1
<1>7. ASSUME NEW rel \in shown PROVE rel \in PossibleRelations(a, b)
  <2>1. PICK i \in as, j \in bs : Of(i, j) = rel
    BY <1>5
  <2> QED
    BY <1>2, <2>1 DEF PossibleRelations
<1> QED
  BY <1>6, <1>7 DEF as, bs, shown

\* The inverse of a relation is one, and its inverse is the relation.
LEMMA InverseInverse ==
  ASSUME NEW rel \in Relation
  PROVE  InverseOf(rel) \in Relation /\ InverseOf(InverseOf(rel)) = rel
<1>1. PICK w \in [1..4 -> 0..3] : \A t \in Int : \E i, j \in Interval :
        /\ Of(i, j) = rel
        /\ \A n \in 1..4 : Endpoint(i, j, n) = w[n] + t
  BY ValuesFrom
<1>2. PICK t \in Int : t = 0
  OBVIOUS
<1>3. PICK i \in Interval, j \in Interval : Of(i, j) = rel
  BY <1>1, <1>2
<1>4. Of(j, i) = InverseOf(rel) /\ Of(i, j) = InverseOf(InverseOf(rel))
  BY <1>3, InverseExact
<1> QED
  BY <1>3, <1>4, OfIsRelation

\* What follows from one relation and another one.
LEMMA ComposeOne ==
  ASSUME NEW r1 \in Relation, NEW r2 \in Relation
  PROVE  /\ Compose({r1}, {r2}) = CompositionTable[<<r1, r2>>]
         /\ CompositionTable[<<r1, r2>>] \subseteq Relation
<1>1. {r1} \X {r2} = {<<r1, r2>>}
  OBVIOUS
<1>2. {CompositionTable[p] : p \in {<<r1, r2>>}} = {CompositionTable[<<r1, r2>>]}
  OBVIOUS
<1>3. Compose({r1}, {r2}) = CompositionTable[<<r1, r2>>]
  <2> DEFINE T == CompositionTable[<<r1, r2>>]
  <2>1. Compose({r1}, {r2}) = UNION {T}
    BY <1>1, <1>2 DEF Compose
  <2> HIDE DEF T
  <2>2. UNION {T} = T
    OBVIOUS
  <2> QED
    BY <2>1, <2>2 DEF T
<1>4. CompositionTable[<<r1, r2>>] \subseteq Relation
  <2> DEFINE triples == TableIntervals \X TableIntervals \X TableIntervals
             entries == {<<Of(t[1], t[2]), Of(t[2], t[3]), Of(t[1], t[3])>> : t \in triples}
  <2>1. CompositionTable[<<r1, r2>>] = {t[3] : t \in {u \in entries : u[1] = r1 /\ u[2] = r2}}
    BY DEF CompositionTable
  <2>2. ASSUME NEW u \in entries PROVE u[3] \in Relation
    <3>1. PICK t \in triples : u = <<Of(t[1], t[2]), Of(t[2], t[3]), Of(t[1], t[3])>>
      OBVIOUS
    <3>2. u[3] = Of(t[1], t[3])
      BY <3>1
    <3>3. t[1] \in TableIntervals /\ t[3] \in TableIntervals
      OBVIOUS
    <3>4. TableIntervals \subseteq Interval
      BY DEF TableIntervals, Interval, TableValues
    <3> QED
      BY <3>2, <3>3, <3>4, OfIsRelation
  <2> HIDE DEF entries
  <2> QED
    BY <2>1, <2>2
<1> QED
  BY <1>3, <1>4

\* Intervals on a longer axis show nothing else.
LEMMA WideShows ==
  ASSUME NEW r1 \in Relation, NEW r2 \in Relation
  PROVE  {t[3] : t \in {u \in WideTriples : u[1] = r1 /\ u[2] = r2}} = CompositionTable[<<r1, r2>>]
<1> DEFINE shown == {t[3] : t \in {u \in WideTriples : u[1] = r1 /\ u[2] = r2}}
           table == CompositionTable[<<r1, r2>>]
           triples == WideIntervals \X WideIntervals \X WideIntervals
<1>1. table \subseteq Relation
  BY ComposeOne
<1>2. \A r3 \in Relation : r3 \in table <=> \E a, b, c \in Interval : Of(a, b) = r1 /\ Of(b, c) = r2 /\ Of(a, c) = r3
  BY CompositionExact
<1>3. WideIntervals \subseteq Interval /\ TableIntervals \subseteq WideIntervals
  BY DEF WideIntervals, TableIntervals, TableValues, Interval
<1>4. ASSUME NEW r3 \in shown PROVE r3 \in table
  <2>1. PICK u \in WideTriples : u[1] = r1 /\ u[2] = r2 /\ u[3] = r3
    OBVIOUS
  <2>2. PICK t \in triples : u = <<Of(t[1], t[2]), Of(t[2], t[3]), Of(t[1], t[3])>>
    BY DEF WideTriples
  <2>3. u[1] = Of(t[1], t[2]) /\ u[2] = Of(t[2], t[3]) /\ u[3] = Of(t[1], t[3])
    BY <2>2
  <2>4. t[1] \in WideIntervals /\ t[2] \in WideIntervals /\ t[3] \in WideIntervals
    OBVIOUS
  <2> QED
    BY <1>2, <1>3, <2>1, <2>3, <2>4, OfIsRelation
<1>5. ASSUME NEW r3 \in table PROVE r3 \in shown
  <2>1. PICK a \in Interval, b \in Interval, c \in Interval : Of(a, b) = r1 /\ Of(b, c) = r2 /\ Of(a, c) = r3
    BY <1>1, <1>2
  <2>2. PICK x, y, z : x = Moved(a, b, c, a) /\ y = Moved(a, b, c, b) /\ z = Moved(a, b, c, c)
    OBVIOUS
  <2>3. /\ x \in TableIntervals /\ y \in TableIntervals /\ z \in TableIntervals
        /\ Of(x, y) = r1 /\ Of(y, z) = r2 /\ Of(x, z) = r3
    BY <2>1, <2>2, MovedRelation
  <2>4. PICK t : t = <<x, y, z>>
    OBVIOUS
  <2>5. t \in triples /\ t[1] = x /\ t[2] = y /\ t[3] = z
    BY <1>3, <2>3, <2>4
  <2>6. PICK u : u = <<Of(t[1], t[2]), Of(t[2], t[3]), Of(t[1], t[3])>>
    OBVIOUS
  <2>7. u \in WideTriples
    BY <2>5, <2>6 DEF WideTriples
  <2>8. u[1] = r1 /\ u[2] = r2 /\ u[3] = r3
    BY <2>3, <2>5, <2>6
  <2> QED
    BY <2>7, <2>8
<1> HIDE DEF shown, table
<1>6. shown = table
  BY <1>4, <1>5
<1> QED
  BY <1>6 DEF shown, table

\* The composition of the inverses is the inverse of the composition.
LEMMA ComposedInverse ==
  ASSUME NEW r1 \in Relation, NEW r2 \in Relation
  PROVE  InverseSet(CompositionTable[<<r1, r2>>]) = CompositionTable[<<InverseOf(r2), InverseOf(r1)>>]
<1> DEFINE table == CompositionTable[<<r1, r2>>]
           turned == CompositionTable[<<InverseOf(r2), InverseOf(r1)>>]
<1>1. /\ InverseOf(r1) \in Relation /\ InverseOf(InverseOf(r1)) = r1
      /\ InverseOf(r2) \in Relation /\ InverseOf(InverseOf(r2)) = r2
  BY InverseInverse
<1>2. table \subseteq Relation /\ turned \subseteq Relation
  BY <1>1, ComposeOne
<1>3. \A r3 \in Relation : r3 \in table <=> \E a, b, c \in Interval : Of(a, b) = r1 /\ Of(b, c) = r2 /\ Of(a, c) = r3
  BY CompositionExact
<1>4. \A r3 \in Relation :
        r3 \in turned <=> \E a, b, c \in Interval : Of(a, b) = InverseOf(r2) /\ Of(b, c) = InverseOf(r1) /\ Of(a, c) = r3
  BY <1>1, CompositionExact
<1> HIDE DEF table, turned
<1>5. ASSUME NEW r \in table PROVE InverseOf(r) \in turned
  <2>1. PICK a \in Interval, b \in Interval, c \in Interval : Of(a, b) = r1 /\ Of(b, c) = r2 /\ Of(a, c) = r
    BY <1>2, <1>3
  <2>2. Of(c, b) = InverseOf(r2) /\ Of(b, a) = InverseOf(r1) /\ Of(c, a) = InverseOf(r)
    BY <2>1, InverseExact
  <2>3. InverseOf(r) \in Relation
    BY <1>2, InverseInverse
  <2> QED
    BY <1>4, <2>2, <2>3
<1>6. ASSUME NEW r \in turned PROVE InverseOf(r) \in table /\ InverseOf(InverseOf(r)) = r
  <2>1. PICK a \in Interval, b \in Interval, c \in Interval :
          Of(a, b) = InverseOf(r2) /\ Of(b, c) = InverseOf(r1) /\ Of(a, c) = r
    BY <1>2, <1>4
  <2>2. Of(c, b) = r1 /\ Of(b, a) = r2 /\ Of(c, a) = InverseOf(r)
    BY <1>1, <2>1, InverseExact
  <2>3. InverseOf(r) \in Relation /\ InverseOf(InverseOf(r)) = r
    BY <1>2, InverseInverse
  <2> QED
    BY <1>3, <2>2, <2>3
<1>7. InverseSet(table) = turned
  BY <1>5, <1>6 DEF InverseSet
<1> QED
  BY <1>7 DEF table, turned

-----------------------------------------------------------------------------
(* The questions about relations.                                           *)

\* What each question was asked by.
LEMMA AskedBy ==
  ASSUME Next
  PROVE  /\ question'.about = "relation" => Relate
         /\ question'.about = "overlap" => Overlaps
         /\ question'.about = "composition" => Compounds
         /\ question'.about = "near" => Nears
         /\ question'.about = "written" => Writes
         /\ question'.about = "recurrence" => Recurs
         /\ question'.about = "months" => CountsMonths
         /\ question'.about = "weeks" => CountsWeeks
         /\ question'.about = "events" => RefersToEvents
         /\ question'.about = "span" => FindsSpans
         /\ question'.about = "placement" => FindsPlacements
         /\ question'.about = "text" => FindsTexts
<1>1. CASE AsksTime
  <2>1. Relate => question'.about = "relation"
    BY DEF Relate
  <2>2. Overlaps => question'.about = "overlap"
    BY DEF Overlaps
  <2>3. Compounds => question'.about = "composition"
    BY DEF Compounds
  <2>4. Converts => question'.about = "day"
    BY DEF Converts
  <2>5. ConvertsJulian => question'.about = "julian"
    BY DEF ConvertsJulian
  <2>6. Nears => question'.about = "near"
    BY DEF Nears
  <2>7. Writes => question'.about = "written"
    BY DEF Writes
  <2>8. Recurs => question'.about = "recurrence"
    BY DEF Recurs
  <2>9. CountsMonths => question'.about = "months"
    BY DEF CountsMonths
  <2>10. CountsWeeks => question'.about = "weeks"
    BY DEF CountsWeeks
  <2>11. RefersToEvents => question'.about = "events"
    BY DEF RefersToEvents
  <2> QED
    BY <1>1, <2>1, <2>2, <2>3, <2>4, <2>5, <2>6, <2>7, <2>8, <2>9, <2>10, <2>11 DEF AsksTime
<1>2. CASE AsksIndexes
  <2>1. FindsSpans => question'.about = "span"
    BY DEF FindsSpans
  <2>2. FindsPlacements => question'.about = "placement"
    BY DEF FindsPlacements
  <2>3. FindsTexts => question'.about = "text"
    BY DEF FindsTexts
  <2> QED
    BY <1>2, <2>1, <2>2, <2>3 DEF AsksIndexes
<1>3. CASE AsksHistory
  <2>1. question'.about \in {"pages", "content"}
    BY <1>3 DEF AsksHistory, Pages, PagesOfText
  <2> QED
    BY <2>1
<1> QED
  BY <1>1, <1>2, <1>3 DEF Next

\* Two ranges are related as meant.
LEMMA AfterRelate ==
  ASSUME Relate
  PROVE  PossibleRelations(question'.a, question'.b)
           = {Of(p[1], p[2]) : p \in Intervals(question'.a, Horizon) \X Intervals(question'.b, Horizon)}
<1>1. PICK a \in Ranges, b \in Others : question' = [about |-> "relation", a |-> a, b |-> b]
  BY DEF Relate
<1>2. InSightRange(a) /\ InSightRange(b)
  BY RangesAssumption
<1>3. question'.a = a /\ question'.b = b
  BY <1>1
<1>4. PossibleRelations(a, b) = {Of(p[1], p[2]) : p \in Intervals(a, Horizon) \X Intervals(b, Horizon)}
  BY <1>2, PossibleExact
<1> QED
  BY <1>3, <1>4

\* And composed.
LEMMA AfterCompounds ==
  ASSUME Compounds
  PROVE  LET rel == question'.rel  then == question'.then
             shown == {t[3] : t \in {u \in WideTriples : u[1] = rel /\ u[2] = then}}
         IN  /\ Compose({rel}, {then}) = shown
             /\ InverseSet(shown) = Compose({InverseOf(then)}, {InverseOf(rel)})
<1>1. PICK rel \in Relation, then \in Relation : question' = [about |-> "composition", rel |-> rel, then |-> then]
  BY DEF Compounds
<1>2. question'.rel = rel /\ question'.then = then
  BY <1>1
<1> DEFINE shown == {t[3] : t \in {u \in WideTriples : u[1] = rel /\ u[2] = then}}
<1>3. Compose({rel}, {then}) = shown
  BY ComposeOne, WideShows
<1>4. InverseSet(shown) = Compose({InverseOf(then)}, {InverseOf(rel)})
  <2>1. shown = CompositionTable[<<rel, then>>]
    BY WideShows
  <2>2. InverseOf(rel) \in Relation /\ InverseOf(then) \in Relation
    BY InverseInverse
  <2>3. Compose({InverseOf(then)}, {InverseOf(rel)}) = CompositionTable[<<InverseOf(then), InverseOf(rel)>>]
    BY <2>2, ComposeOne
  <2> HIDE DEF shown
  <2> QED
    BY <2>1, <2>3, ComposedInverse
<1> QED
  BY <1>2, <1>3, <1>4

\* What is said to be possible or to follow is exactly what intervals show, for any ranges and
\* any horizon beyond them (possible_relations, composition_table).
THEOREM RelatedRight == Spec => []RelationsAsMeant
<1>1. Init => RelationsAsMeant
  BY DEF Init, Subjects, RelationsAsMeant
<1>2. ASSUME RelationsAsMeant, [Next]_question PROVE RelationsAsMeant'
  <2>1. CASE question' = question
    BY <1>2, <2>1 DEF RelationsAsMeant
  <2>2. CASE Next
    <3>1. question'.about = "relation" => Relate
      BY <2>2, AskedBy
    <3>2. question'.about = "composition" => Compounds
      BY <2>2, AskedBy
    <3> QED
      BY <3>1, <3>2, AfterRelate, AfterCompounds DEF RelationsAsMeant
  <2> QED
    BY <1>2, <2>1, <2>2
<1> QED
  BY <1>1, <1>2, PTL DEF Spec

-----------------------------------------------------------------------------
(* The questions about windows.                                             *)

\* A range in sight and a window are compared as the intervals that it may stand for.
LEMMA RangeAndWindow ==
  ASSUME NEW r, InSightRange(r), NEW qs \in (1 - Horizon)..(Horizon - 1), NEW qe \in (1 - Horizon)..(Horizon - 1)
  PROVE  /\ PossiblyOverlaps(r, qs, qe) <=> \E i \in Intervals(r, Horizon) : Overlap(i, qs, qe)
         /\ CertainlyOverlaps(r, qs, qe) => \A i \in Intervals(r, Horizon) : Overlap(i, qs, qe)
         /\ CertainlyWithin(r, qs, qe) <=> \A i \in Intervals(r, Horizon) : i.s >= qs /\ i.e <= qe
         /\ CertainlyBefore(r, qe) <=> \A i \in Intervals(r, Horizon) : i.e <= qe
<1>1. /\ r.es \in Int /\ r.ls \in Int /\ r.ee \in Int /\ r.le \in Int
      /\ r.es <= r.ls /\ r.ee <= r.le /\ r.es < r.le
      /\ r.es = NegInf \/ (r.es <= Horizon - 3 /\ -(Horizon - 3) <= r.es)
      /\ r.ls = PosInf \/ (r.ls <= Horizon - 3 /\ -(Horizon - 3) <= r.ls)
      /\ r.ee = NegInf \/ (r.ee <= Horizon - 3 /\ -(Horizon - 3) <= r.ee)
      /\ r.le = PosInf \/ (r.le <= Horizon - 3 /\ -(Horizon - 3) <= r.le)
  BY HorizonIs DEF InSightRange, InSight
<1>2. qs \in Int /\ qe \in Int /\ -Horizon < qs /\ qs < Horizon /\ -Horizon < qe /\ qe < Horizon
  BY HorizonIs
<1>3. \A i \in Interval : i \in Intervals(r, Horizon)
        <=> Low(r.es) <= i.s /\ i.s <= High(r.ls) /\ Low(r.ee) <= i.e /\ i.e <= High(r.le)
  BY InIntervals
<1>4. PICK widest : widest = [s |-> Low(r.es), e |-> High(r.le)]
  OBVIOUS
<1>5. /\ widest.s \in Int /\ widest.e \in Int /\ widest.s < widest.e
      /\ widest.s <= High(r.ls) /\ Low(r.ee) <= widest.e
      /\ widest.s < qe <=> r.es < qe
      /\ widest.e > qs <=> r.le > qs
      /\ widest.s >= qs <=> r.es >= qs
      /\ widest.e <= qe <=> r.le <= qe
  BY <1>1, <1>2, <1>4, HorizonIs DEF Low, High
<1>6. widest \in Intervals(r, Horizon)
  <2>1. widest \in Interval
    BY <1>4, <1>5 DEF Interval
  <2> QED
    BY <1>1, <1>3, <1>4, <1>5, <2>1
<1>7. ASSUME NEW i \in Intervals(r, Horizon)
      PROVE  /\ Overlap(i, qs, qe) => PossiblyOverlaps(r, qs, qe)
             /\ CertainlyOverlaps(r, qs, qe) => Overlap(i, qs, qe)
             /\ CertainlyWithin(r, qs, qe) => i.s >= qs /\ i.e <= qe
             /\ CertainlyBefore(r, qe) => i.e <= qe
  <2>1. i \in Interval
    BY InIntervals
  <2>2. i.s \in Int /\ i.e \in Int /\ i.s < i.e
    BY <2>1 DEF Interval
  <2>3. Low(r.es) <= i.s /\ i.s <= High(r.ls) /\ Low(r.ee) <= i.e /\ i.e <= High(r.le)
    BY <1>3, <2>1
  <2>4. /\ i.s < qe => r.es < qe
        /\ i.e > qs => r.le > qs
        /\ r.ls < qe => i.s < qe
        /\ r.ee > qs => i.e > qs
        /\ r.es >= qs => i.s >= qs
        /\ r.le <= qe => i.e <= qe
    BY <1>1, <1>2, <2>2, <2>3, HorizonIs DEF Low, High
  <2> QED
    BY <2>4 DEF Overlap, PossiblyOverlaps, CertainlyOverlaps, CertainlyWithin, CertainlyBefore
<1>8. PossiblyOverlaps(r, qs, qe) => Overlap(widest, qs, qe)
  BY <1>5 DEF Overlap, PossiblyOverlaps
<1>9. (widest.s >= qs /\ widest.e <= qe => CertainlyWithin(r, qs, qe)) /\ (widest.e <= qe => CertainlyBefore(r, qe))
  BY <1>5 DEF CertainlyWithin, CertainlyBefore
<1> QED
  BY <1>6, <1>7, <1>8, <1>9

\* Days as ticks.
LEMMA DayIs ==
  ASSUME NEW D \in Nat \ {0}, NEW x \in Int
  PROVE  x \div D \in Int /\ D * (x \div D) \in Int /\ D * (x \div D) <= x /\ x < D * (x \div D) + D
<1>1. x \div D \in Int /\ x % D \in 0..D - 1 /\ x = D * (x \div D) + (x % D)
  BY Divided
<1>2. D * (x \div D) \in Int
  BY <1>1
<1> QED
  BY <1>1, <1>2

\* What is less in ticks is less in days.
LEMMA DaysLess ==
  ASSUME NEW D \in Nat \ {0}, NEW m \in Int, NEW n \in Int, D * m < D * n
  PROVE  m < n
OBVIOUS

\* An occurrence that overlaps a window is on a day that is searched, and on one about it.
LEMMA OccurrenceDay ==
  ASSUME NEW D \in Nat \ {0}, NEW n \in Int, NEW from \in 0..(2 * D - 1), NEW len \in 1..(30 * D), NEW off \in -D..D,
         NEW lo \in Int, NEW hi \in Int,
         D * n + from - off < hi, D * n + from - off + len > lo
  PROVE  /\ n \in (lo + off) \div D - 2 - len \div D .. (hi + off) \div D + 1
         /\ n \in (lo \div D) - 40 .. (hi \div D) + 40
<1>1. PICK q \in Int, p \in Int, k \in Int, u \in Int, v \in Int :
        q = (lo + off) \div D /\ p = (hi + off) \div D /\ k = len \div D /\ u = lo \div D /\ v = hi \div D
  <2>1. lo + off \in Int /\ hi + off \in Int /\ len \in Int
    OBVIOUS
  <2> QED
    BY <2>1, DayIs
<1>2. /\ D * q \in Int /\ D * q <= lo + off /\ lo + off < D * q + D
      /\ D * p \in Int /\ D * p <= hi + off /\ hi + off < D * p + D
      /\ D * k \in Int /\ D * k <= len /\ len < D * k + D
      /\ D * u \in Int /\ D * u <= lo /\ lo < D * u + D
      /\ D * v \in Int /\ D * v <= hi /\ hi < D * v + D
  <2>1. lo + off \in Int /\ hi + off \in Int /\ len \in Int
    OBVIOUS
  <2> QED
    BY <1>1, <2>1, DayIs
<1>3. /\ D * n \in Int
      /\ D * (q - 3 - k) = D * q - D * 3 - D * k
      /\ D * (p + 1) = D * p + D
      /\ D * (u - 34) = D * u - D * 34
      /\ D * (v + 3) = D * v + D * 3
  BY <1>1
<1>4. q - 3 - k < n
  <2>1. D * (q - 3 - k) < D * n
    BY <1>2, <1>3
  <2> QED
    BY <2>1, DaysLess
<1>5. n < p + 1
  <2>1. D * n < D * (p + 1)
    BY <1>2, <1>3
  <2> QED
    BY <2>1, DaysLess
<1>6. u - 34 < n
  <2>1. D * (u - 34) < D * n
    BY <1>2, <1>3
  <2> QED
    BY <2>1, DaysLess
<1>7. n < v + 3
  <2>1. D * n < D * (v + 3)
    BY <1>2, <1>3
  <2> QED
    BY <2>1, DaysLess
<1>8. n >= q - 2 - k /\ n <= p + 1 /\ n >= u - 40 /\ n <= v + 40
  BY <1>4, <1>5, <1>6, <1>7
<1> QED
  BY <1>1, <1>8

\* A day's ticks.
LEMMA DayOfTicks == TicksPerDay \in Nat \ {0} /\ MinInt \in Int /\ MaxInt \in Int /\ MinInt < 0 /\ MaxInt > 0
BY TicksAssumption DEF TicksPerDay

\* The time of one of these nodes, from the times of those before it.
TimeOfNode(cal, r, lookup, ast, n, times) ==
  NodeTime(cal, r, lookup, ast, ast[n], [m \in 1..(n - 1) |-> times[m]])

\* Every node of an expression has its time.
LEMMA TimesAre ==
  ASSUME NEW cal, NEW r, NEW lookup, NEW ast, NEW N \in Nat, DOMAIN ast = 1..N
  PROVE  \A n \in 1..N : Times(cal, r, lookup, ast)[n] = TimeOfNode(cal, r, lookup, ast, n, Times(cal, r, lookup, ast))
<1> DEFINE T(n, g) == TimeOfNode(cal, r, lookup, ast, n, g)
           Right(k, g) == \A n \in 1..k : g[n] = T(n, g)
           Body(g) == [n \in DOMAIN ast |-> NodeTime(cal, r, lookup, ast, ast[n], [m \in 1..(n - 1) |-> g[m]])]
           with == CHOOSE g : g = Body(g)
           S == {k \in 0..N : \E g : Right(k, g)}
<1>1. ASSUME NEW g, NEW h, NEW n \in Int, \A m \in 1..(n - 1) : g[m] = h[m]
      PROVE  T(n, g) = T(n, h)
  <2>1. [m \in 1..(n - 1) |-> g[m]] = [m \in 1..(n - 1) |-> h[m]]
    BY <1>1, Zenon
  <2> QED
    BY <2>1 DEF TimeOfNode
<1>2. 0 \in S
  OBVIOUS
<1>3. ASSUME NEW k \in 1..N, k - 1 \in S
      PROVE  k \in S
  <2>1. PICK g : Right(k - 1, g)
    BY <1>3
  <2>2. PICK h : h = [n \in 1..k |-> IF n = k THEN T(k, g) ELSE g[n]]
    OBVIOUS
  <2> HIDE DEF T
  <2>3. /\ \A n \in 1..(k - 1) : h[n] = g[n]
        /\ h[k] = T(k, g)
    BY <2>2
  <2>4. ASSUME NEW n \in 1..k
        PROVE  h[n] = T(n, h)
    <3>1. \A m \in 1..(n - 1) : m \in 1..(k - 1)
      OBVIOUS
    <3>2. T(n, g) = T(n, h)
      BY <1>1, <2>3, <3>1
    <3>3. CASE n = k
      BY <2>3, <3>2, <3>3
    <3>4. CASE n # k
      <4>1. n \in 1..(k - 1)
        BY <3>4
      <4> QED
        BY <2>1, <2>3, <3>2, <4>1
    <3> QED
      BY <3>3, <3>4
  <2> QED
    BY <2>4
<1>4. N \in S
  <2> HIDE DEF S
  <2>1. 0..N \subseteq S
    BY <1>2, <1>3, InductionUpTo
  <2> QED
    BY <2>1
<1>5. PICK g : Right(N, g)
  BY <1>4
<1>6. ASSUME NEW h
      PROVE  \A n \in 1..N : Body(h)[n] = T(n, h)
  BY DEF TimeOfNode
<1>7. PICK f : f = [n \in DOMAIN ast |-> g[n]]
  OBVIOUS
<1>8. f = Body(f)
  <2>1. ASSUME NEW n \in 1..N
        PROVE  f[n] = Body(f)[n]
    <3>1. \A m \in 1..(n - 1) : m \in 1..N
      OBVIOUS
    <3> HIDE DEF T, Body
    <3>2. T(n, f) = T(n, g)
      BY <1>1, <1>7, <3>1
    <3>3. f[n] = g[n]
      BY <1>7
    <3> QED
      BY <1>5, <1>6, <3>2, <3>3
  <2>2. Body(f) = [n \in 1..N |-> Body(f)[n]]
    BY DEF Body
  <2>3. f = [n \in 1..N |-> f[n]]
    BY <1>7
  <2> HIDE DEF Body
  <2> QED
    BY <2>1, <2>2, <2>3, Zenon
<1>9. with = Body(with)
  <2> HIDE DEF Body
  <2> QED
    BY <1>8 DEF with
<1>10. Times(cal, r, lookup, ast) = with
  BY DEF Times, with, Body
<1> HIDE DEF with, Body, T
<1>11. \A n \in 1..N : with[n] = T(n, with)
  BY <1>6, <1>9
<1> QED
  BY <1>10, <1>11 DEF T

\* An expression of one node.
LEMMA OneNode ==
  ASSUME NEW cal, NEW r, NEW lookup, NEW node, node.node # "approx", node.node # "interval"
  PROVE  Ast(cal, r, lookup, <<node>>) = SimpleAst(cal, r, lookup, node)
<1>1. PICK ast : ast = <<node>>
  OBVIOUS
<1>2. DOMAIN ast = 1..1 /\ ast[1] = node /\ Len(ast) = 1
  <2>1. <<node>> \in Seq({node}) /\ Len(<<node>>) = 1
    OBVIOUS
  <2>2. DOMAIN <<node>> = 1..1
    BY <2>1
  <2>3. <<node>>[1] = node
    OBVIOUS
  <2> QED
    BY <1>1, <2>1, <2>2, <2>3
<1>3. Times(cal, r, lookup, ast)[1] = TimeOfNode(cal, r, lookup, ast, 1, Times(cal, r, lookup, ast))
  <2>1. PICK N \in Nat : N = 1
    OBVIOUS
  <2>2. DOMAIN ast = 1..N
    BY <1>2, <2>1
  <2>3. \A n \in 1..N : Times(cal, r, lookup, ast)[n] = TimeOfNode(cal, r, lookup, ast, n, Times(cal, r, lookup, ast))
    BY <2>2, TimesAre, Zenon
  <2> QED
    BY <2>1, <2>3
<1>4. \A times : NodeTime(cal, r, lookup, ast, node, times) = SimpleAst(cal, r, lookup, node)
  BY DEF NodeTime
<1>5. TimeOfNode(cal, r, lookup, ast, 1, Times(cal, r, lookup, ast)) = SimpleAst(cal, r, lookup, node)
  BY <1>2, <1>4 DEF TimeOfNode
<1>6. Ast(cal, r, lookup, ast) = Times(cal, r, lookup, ast)[1]
  BY <1>2 DEF Ast
<1> QED
  BY <1>1, <1>3, <1>5, <1>6

\* What a recurring expression is resolved to.
LEMMA RecurringResolved ==
  ASSUME NEW cal, NEW ast, ast.node = "recurring"
  PROVE  /\ cal.kind # "gregorian" => ~ IsResolved(Ast(cal, Missing, <<>>, <<ast>>))
         /\ cal.kind = "gregorian" =>
              LET t == Ast(cal, Missing, <<>>, <<ast>>)
              IN  /\ t.recurs /\ t.range = UnknownRange
                  /\ t.recurrence = [rule |-> ast.rule, clock |-> ast.clock, offset |-> cal.offset,
                                     len |-> IF ast.clock = NoClock THEN TicksPerDay ELSE ast.clock.len]
<1>1. Ast(cal, Missing, <<>>, <<ast>>) = RecurringAst(cal, ast)
  BY OneNode DEF SimpleAst
<1>2. CASE cal.kind # "gregorian"
  BY <1>1, <1>2 DEF RecurringAst, IsResolved, Unresolved, Resolved
<1>3. CASE cal.kind = "gregorian"
  BY <1>1, <1>3 DEF RecurringAst, Resolved
<1> QED
  BY <1>2, <1>3

\* A recurrence matches a window if it has an occurrence on a day that is searched.
LEMMA MatchesIf ==
  ASSUME NEW t, t.recurs, t.range = UnknownRange, t.recurrence.len \in Nat \ {0},
         t.recurrence.clock.from \in Int, t.recurrence.offset \in Int,
         NEW lo \in Int, NEW hi \in Int, MinInt < lo, lo < MaxInt, MinInt < hi, hi < MaxInt
  PROVE  MatchesWindow(t, lo, hi, FALSE)
           <=> \E day \in DaysSearched(t.recurrence, lo, hi) :
                 /\ MatchesDay(t.recurrence.rule, day)
                 /\ TicksPerDay * day + t.recurrence.clock.from - t.recurrence.offset < hi
                 /\ TicksPerDay * day + t.recurrence.clock.from - t.recurrence.offset + t.recurrence.len > lo
<1> DEFINE rec == t.recurrence
           D == TicksPerDay
           At0(day) == D * day + rec.clock.from - rec.offset
<1>1. UnknownRange.es = MinInt /\ UnknownRange.le = MaxInt
  BY DayOfTicks DEF UnknownRange, Within, Normalized, Range4, NegInf, PosInf, Smaller, Larger
<1>2. PossiblyOverlaps(t.range, lo, hi) /\ Larger(lo, t.range.es) = lo /\ Smaller(hi, t.range.le) = hi
  BY <1>1, DayOfTicks DEF PossiblyOverlaps, Larger, Smaller
<1>3. Searched(lo, hi) = <<lo, hi>>
  BY DEF Searched, Finite, NegInf, PosInf
<1>4. MatchesWindow(t, lo, hi, FALSE) <=> AnyOccurrenceIn(rec, lo, hi)
  BY <1>2 DEF MatchesWindow
<1>5. AnyOccurrenceIn(rec, lo, hi)
        <=> \E day \in DaysSearched(rec, lo, hi) : MatchesDay(rec.rule, day) /\ PossiblyOverlaps(Occurrence(rec, day), lo, hi)
  BY <1>3 DEF AnyOccurrenceIn
<1>6. \A day \in DaysSearched(rec, lo, hi) : day \in Int
  <2>1. lo + rec.offset \in Int /\ hi + rec.offset \in Int /\ D \in Nat \ {0}
    BY DayOfTicks
  <2>2. (lo + rec.offset) \div D \in Int /\ (hi + rec.offset) \div D \in Int /\ rec.len \div D \in Int
    BY <2>1, DayIs
  <2> QED
    BY <2>2 DEF DaysSearched
<1>7. ASSUME NEW day \in Int
      PROVE  PossiblyOverlaps(Occurrence(rec, day), lo, hi) <=> At0(day) < hi /\ At0(day) + rec.len > lo
  <2>1. PICK s : s = At0(day)
    OBVIOUS
  <2>2. D * day \in Int /\ D * day = day * D
    BY DayOfTicks
  <2>3. s \in Int /\ s = day * TicksPerDay + rec.clock.from - rec.offset
    BY <2>1, <2>2
  <2>4. Larger(rec.len, 1) = rec.len
    BY DEF Larger
  <2>5. Occurrence(rec, day) = Exact(s, s + rec.len)
    BY <2>3, <2>4 DEF Occurrence
  <2>6. Exact(s, s + rec.len).es = s /\ Exact(s, s + rec.len).le = s + rec.len
    <3>1. PICK e \in Int : e = s + rec.len /\ s < e
      BY <2>3
    <3>2. Exact(s, e).es = s /\ Exact(s, e).le = e
      BY <2>3, <3>1 DEF Exact, Normalized, Range4, Smaller, Larger
    <3> QED
      BY <3>1, <3>2
  <2> QED
    BY <2>1, <2>5, <2>6 DEF PossiblyOverlaps
<1> QED
  BY <1>4, <1>5, <1>6, <1>7

\* Where a day begins, near a window that is away from both ends of time.
LEMMA DayStartNear ==
  ASSUME NEW cal, cal.kind = "gregorian", cal.offset \in -TicksPerDay..TicksPerDay,
         NEW lo \in (MinInt + 50 * TicksPerDay)..(MaxInt - 50 * TicksPerDay),
         NEW hi \in (MinInt + 50 * TicksPerDay)..(MaxInt - 50 * TicksPerDay),
         NEW n \in (lo \div TicksPerDay) - 40 .. (hi \div TicksPerDay) + 40
  PROVE  n \in Int /\ DayStart(cal, n) = TicksPerDay * n - cal.offset
<1> DEFINE D == TicksPerDay
<1>1. D \in Nat \ {0} /\ lo \in Int /\ hi \in Int /\ MinInt \in Int /\ MaxInt \in Int
  BY DayOfTicks
<1>2. PICK u \in Int, v \in Int : u = lo \div D /\ v = hi \div D
  BY <1>1, DayIs
<1>3. /\ D * u \in Int /\ lo < D * u + D
      /\ D * v \in Int /\ D * v <= hi
  BY <1>1, <1>2, DayIs
<1>4. n \in Int /\ u - 40 <= n /\ n <= v + 40
  BY <1>2
<1> HIDE DEF D
<1>5. D * (u - 40) <= D * n /\ D * n <= D * (v + 40) /\ D * n \in Int
  BY <1>1, <1>4
<1>6. D * (u - 40) = D * u - 40 * D /\ D * (v + 40) = D * v + 40 * D
  BY <1>1
<1>7. lo >= MinInt + 50 * D /\ hi <= MaxInt - 50 * D /\ cal.offset \in Int /\ -D <= cal.offset /\ cal.offset <= D
  BY <1>1 DEF D
<1>8. MinInt + 1 <= D * n - cal.offset /\ D * n - cal.offset <= MaxInt - 1
  BY <1>1, <1>3, <1>5, <1>6, <1>7
<1>9. DayStart(cal, n) = Clamped(n * D + (-cal.offset))
  BY DEF DayStart, DayLength, CalOrigin, D
<1>10. n * D + (-cal.offset) = D * n - cal.offset
  BY <1>1, <1>4, <1>7
<1>11. PICK x \in Int : x = D * n - cal.offset
  BY <1>5, <1>7
<1>12. Clamped(x) = x
  BY <1>1, <1>8, <1>11 DEF Clamped, Larger, Smaller
<1> QED
  BY <1>4, <1>9, <1>10, <1>11, <1>12 DEF D

\* A recurring expression matches a window exactly if a day has an occurrence in it.
LEMMA RecursRight ==
  ASSUME NEW q, NEW cal, q.cal = cal, q.ast.node = "recurring", Recurrent(q.ast.clock),
         cal.kind = "gregorian" => cal.offset \in -TicksPerDay..TicksPerDay,
         q.from \in (MinInt + 50 * TicksPerDay)..(MaxInt - 50 * TicksPerDay),
         q.to \in (MinInt + 50 * TicksPerDay)..(MaxInt - 50 * TicksPerDay)
  PROVE  RecursAsRuled(q, q.ast.clock, Ast(q.cal, Missing, <<>>, <<q.ast>>))
<1> DEFINE clock == q.ast.clock
           D == TicksPerDay
           length == IF clock = NoClock THEN D ELSE clock.len
           t == Ast(cal, Missing, <<>>, <<q.ast>>)
           around == (q.from \div D) - 40 .. (q.to \div D) + 40
           starts == {DayStart(cal, day) + clock.from : day \in {n \in around : MatchesDay(q.ast.rule, n)}}
<1>1. CASE cal.kind # "gregorian"
  BY <1>1, RecurringResolved DEF RecursAsRuled
<1>2. CASE cal.kind = "gregorian"
  <2>1. D \in Nat \ {0} /\ MinInt \in Int /\ MaxInt \in Int
    BY DayOfTicks
  <2>2. /\ q.from \in Int /\ q.to \in Int
        /\ MinInt < q.from /\ q.from < MaxInt /\ MinInt < q.to /\ q.to < MaxInt
    BY <2>1
  <2>3. clock.from \in 0..(2 * D - 1) /\ length \in 1..(30 * D)
    <3>1. CASE clock = NoClock
      <4>1. clock.from = 0 /\ length = D
        BY <3>1 DEF NoClock
      <4> QED
        BY <2>1, <4>1
    <3>2. CASE clock # NoClock
      BY <3>2 DEF Recurrent
    <3> QED
      BY <3>1, <3>2
  <2>4. PICK off \in -D..D : off = cal.offset
    BY <1>2
  <2>5. /\ t.recurs /\ t.range = UnknownRange
        /\ t.recurrence.rule = q.ast.rule /\ t.recurrence.clock = clock
        /\ t.recurrence.offset = off /\ t.recurrence.len = length
    <3>1. /\ t.recurs /\ t.range = UnknownRange
          /\ t.recurrence = [rule |-> q.ast.rule, clock |-> clock, offset |-> cal.offset, len |-> length]
      BY <1>2, RecurringResolved
    <3> HIDE DEF t, clock, length
    <3> QED
      BY <2>4, <3>1
  <2> HIDE DEF clock, length, t, around
  <2>6. clock.from \in Int /\ length \in Nat \ {0} /\ off \in Int
    BY <2>1, <2>3, <2>4
  <2>7. MatchesWindow(t, q.from, q.to, FALSE)
          <=> \E day \in DaysSearched(t.recurrence, q.from, q.to) :
                /\ MatchesDay(q.ast.rule, day)
                /\ D * day + clock.from - off < q.to
                /\ D * day + clock.from - off + length > q.from
    BY <2>2, <2>5, <2>6, MatchesIf
  <2>8. DaysSearched(t.recurrence, q.from, q.to) = (q.from + off) \div D - 2 - length \div D .. (q.to + off) \div D + 1
    BY <2>5 DEF DaysSearched
  <2>9. ASSUME NEW n \in around PROVE n \in Int /\ DayStart(cal, n) = D * n - off
    BY <1>2, <2>4, DayStartNear DEF around
  <2>10. ASSUME NEW n \in Int PROVE D * n \in Int
    BY <2>1
  <2>11. ASSUME NEW n \in Int, D * n + clock.from - off < q.to, D * n + clock.from - off + length > q.from
         PROVE  n \in DaysSearched(t.recurrence, q.from, q.to) /\ n \in around
    BY <2>1, <2>2, <2>3, <2>4, <2>8, <2>11, OccurrenceDay DEF around
  <2>12. ASSUME NEW n \in around
         PROVE  DayStart(cal, n) + clock.from = D * n + clock.from - off
    BY <2>6, <2>9, <2>10
  <2>13. ASSUME NEW n \in DaysSearched(t.recurrence, q.from, q.to) PROVE n \in Int
    <3>1. q.from + off \in Int /\ q.to + off \in Int /\ length \in Int
      BY <2>2, <2>6
    <3>2. (q.from + off) \div D \in Int /\ (q.to + off) \div D \in Int /\ length \div D \in Int
      BY <2>1, <3>1, DayIs
    <3> QED
      BY <2>8, <3>2
  <2> HIDE DEF D
  <2>14. ASSUME NEW n \in DaysSearched(t.recurrence, q.from, q.to), MatchesDay(q.ast.rule, n),
                D * n + clock.from - off < q.to, D * n + clock.from - off + length > q.from
         PROVE  \E s \in starts : Overlap([s |-> s, e |-> s + length], q.from, q.to)
    <3>1. n \in around
      BY <2>11, <2>13, <2>14
    <3>2. PICK s : s = DayStart(cal, n) + clock.from
      OBVIOUS
    <3>3. s \in starts
      BY <2>14, <3>1, <3>2
    <3>4. s = D * n + clock.from - off
      BY <2>12, <3>1, <3>2
    <3>5. Overlap([s |-> s, e |-> s + length], q.from, q.to)
      BY <2>14, <3>4 DEF Overlap
    <3> QED
      BY <3>3, <3>5
  <2>15. ASSUME NEW s \in starts, Overlap([s |-> s, e |-> s + length], q.from, q.to)
         PROVE  \E n \in DaysSearched(t.recurrence, q.from, q.to) :
                  /\ MatchesDay(q.ast.rule, n)
                  /\ D * n + clock.from - off < q.to
                  /\ D * n + clock.from - off + length > q.from
    <3>1. PICK n \in around : MatchesDay(q.ast.rule, n) /\ s = DayStart(cal, n) + clock.from
      OBVIOUS
    <3>2. s = D * n + clock.from - off /\ n \in Int
      BY <2>9, <2>12, <3>1
    <3>3. s < q.to /\ s + length > q.from
      BY <2>15 DEF Overlap
    <3>4. n \in DaysSearched(t.recurrence, q.from, q.to)
      BY <2>11, <3>2, <3>3
    <3> QED
      BY <3>1, <3>2, <3>3, <3>4
  <2> HIDE DEF starts
  <2>16. MatchesWindow(t, q.from, q.to, FALSE) <=> \E s \in starts : Overlap([s |-> s, e |-> s + length], q.from, q.to)
    BY <2>7, <2>14, <2>15
  <2> QED
    BY <1>2, <2>16 DEF RecursAsRuled, clock, length, starts, around, t, D
<1> QED
  BY <1>1, <1>2

\* A range is compared with a window as meant.
LEMMA AfterOverlaps ==
  ASSUME Overlaps
  PROVE  LET r == question'.r  qs == question'.w[1]  qe == question'.w[2]
             meant == Intervals(r, Horizon)
         IN  /\ PossiblyOverlaps(r, qs, qe) <=> \E i \in meant : Overlap(i, qs, qe)
             /\ CertainlyOverlaps(r, qs, qe) => \A i \in meant : Overlap(i, qs, qe)
             /\ CertainlyWithin(r, qs, qe) <=> \A i \in meant : i.s >= qs /\ i.e <= qe
             /\ CertainlyBefore(r, qe) <=> \A i \in meant : i.e <= qe
<1>1. PICK r \in Ranges, w \in Windows : question' = [about |-> "overlap", r |-> r, w |-> w]
  BY DEF Overlaps
<1>2. question'.r = r /\ question'.w = w
  BY <1>1
<1>3. InSightRange(r) /\ w[1] \in (1 - Horizon)..(Horizon - 1) /\ w[2] \in (1 - Horizon)..(Horizon - 1)
  BY RangesAssumption
<1> QED
  BY <1>2, <1>3, RangeAndWindow

\* And so is a recurring expression.
LEMMA AfterRecurs ==
  ASSUME Recurs
  PROVE  RecursAsRuled(question', question'.ast.clock, Ast(question'.cal, Missing, <<>>, <<question'.ast>>))
<1>1. PICK ast \in Recurrences, cal \in Calendars, r \in References, w \in Windows :
        question' = [about |-> "recurrence", ast |-> ast, cal |-> cal, from |-> r + w[1] * TicksPerHour, to |-> r + w[2] * TicksPerHour]
  BY DEF Recurs
<1>2. /\ question'.ast = ast /\ question'.cal = cal
      /\ question'.from = r + w[1] * TicksPerHour /\ question'.to = r + w[2] * TicksPerHour
  BY <1>1
<1>3. /\ ast.node = "recurring" /\ Recurrent(ast.clock)
      /\ cal.kind = "gregorian" => cal.offset \in -TicksPerDay..TicksPerDay
      /\ r + w[1] * TicksPerHour \in (MinInt + 50 * TicksPerDay)..(MaxInt - 50 * TicksPerDay)
      /\ r + w[2] * TicksPerHour \in (MinInt + 50 * TicksPerDay)..(MaxInt - 50 * TicksPerDay)
  BY RecurrencesAssumption
<1> QED
  BY <1>2, <1>3, RecursRight

\* What a query says of a window is what the intervals say that a range may stand for, for any
\* ranges and windows; and a recurring time is found in a window exactly if a day that its rule
\* names has an occurrence there, for any rule, clock, offset and length of up to a month
\* (matches_window, occurrences).
THEOREM ComparedRight == Spec => []WindowsAsMeant
<1>1. Init => WindowsAsMeant
  BY DEF Init, Subjects, WindowsAsMeant
<1>2. ASSUME WindowsAsMeant, [Next]_question PROVE WindowsAsMeant'
  <2>1. CASE question' = question
    BY <1>2, <2>1 DEF WindowsAsMeant
  <2>2. CASE Next
    <3>1. question'.about = "overlap" => Overlaps
      BY <2>2, AskedBy
    <3>2. question'.about = "recurrence" => Recurs
      BY <2>2, AskedBy
    <3> QED
      BY <3>1, <3>2, AfterOverlaps, AfterRecurs DEF WindowsAsMeant
  <2> QED
    BY <1>2, <2>1, <2>2
<1> QED
  BY <1>1, <1>2, PTL DEF Spec
-----------------------------------------------------------------------------
(* The pairs of characters of a text, of its runs and of words joined.        *)

\* The pairs of a text of which neither character breaks a run.
Unbroken(text, breaks) == {p \in Pairs(text) : p[1] \notin breaks /\ p[2] \notin breaks}

\* The pairs of any of these runs.
PairsIn(runs) == UNION {Pairs(runs[k]) : k \in 1..Len(runs)}

\* The pairs of a text are its neighbours.
LEMMA PairsAre ==
  ASSUME NEW C, NEW s \in Seq(C)
  PROVE  Pairs(s) = {<<s[i], s[i + 1]>> : i \in 1..(Len(s) - 1)}
<1>1. ASSUME NEW i \in 1..(Len(s) - 1)
      PROVE  SubSeq(s, i, i + 1) = <<s[i], s[i + 1]>>
  <2>1. Len(s) \in Nat /\ i \in 1..Len(s) /\ i + 1 \in 1..Len(s)
    OBVIOUS
  <2>2. SubSeq(s, i, i + 1) \in Seq(C) /\ Len(SubSeq(s, i, i + 1)) = 2
    BY <2>1
  <2>3. SubSeq(s, i, i + 1)[1] = s[i] /\ SubSeq(s, i, i + 1)[2] = s[i + 1]
    BY <2>1
  <2>4. \A t \in Seq(C) : Len(t) = 2 => t = <<t[1], t[2]>>
    OBVIOUS
  <2> QED
    BY <2>2, <2>3, <2>4
<1> QED
  BY <1>1 DEF Pairs

\* One more character at the end of a run.
LEMMA PairsOfAppend ==
  ASSUME NEW C, NEW s \in Seq(C), NEW c \in C
  PROVE  Pairs(Append(s, c)) = Pairs(s) \cup (IF s = <<>> THEN {} ELSE {<<s[Len(s)], c>>})
<1> DEFINE t == Append(s, c)
<1>1. t \in Seq(C) /\ Len(t) = Len(s) + 1 /\ t[Len(t)] = c /\ \A i \in 1..Len(s) : t[i] = s[i]
  OBVIOUS
<1> HIDE DEF t
<1>2. Pairs(t) = {<<t[i], t[i + 1]>> : i \in 1..Len(s)}
  BY <1>1, PairsAre
<1>3. Pairs(s) = {<<s[i], s[i + 1]>> : i \in 1..(Len(s) - 1)}
  BY PairsAre
<1>4. Len(s) \in Nat /\ (s = <<>> <=> Len(s) = 0)
  OBVIOUS
<1>5. \A i \in 1..(Len(s) - 1) : t[i] = s[i] /\ t[i + 1] = s[i + 1]
  BY <1>1
<1>6. CASE s = <<>>
  BY <1>2, <1>3, <1>4, <1>6 DEF t
<1>7. CASE s # <<>>
  <2>1. t[Len(s)] = s[Len(s)] /\ t[Len(s) + 1] = c /\ Len(s) \in 1..Len(s)
    BY <1>1, <1>4, <1>7
  <2>2. \A i \in 1..Len(s) : i \in 1..(Len(s) - 1) \/ i = Len(s)
    BY <1>4
  <2>3. \A i \in 1..(Len(s) - 1) : i \in 1..Len(s)
    BY <1>4
  <2>4. Pairs(t) = {<<s[i], s[i + 1]>> : i \in 1..(Len(s) - 1)} \cup {<<s[Len(s)], c>>}
    <3>1. ASSUME NEW p \in Pairs(t)
          PROVE  p \in {<<s[i], s[i + 1]>> : i \in 1..(Len(s) - 1)} \cup {<<s[Len(s)], c>>}
      <4>1. PICK i \in 1..Len(s) : p = <<t[i], t[i + 1]>>
        BY <1>2
      <4> QED
        BY <1>5, <2>1, <2>2, <4>1
    <3>2. ASSUME NEW i \in 1..(Len(s) - 1)
          PROVE  <<s[i], s[i + 1]>> \in Pairs(t)
      BY <1>2, <1>5, <2>3
    <3>3. <<s[Len(s)], c>> \in Pairs(t)
      BY <1>2, <2>1
    <3> QED
      BY <3>1, <3>2, <3>3
  <2> QED
    BY <1>3, <1>7, <2>4 DEF t
<1> QED
  BY <1>6, <1>7

\* Two texts one after the other.
LEMMA PairsOfConcat ==
  ASSUME NEW C, NEW s \in Seq(C), NEW t \in Seq(C), t # <<>>
  PROVE  Pairs(s \o t) = Pairs(s) \cup Pairs(t) \cup (IF s = <<>> THEN {} ELSE {<<s[Len(s)], t[1]>>})
<1> DEFINE u == s \o t
<1>1. /\ u \in Seq(C) /\ Len(u) = Len(s) + Len(t)
      /\ \A i \in 1..Len(s) : u[i] = s[i]
      /\ \A i \in 1..Len(t) : u[Len(s) + i] = t[i]
  OBVIOUS
<1> HIDE DEF u
<1>2. Pairs(u) = {<<u[i], u[i + 1]>> : i \in 1..(Len(u) - 1)}
  BY <1>1, PairsAre
<1>3. /\ Pairs(s) = {<<s[i], s[i + 1]>> : i \in 1..(Len(s) - 1)}
      /\ Pairs(t) = {<<t[i], t[i + 1]>> : i \in 1..(Len(t) - 1)}
  BY PairsAre
<1>4. Len(s) \in Nat /\ (s = <<>> <=> Len(s) = 0) /\ Len(t) \in Nat /\ Len(t) >= 1
  OBVIOUS
<1>5. ASSUME NEW i \in 1..(Len(s) - 1)
      PROVE  <<s[i], s[i + 1]>> \in Pairs(u)
  <2>1. i \in 1..(Len(u) - 1) /\ u[i] = s[i] /\ u[i + 1] = s[i + 1]
    BY <1>1, <1>4
  <2> QED
    BY <1>2, <2>1
<1>6. ASSUME NEW i \in 1..(Len(t) - 1)
      PROVE  <<t[i], t[i + 1]>> \in Pairs(u)
  <2>1. Len(s) + i \in 1..(Len(u) - 1) /\ u[Len(s) + i] = t[i] /\ u[(Len(s) + i) + 1] = t[i + 1]
    <3>1. i \in 1..Len(t) /\ i + 1 \in 1..Len(t) /\ (Len(s) + i) + 1 = Len(s) + (i + 1)
      BY <1>4
    <3> QED
      BY <1>1, <1>4, <3>1
  <2> QED
    BY <1>2, <2>1
<1>7. ASSUME s # <<>>
      PROVE  <<s[Len(s)], t[1]>> \in Pairs(u)
  <2>1. Len(s) \in 1..(Len(u) - 1) /\ u[Len(s)] = s[Len(s)] /\ u[Len(s) + 1] = t[1]
    BY <1>1, <1>4, <1>7
  <2> QED
    BY <1>2, <2>1
<1>8. ASSUME NEW p \in Pairs(u)
      PROVE  p \in Pairs(s) \/ p \in Pairs(t) \/ (s # <<>> /\ p = <<s[Len(s)], t[1]>>)
  <2>1. PICK i \in 1..(Len(u) - 1) : p = <<u[i], u[i + 1]>>
    BY <1>2
  <2>2. CASE i < Len(s)
    <3>1. i \in 1..(Len(s) - 1) /\ u[i] = s[i] /\ u[i + 1] = s[i + 1]
      BY <1>1, <1>4, <2>2
    <3> QED
      BY <1>3, <2>1, <3>1
  <2>3. CASE i = Len(s)
    <3>1. s # <<>> /\ u[i] = s[Len(s)] /\ u[i + 1] = t[1]
      BY <1>1, <1>4, <2>3
    <3> QED
      BY <2>1, <3>1
  <2>4. CASE i > Len(s)
    <3>1. PICK j \in 1..(Len(t) - 1) : i = Len(s) + j
      <4>1. i - Len(s) \in 1..(Len(t) - 1) /\ i = Len(s) + (i - Len(s))
        BY <1>1, <1>4, <2>4
      <4> QED
        BY <4>1
    <3>2. j \in 1..Len(t) /\ j + 1 \in 1..Len(t) /\ i + 1 = Len(s) + (j + 1)
      BY <1>4, <3>1
    <3>3. u[i] = t[j] /\ u[i + 1] = t[j + 1]
      BY <1>1, <3>1, <3>2
    <3> QED
      BY <1>3, <2>1, <3>3
  <2> QED
    BY <1>4, <2>2, <2>3, <2>4
<1>9. CASE s = <<>>
  <2>1. Pairs(s) = {}
    BY <1>3, <1>4, <1>9
  <2>2. Pairs(u) = Pairs(t)
    BY <1>3, <1>6, <1>8, <1>9, <2>1
  <2> QED
    BY <1>9, <2>1, <2>2 DEF u
<1>10. CASE s # <<>>
  <2>1. Pairs(u) = Pairs(s) \cup Pairs(t) \cup {<<s[Len(s)], t[1]>>}
    BY <1>3, <1>5, <1>6, <1>7, <1>8, <1>10
  <2> QED
    BY <1>10, <2>1 DEF u
<1> QED
  BY <1>9, <1>10

\* One or more runs.
RunLists(C) == Seq(Seq(C)) \ {<<>>}

\* Another character of a text that is split into runs.
WithNext(runs, c, breaks) ==
  IF c \notin breaks THEN Append(Front(runs), Append(Last(runs), c))
  ELSE IF Last(runs) = <<>> THEN runs ELSE Append(runs, <<>>)

\* What is before the last.
LEMMA FrontIs ==
  ASSUME NEW D, NEW s \in Seq(D), s # <<>>
  PROVE  /\ Len(s) \in Nat /\ Len(s) >= 1 /\ s[Len(s)] \in D /\ Last(s) = s[Len(s)]
         /\ Front(s) \in Seq(D) /\ Len(Front(s)) = Len(s) - 1
         /\ \A k \in 1..(Len(s) - 1) : Front(s)[k] = s[k]
<1>1. Len(s) \in Nat /\ Len(s) >= 1 /\ s[Len(s)] \in D
  OBVIOUS
<1>2. \A k \in 1..(Len(s) - 1) : s[k] \in D
  BY <1>1
<1>3. PICK n \in Nat : n = Len(s) - 1
  BY <1>1
<1>4. SubSeq(s, 1, n) \in Seq(D) /\ Len(SubSeq(s, 1, n)) = n /\ \A k \in 1..n : SubSeq(s, 1, n)[k] = s[k]
  <2>1. \A k \in 1..n : s[k] \in D
    BY <1>2, <1>3
  <2>2. SubSeq(s, 1, n) \in Seq(D) /\ Len(SubSeq(s, 1, n)) = IF 1 <= n THEN n - 1 + 1 ELSE 0
    BY <2>1, SubSeqProperties
  <2>3. \A k \in 1..(n - 1 + 1) : SubSeq(s, 1, n)[k] = s[1 + k - 1]
    BY <2>1, SubSeqProperties
  <2>4. n - 1 + 1 = n /\ \A k \in Int : 1 + k - 1 = k
    OBVIOUS
  <2> QED
    BY <2>2, <2>3, <2>4
<1> QED
  BY <1>1, <1>3, <1>4 DEF Front, Last

\* The character is at the end of the last run, or the last run is over.
Grown(C, runs, c, breaks, more, n) ==
  /\ n = Len(runs) /\ n \in Nat /\ n >= 1 /\ runs[n] \in Seq(C) /\ Last(runs) = runs[n]
  /\ c \notin breaks =>
       Len(more) = n /\ more[n] = Append(runs[n], c) /\ \A k \in 1..(n - 1) : more[k] = runs[k]
  /\ c \in breaks /\ runs[n] = <<>> => more = runs
  /\ c \in breaks /\ runs[n] # <<>> =>
       Len(more) = n + 1 /\ more[n + 1] = <<>> /\ \A k \in 1..n : more[k] = runs[k]

\* That changes the last run, or begins one.
LEMMA WithNextIs ==
  ASSUME NEW C, NEW runs \in RunLists(C), NEW c \in C, NEW breaks
  PROVE  /\ WithNext(runs, c, breaks) \in RunLists(C)
         /\ Grown(C, runs, c, breaks, WithNext(runs, c, breaks), Len(runs))
<1> DEFINE n == Len(runs)
<1>1. runs \in Seq(Seq(C)) /\ n \in Nat /\ n >= 1 /\ runs[n] \in Seq(C) /\ Last(runs) = runs[n]
  BY DEF RunLists, Last
<1>2. CASE c \notin breaks
  <2>1. PICK r : r = Append(runs[n], c)
    OBVIOUS
  <2>2. r \in Seq(C)
    BY <1>1, <2>1
  <2>3. PICK D, f : D = Seq(C) /\ f = Front(runs)
    OBVIOUS
  <2>4. f \in Seq(Seq(C)) /\ Len(f) = n - 1 /\ \A k \in 1..(n - 1) : f[k] = runs[k]
    <3>1. runs \in Seq(D) /\ runs # <<>>
      BY <1>1, <2>3 DEF RunLists
    <3> QED
      BY <2>3, <3>1, FrontIs
  <2>5. WithNext(runs, c, breaks) = Append(f, r)
    BY <1>1, <1>2, <2>1, <2>3 DEF WithNext
  <2>6. Append(f, r) \in Seq(Seq(C)) /\ Len(Append(f, r)) = n /\ Append(f, r)[n] = r /\ Append(f, r) # <<>>
    BY <1>1, <2>2, <2>4
  <2>7. \A k \in 1..(n - 1) : Append(f, r)[k] = runs[k]
    BY <1>1, <2>2, <2>4
  <2> QED
    BY <1>1, <1>2, <2>1, <2>5, <2>6, <2>7 DEF RunLists, Grown
<1>3. CASE c \in breaks /\ runs[n] = <<>>
  BY <1>1, <1>3 DEF WithNext, Grown
<1>4. CASE c \in breaks /\ runs[n] # <<>>
  <2>1. WithNext(runs, c, breaks) = Append(runs, <<>>)
    BY <1>1, <1>4 DEF WithNext
  <2>2. <<>> \in Seq(C)
    OBVIOUS
  <2>3. /\ Append(runs, <<>>) \in Seq(Seq(C)) /\ Append(runs, <<>>) # <<>> /\ Len(Append(runs, <<>>)) = n + 1
        /\ Append(runs, <<>>)[n + 1] = <<>> /\ \A k \in 1..n : Append(runs, <<>>)[k] = runs[k]
    BY <1>1, <2>2
  <2> QED
    BY <1>1, <1>4, <2>1, <2>3 DEF RunLists, Grown
<1> QED
  BY <1>2, <1>3, <1>4

\* The runs of a text, with what is in the last one.
RunsAll(all) == IF Last(all) = <<>> THEN Front(all) ELSE all

\* No character yet: one run without any.
NoRuns == <<<<>>>>

\* How a text is split, character by character.
SplitBy(C, text, breaks, f) ==
  /\ f \in [0..Len(text) -> RunLists(C)]
  /\ f[0] = NoRuns
  /\ \A m \in 1..Len(text) : f[m] = WithNext(f[m - 1], text[m], breaks)
  /\ RunsOf(text, breaks) = RunsAll(f[Len(text)])

\* What the recursion of RunsOf computes.
LEMMA SplitIs ==
  ASSUME NEW C, NEW text \in Seq(C), NEW breaks
  PROVE  \E f : SplitBy(C, text, breaks, f)
<1> DEFINE n == Len(text)
           next == [p \in (1..n) \X RunLists(C) |-> WithNext(p[2], text[p[1]], breaks)]
           Body(g) == [m \in 0..Len(text) |-> IF m = 0 THEN NoRuns ELSE WithNext(g[m - 1], text[m], breaks)]
           with == CHOOSE g : g = Body(g)
<1>1. n \in Nat
  OBVIOUS
<1>2. next \in [(1..n) \X RunLists(C) -> RunLists(C)]
  <2>1. ASSUME NEW p \in (1..n) \X RunLists(C)
        PROVE  WithNext(p[2], text[p[1]], breaks) \in RunLists(C)
    <3>1. p[2] \in RunLists(C) /\ text[p[1]] \in C
      OBVIOUS
    <3> QED
      BY <3>1, WithNextIs
  <2> QED
    BY <2>1
<1>3. NoRuns \in RunLists(C)
  BY DEF RunLists, NoRuns
<1> HIDE DEF Body, with
<1>4. PICK g \in [0..n -> RunLists(C)] : Steps(g, n, NoRuns, next)
  <2> HIDE DEF next, n
  <2> QED
    BY <1>1, <1>2, <1>3, StepsExist
<1>5. ASSUME NEW m \in 1..n
      PROVE  g[m] = WithNext(g[m - 1], text[m], breaks)
  <2>1. m - 1 \in 0..n
    BY <1>1
  <2>2. g[m] = next[<<m, g[m - 1]>>]
    BY <1>4 DEF Steps
  <2>3. <<m, g[m - 1]>> \in (1..n) \X RunLists(C)
    BY <2>1
  <2> QED
    BY <2>2, <2>3
<1>6. g[0] = NoRuns
  BY <1>4 DEF Steps
<1> HIDE DEF next
<1>7. ASSUME NEW h
      PROVE  Body(h)[0] = NoRuns /\ \A m \in 1..n : Body(h)[m] = WithNext(h[m - 1], text[m], breaks)
  <2>1. Body(h)[0] = NoRuns
    BY <1>1 DEF Body
  <2>2. ASSUME NEW m \in 1..n
        PROVE  Body(h)[m] = WithNext(h[m - 1], text[m], breaks)
    <3>1. m \in 0..n /\ m # 0
      BY <1>1
    <3> QED
      BY <3>1 DEF Body
  <2> QED
    BY <2>1, <2>2
<1>8. g = Body(g)
  <2>1. Body(g) = [m \in 0..n |-> Body(g)[m]]
    BY DEF Body
  <2>2. g = [m \in 0..n |-> g[m]]
    OBVIOUS
  <2>3. ASSUME NEW m \in 0..n
        PROVE  Body(g)[m] = g[m]
    <3>1. CASE m = 0
      BY <1>6, <1>7, <3>1
    <3>2. CASE m \in 1..n
      BY <1>5, <1>7, <3>2
    <3> QED
      BY <1>1, <3>1, <3>2
  <2> QED
    BY <2>1, <2>2, <2>3
<1>9. with = Body(with)
  BY <1>8 DEF with
<1>10. with[0] = NoRuns /\ \A m \in 1..n : with[m] = WithNext(with[m - 1], text[m], breaks)
  BY <1>7, <1>9
<1>11. 0..n \subseteq {m \in 0..n : with[m] = g[m]}
  <2> DEFINE S == {m \in 0..n : with[m] = g[m]}
  <2>1. 0 \in S
    BY <1>1, <1>6, <1>10
  <2>2. ASSUME NEW m \in 1..n, m - 1 \in S
        PROVE  m \in S
    BY <1>1, <1>5, <1>10, <2>2
  <2> HIDE DEF S
  <2>3. 0..n \subseteq S
    BY <1>1, <2>1, <2>2, InductionUpTo
  <2> QED
    BY <2>3 DEF S
<1>12. RunsOf(text, breaks) = RunsAll(with[n])
  BY DEF NoRuns, RunsOf, RunsAll, WithNext, with, Body
<1>13. SplitBy(C, text, breaks, g)
  BY <1>1, <1>5, <1>6, <1>11, <1>12 DEF SplitBy
<1> QED
  BY <1>13

\* Another word on a line.
WithWord(line, word, space) == IF line = <<>> THEN word ELSE Append(line, space) \o word

\* How words are joined, one after another.
JoinedBy(C, words, space, f) ==
  /\ f \in [0..Len(words) -> Seq(C)]
  /\ f[0] = <<>>
  /\ \A m \in 1..Len(words) : f[m] = WithWord(f[m - 1], words[m], space)
  /\ Joined(words, space) = f[Len(words)]

\* What the recursion of Joined computes.
LEMMA JoinedIs ==
  ASSUME NEW C, NEW words \in Seq(Seq(C)), NEW space \in C
  PROVE  \E f : JoinedBy(C, words, space, f)
<1> DEFINE n == Len(words)
           next == [p \in (1..n) \X Seq(C) |-> WithWord(p[2], words[p[1]], space)]
           Body(g) == [m \in 0..Len(words) |-> IF m = 0 THEN <<>> ELSE WithWord(g[m - 1], words[m], space)]
           with == CHOOSE g : g = Body(g)
<1>1. n \in Nat
  OBVIOUS
<1>2. next \in [(1..n) \X Seq(C) -> Seq(C)]
  <2>1. ASSUME NEW p \in (1..n) \X Seq(C)
        PROVE  WithWord(p[2], words[p[1]], space) \in Seq(C)
    <3>1. p[2] \in Seq(C) /\ words[p[1]] \in Seq(C)
      OBVIOUS
    <3> QED
      BY <3>1 DEF WithWord
  <2> QED
    BY <2>1
<1>3. <<>> \in Seq(C)
  OBVIOUS
<1> HIDE DEF Body, with
<1>4. PICK g \in [0..n -> Seq(C)] : Steps(g, n, <<>>, next)
  <2> HIDE DEF next, n
  <2> QED
    BY <1>1, <1>2, <1>3, StepsExist
<1>5. ASSUME NEW m \in 1..n
      PROVE  g[m] = WithWord(g[m - 1], words[m], space)
  <2>1. m - 1 \in 0..n
    BY <1>1
  <2>2. g[m] = next[<<m, g[m - 1]>>]
    BY <1>4 DEF Steps
  <2>3. <<m, g[m - 1]>> \in (1..n) \X Seq(C)
    BY <2>1
  <2> QED
    BY <2>2, <2>3
<1>6. g[0] = <<>>
  BY <1>4 DEF Steps
<1> HIDE DEF next
<1>7. ASSUME NEW h
      PROVE  Body(h)[0] = <<>> /\ \A m \in 1..n : Body(h)[m] = WithWord(h[m - 1], words[m], space)
  <2>1. Body(h)[0] = <<>>
    BY <1>1 DEF Body
  <2>2. ASSUME NEW m \in 1..n
        PROVE  Body(h)[m] = WithWord(h[m - 1], words[m], space)
    <3>1. m \in 0..n /\ m # 0
      BY <1>1
    <3> QED
      BY <3>1 DEF Body
  <2> QED
    BY <2>1, <2>2
<1>8. g = Body(g)
  <2>1. Body(g) = [m \in 0..n |-> Body(g)[m]]
    BY DEF Body
  <2>2. g = [m \in 0..n |-> g[m]]
    OBVIOUS
  <2>3. ASSUME NEW m \in 0..n
        PROVE  Body(g)[m] = g[m]
    <3>1. CASE m = 0
      BY <1>6, <1>7, <3>1
    <3>2. CASE m \in 1..n
      BY <1>5, <1>7, <3>2
    <3> QED
      BY <1>1, <3>1, <3>2
  <2> QED
    BY <2>1, <2>2, <2>3
<1>9. with = Body(with)
  BY <1>8 DEF with
<1>10. with[0] = <<>> /\ \A m \in 1..n : with[m] = WithWord(with[m - 1], words[m], space)
  BY <1>7, <1>9
<1>11. 0..n \subseteq {m \in 0..n : with[m] = g[m]}
  <2> DEFINE S == {m \in 0..n : with[m] = g[m]}
  <2>1. 0 \in S
    BY <1>1, <1>6, <1>10
  <2>2. ASSUME NEW m \in 1..n, m - 1 \in S
        PROVE  m \in S
    BY <1>1, <1>5, <1>10, <2>2
  <2> HIDE DEF S
  <2>3. 0..n \subseteq S
    BY <1>1, <2>1, <2>2, InductionUpTo
  <2> QED
    BY <2>3 DEF S
<1>12. Joined(words, space) = with[n]
  BY DEF Joined, WithWord, with, Body
<1>13. JoinedBy(C, words, space, g)
  BY <1>1, <1>5, <1>6, <1>11, <1>12 DEF JoinedBy
<1> QED
  BY <1>13

\* A pair of some run.
LEMMA InPairs ==
  ASSUME NEW runs, NEW x
  PROVE  x \in PairsIn(runs) <=> \E k \in 1..Len(runs) : x \in Pairs(runs[k])
<1>1. x \in UNION {Pairs(runs[k]) : k \in 1..Len(runs)} <=> \E k \in 1..Len(runs) : x \in Pairs(runs[k])
  BY Zenon
<1> QED
  BY <1>1 DEF PairsIn

\* The pairs that another character makes.
LEMMA PairsWithNext ==
  ASSUME NEW C, NEW runs \in RunLists(C), NEW c \in C, NEW breaks
  PROVE  PairsIn(WithNext(runs, c, breaks)) =
           PairsIn(runs) \cup
             (IF c \notin breaks /\ Last(runs) # <<>> THEN {<<Last(runs)[Len(Last(runs))], c>>} ELSE {})
<1> DEFINE n == Len(runs)
           more == WithNext(runs, c, breaks)
           end == Last(runs)
<1>1. n = Len(runs) /\ more = WithNext(runs, c, breaks) /\ end = Last(runs)
  OBVIOUS
<1>2. /\ n \in Nat /\ n >= 1 /\ runs[n] \in Seq(C) /\ end = runs[n]
      /\ c \notin breaks =>
           Len(more) = n /\ more[n] = Append(runs[n], c) /\ \A k \in 1..(n - 1) : more[k] = runs[k]
      /\ c \in breaks /\ runs[n] = <<>> => more = runs
      /\ c \in breaks /\ runs[n] # <<>> =>
           Len(more) = n + 1 /\ more[n + 1] = <<>> /\ \A k \in 1..n : more[k] = runs[k]
  <2>1. Grown(C, runs, c, breaks, more, n)
    BY WithNextIs
  <2> HIDE DEF n, more, end
  <2> QED
    BY <1>1, <2>1 DEF Grown
<1> HIDE DEF n, more, end
<1>3. \A k \in 1..n : k = n \/ k \in 1..(n - 1)
  BY <1>2
<1>4. CASE c \notin breaks
  <2>1. Pairs(more[n]) = Pairs(end) \cup (IF end = <<>> THEN {} ELSE {<<end[Len(end)], c>>})
    <3>1. end \in Seq(C) /\ more[n] = Append(end, c)
      BY <1>2, <1>4
    <3>2. Pairs(Append(end, c)) = Pairs(end) \cup (IF end = <<>> THEN {} ELSE {<<end[Len(end)], c>>})
      BY <3>1, PairsOfAppend
    <3> QED
      BY <3>1, <3>2
  <2>2. PICK added : added = IF end = <<>> THEN {} ELSE {<<end[Len(end)], c>>}
    OBVIOUS
  <2>3. Pairs(more[n]) = Pairs(runs[n]) \cup added /\ n \in 1..n /\ Len(more) = n
    BY <1>2, <1>4, <2>1, <2>2
  <2>4. \A k \in 1..(n - 1) : k \in 1..n /\ more[k] = runs[k]
    BY <1>2, <1>4
  <2>5. ASSUME NEW x
        PROVE  x \in PairsIn(more) <=> x \in PairsIn(runs) \/ x \in added
    <3>1. x \in PairsIn(more) <=> \E k \in 1..n : x \in Pairs(more[k])
      BY <2>3, InPairs
    <3>2. x \in PairsIn(runs) <=> \E k \in 1..n : x \in Pairs(runs[k])
      BY <1>1, InPairs
    <3> QED
      BY <1>3, <2>3, <2>4, <3>1, <3>2
  <2>6. PairsIn(more) = PairsIn(runs) \cup added
    BY <2>5
  <2> QED
    BY <1>1, <1>4, <2>2, <2>6
<1>5. CASE c \in breaks /\ runs[n] = <<>>
  BY <1>1, <1>2, <1>5
<1>6. CASE c \in breaks /\ runs[n] # <<>>
  <2>1. Pairs(more[n + 1]) = {}
    <3>1. PICK none : none = <<>>
      OBVIOUS
    <3>2. none \in Seq(C) /\ Len(none) = 0
      BY <3>1
    <3>3. Pairs(none) = {<<none[i], none[i + 1]>> : i \in 1..(0 - 1)}
      BY <3>2, PairsAre
    <3>4. 1..(0 - 1) = {}
      OBVIOUS
    <3>5. Pairs(none) = {}
      BY <3>3, <3>4
    <3> QED
      BY <1>2, <1>6, <3>1, <3>5
  <2>2. \A k \in 1..(n + 1) : k = n + 1 \/ k \in 1..n
    BY <1>2
  <2>3. Len(more) = n + 1 /\ \A k \in 1..n : k \in 1..(n + 1) /\ more[k] = runs[k]
    BY <1>2, <1>6
  <2>4. ASSUME NEW x
        PROVE  x \in PairsIn(more) <=> x \in PairsIn(runs)
    <3>1. x \in PairsIn(more) <=> \E k \in 1..(n + 1) : x \in Pairs(more[k])
      BY <2>3, InPairs
    <3>2. x \in PairsIn(runs) <=> \E k \in 1..n : x \in Pairs(runs[k])
      BY <1>1, InPairs
    <3> QED
      BY <2>1, <2>2, <2>3, <3>1, <3>2
  <2>5. PairsIn(more) = PairsIn(runs)
    BY <2>4
  <2> QED
    BY <1>1, <1>6, <2>5
<1> QED
  BY <1>4, <1>5, <1>6

\* The neighbours among the first m characters of which neither breaks a run.
Kept(text, breaks, m) ==
  {<<text[i], text[i + 1]>> : i \in {j \in 1..(m - 1) : text[j] \notin breaks /\ text[j + 1] \notin breaks}}

\* One more character.
LEMMA KeptMore ==
  ASSUME NEW text, NEW breaks, NEW m \in Nat \ {0}
  PROVE  Kept(text, breaks, m) =
           Kept(text, breaks, m - 1) \cup
             (IF m > 1 /\ text[m - 1] \notin breaks /\ text[m] \notin breaks THEN {<<text[m - 1], text[m]>>} ELSE {})
<1> DEFINE good == {j \in 1..(m - 1) : text[j] \notin breaks /\ text[j + 1] \notin breaks}
           less == {j \in 1..(m - 1 - 1) : text[j] \notin breaks /\ text[j + 1] \notin breaks}
<1>1. good = less \cup (IF m > 1 /\ text[m - 1] \notin breaks /\ text[m] \notin breaks THEN {m - 1} ELSE {})
  <2>1. ASSUME NEW j \in Int
        PROVE  j \in 1..(m - 1) <=> j \in 1..(m - 1 - 1) \/ (m > 1 /\ j = m - 1)
    OBVIOUS
  <2>2. m - 1 + 1 = m
    OBVIOUS
  <2> QED
    BY <2>1, <2>2
<1>2. /\ Kept(text, breaks, m) = {<<text[i], text[i + 1]>> : i \in good}
      /\ Kept(text, breaks, m - 1) = {<<text[i], text[i + 1]>> : i \in less}
  BY DEF Kept
<1>3. m - 1 + 1 = m
  OBVIOUS
<1> HIDE DEF good, less
<1> QED
  BY <1>1, <1>2, <1>3

\* What the first m characters of a text are split into.
SplitOK(text, breaks, m, runs) ==
  /\ PairsIn(runs) = Kept(text, breaks, m)
  /\ IF m = 0 \/ text[m] \in breaks THEN Last(runs) = <<>>
     ELSE Last(runs) # <<>> /\ Last(runs)[Len(Last(runs))] = text[m]
  /\ \A k \in 1..(Len(runs) - 1) : runs[k] # <<>>
  /\ \A k \in 1..Len(runs) : \A i \in 1..Len(runs[k]) : runs[k][i] \notin breaks

\* Every further character keeps that.
LEMMA SplitMore ==
  ASSUME NEW C, NEW text \in Seq(C), NEW breaks, NEW m \in 1..Len(text), NEW runs \in RunLists(C),
         SplitOK(text, breaks, m - 1, runs)
  PROVE  SplitOK(text, breaks, m, WithNext(runs, text[m], breaks))
<1>0. PICK c \in C : c = text[m]
  OBVIOUS
<1> DEFINE n == Len(runs)
           more == WithNext(runs, c, breaks)
<1>1. c \in C /\ m \in Nat \ {0} /\ n = Len(runs) /\ c = text[m] /\ more = WithNext(runs, c, breaks)
  BY <1>0
<1>2. /\ more \in RunLists(C)
      /\ n \in Nat /\ n >= 1 /\ runs[n] \in Seq(C) /\ Last(runs) = runs[n]
      /\ c \notin breaks =>
           Len(more) = n /\ more[n] = Append(runs[n], c) /\ \A k \in 1..(n - 1) : more[k] = runs[k]
      /\ c \in breaks /\ runs[n] = <<>> => more = runs
      /\ c \in breaks /\ runs[n] # <<>> =>
           Len(more) = n + 1 /\ more[n + 1] = <<>> /\ \A k \in 1..n : more[k] = runs[k]
  <2>1. more \in RunLists(C) /\ Grown(C, runs, c, breaks, more, n)
    BY WithNextIs
  <2> HIDE DEF n, more
  <2> QED
    BY <2>1 DEF Grown
<1>3. PairsIn(more) =
        PairsIn(runs) \cup (IF c \notin breaks /\ Last(runs) # <<>> THEN {<<Last(runs)[Len(Last(runs))], c>>} ELSE {})
  BY <1>1, PairsWithNext
<1> HIDE DEF n, more
<1>4. Kept(text, breaks, m) =
        Kept(text, breaks, m - 1) \cup
          (IF m > 1 /\ text[m - 1] \notin breaks /\ text[m] \notin breaks THEN {<<text[m - 1], text[m]>>} ELSE {})
  <2>1. m \in Nat \ {0}
    BY <1>1
  <2> QED
    BY <2>1, KeptMore
<1>5. /\ PairsIn(runs) = Kept(text, breaks, m - 1)
      /\ IF m - 1 = 0 \/ text[m - 1] \in breaks THEN runs[n] = <<>>
         ELSE runs[n] # <<>> /\ runs[n][Len(runs[n])] = text[m - 1]
      /\ \A k \in 1..(n - 1) : runs[k] # <<>>
      /\ \A k \in 1..n : \A i \in 1..Len(runs[k]) : runs[k][i] \notin breaks
  BY <1>1, <1>2 DEF SplitOK
<1>6. PairsIn(more) = Kept(text, breaks, m)
  <2>1. CASE c \in breaks
    BY <1>1, <1>3, <1>4, <1>5, <2>1
  <2>2. CASE c \notin breaks /\ (m = 1 \/ text[m - 1] \in breaks)
    <3>1. runs[n] = <<>>
      BY <1>1, <1>5, <2>2
    <3>2. PairsIn(more) = PairsIn(runs)
      BY <1>2, <1>3, <3>1
    <3>3. Kept(text, breaks, m) = Kept(text, breaks, m - 1)
      BY <1>1, <1>4, <2>2
    <3> QED
      BY <1>5, <3>2, <3>3
  <2>3. CASE c \notin breaks /\ m # 1 /\ text[m - 1] \notin breaks
    <3>1. runs[n] # <<>> /\ runs[n][Len(runs[n])] = text[m - 1]
      BY <1>1, <1>5, <2>3
    <3>2. PairsIn(more) = PairsIn(runs) \cup {<<text[m - 1], c>>}
      BY <1>2, <1>3, <2>3, <3>1
    <3>3. m > 1
      BY <1>1, <2>3
    <3>4. Kept(text, breaks, m) = Kept(text, breaks, m - 1) \cup {<<text[m - 1], c>>}
      BY <1>1, <1>4, <2>3, <3>3
    <3> QED
      BY <1>5, <3>2, <3>4
  <2> QED
    BY <2>1, <2>2, <2>3
<1>7. Len(more) \in Nat /\ Len(more) >= 1 /\ Last(more) = more[Len(more)]
  <2>1. PICK D : D = Seq(C)
    OBVIOUS
  <2>2. more \in Seq(D) /\ more # <<>>
    BY <1>2, <2>1 DEF RunLists
  <2> QED
    BY <2>2, FrontIs
<1>8. CASE c \notin breaks
  <2>1. PICK r : r = runs[n]
    OBVIOUS
  <2>2. r \in Seq(C) /\ more[n] = Append(r, c) /\ Len(r) \in Nat
    BY <1>2, <1>8, <2>1
  <2>3. Append(r, c) # <<>> /\ Len(Append(r, c)) = Len(r) + 1 /\ Append(r, c)[Len(r) + 1] = c
        /\ \A i \in 1..Len(r) : Append(r, c)[i] = r[i]
    <3>1. r \in Seq(C) /\ c \in C
      BY <1>1, <2>2
    <3>2. Append(r, c) # <<>> /\ Len(Append(r, c)) = Len(r) + 1
      BY <3>1
    <3>3. Append(r, c)[Len(r) + 1] = c
      BY <3>1
    <3>4. \A i \in 1..Len(r) : Append(r, c)[i] = r[i]
      BY <3>1
    <3> QED
      BY <3>2, <3>3, <3>4
  <2>4. Last(more) # <<>> /\ Last(more)[Len(Last(more))] = c
    BY <1>2, <1>7, <1>8, <2>2, <2>3
  <2>5. \A i \in 1..(Len(r) + 1) : i = Len(r) + 1 \/ i \in 1..Len(r)
    BY <2>2
  <2>6. \A i \in 1..Len(r) : r[i] \notin breaks
    BY <1>2, <1>5, <2>1
  <2>7. \A i \in 1..(Len(r) + 1) : Append(r, c)[i] \notin breaks
    BY <1>8, <2>3, <2>5, <2>6
  <2>8. \A k \in 1..n : k = n \/ (k \in 1..(n - 1) /\ more[k] = runs[k])
    BY <1>2, <1>8
  <2>9. \A k \in 1..(Len(more) - 1) : more[k] # <<>>
    BY <1>2, <1>5, <1>8
  <2>10. ASSUME NEW k \in 1..Len(more), NEW i \in 1..Len(more[k])
         PROVE  more[k][i] \notin breaks
    <3>1. CASE k = n
      BY <2>2, <2>3, <2>7, <3>1
    <3>2. CASE k # n
      BY <1>2, <1>5, <1>8, <2>8, <3>2
    <3> QED
      BY <3>1, <3>2
  <2> QED
    BY <1>1, <1>6, <1>8, <2>4, <2>9, <2>10 DEF SplitOK
<1>9. CASE c \in breaks /\ runs[n] = <<>>
  BY <1>1, <1>2, <1>5, <1>6, <1>9 DEF SplitOK
<1>10. CASE c \in breaks /\ runs[n] # <<>>
  <2>1. Last(more) = <<>>
    BY <1>2, <1>7, <1>10
  <2>2. \A k \in 1..n : k = n \/ k \in 1..(n - 1)
    BY <1>2
  <2>3. \A k \in 1..(Len(more) - 1) : more[k] # <<>>
    BY <1>2, <1>5, <1>10, <2>2
  <2>4. ASSUME NEW k \in 1..Len(more), NEW i \in 1..Len(more[k])
        PROVE  more[k][i] \notin breaks
    <3>1. CASE k = n + 1
      <4>1. Len(more[k]) = 0
        BY <1>2, <1>10, <3>1
      <4> QED
        BY <4>1
    <3>2. CASE k # n + 1
      BY <1>2, <1>5, <1>10, <3>2
    <3> QED
      BY <3>1, <3>2
  <2> QED
    BY <1>1, <1>6, <1>10, <2>1, <2>3, <2>4 DEF SplitOK
<1> QED
  BY <1>8, <1>9, <1>10

\* The pairs without what breaks a run are those that the splitting keeps.
LEMMA UnbrokenIs ==
  ASSUME NEW C, NEW text \in Seq(C), NEW breaks
  PROVE  Kept(text, breaks, Len(text)) = Unbroken(text, breaks)
<1>1. Pairs(text) = {<<text[i], text[i + 1]>> : i \in 1..(Len(text) - 1)}
  BY PairsAre
<1>2. ASSUME NEW p \in Kept(text, breaks, Len(text))
      PROVE  p \in Unbroken(text, breaks)
  <2>1. PICK i \in 1..(Len(text) - 1) :
          p = <<text[i], text[i + 1]>> /\ text[i] \notin breaks /\ text[i + 1] \notin breaks
    BY <1>2 DEF Kept
  <2>2. p \in Pairs(text)
    BY <1>1, <2>1
  <2>3. p[1] = text[i] /\ p[2] = text[i + 1]
    BY <2>1
  <2> QED
    BY <2>1, <2>2, <2>3 DEF Unbroken
<1>3. ASSUME NEW p \in Unbroken(text, breaks)
      PROVE  p \in Kept(text, breaks, Len(text))
  <2>1. PICK i \in 1..(Len(text) - 1) : p = <<text[i], text[i + 1]>>
    BY <1>1, <1>3 DEF Unbroken
  <2>2. p[1] = text[i] /\ p[2] = text[i + 1]
    BY <2>1
  <2>3. text[i] \notin breaks /\ text[i + 1] \notin breaks
    BY <1>3, <2>2 DEF Unbroken
  <2> QED
    BY <2>1, <2>3 DEF Kept
<1> QED
  BY <1>2, <1>3

\* The words that a text is split into.
WordsOf(C, breaks, words) ==
  /\ words \in Seq(Seq(C))
  /\ \A k \in 1..Len(words) : words[k] # <<>>
  /\ \A k \in 1..Len(words) : \A i \in 1..Len(words[k]) : words[k][i] \notin breaks

\* The first characters are split as they should be.
LEMMA FirstSplit ==
  ASSUME NEW text, NEW breaks
  PROVE  SplitOK(text, breaks, 0, NoRuns)
<1>1. PICK none : none = <<>>
  OBVIOUS
<1>2. none \in Seq({}) /\ Len(none) = 0
  BY <1>1
<1>3. PICK runs : runs = NoRuns
  OBVIOUS
<1>4. runs = <<none>>
  BY <1>1, <1>3 DEF NoRuns
<1>5. Len(runs) = 1 /\ runs[1] = none /\ Last(runs) = none
  BY <1>4 DEF Last
<1>6. PairsIn(runs) = {}
  <2>1. Pairs(none) = {<<none[i], none[i + 1]>> : i \in 1..(0 - 1)}
    BY <1>2, PairsAre
  <2>2. Pairs(none) = {}
    BY <2>1
  <2>3. ASSUME NEW x PROVE x \notin PairsIn(runs)
    <3>1. x \in PairsIn(runs) <=> \E k \in 1..1 : x \in Pairs(runs[k])
      BY <1>5, InPairs
    <3>2. \A k \in 1..1 : k = 1
      OBVIOUS
    <3> QED
      BY <1>5, <2>2, <3>1, <3>2
  <2> QED
    BY <2>3
<1>7. Kept(text, breaks, 0) = {}
  <2>1. 1..(0 - 1) = {}
    OBVIOUS
  <2> QED
    BY <2>1 DEF Kept
<1>8. \A k \in 1..(Len(runs) - 1) : runs[k] # <<>>
  BY <1>5
<1>9. \A k \in 1..Len(runs) : \A i \in 1..Len(runs[k]) : runs[k][i] \notin breaks
  <2>1. ASSUME NEW k \in 1..Len(runs) PROVE Len(runs[k]) = 0
    BY <1>2, <1>5
  <2> QED
    BY <2>1
<1> QED
  BY <1>1, <1>3, <1>5, <1>6, <1>7, <1>8, <1>9 DEF SplitOK

\* Runs: they have the pairs of the text that nothing breaks.
LEMMA RunsAre ==
  ASSUME NEW C, NEW text \in Seq(C), NEW breaks
  PROVE  WordsOf(C, breaks, RunsOf(text, breaks)) /\ PairsIn(RunsOf(text, breaks)) = Unbroken(text, breaks)
<1>0. PICK f : SplitBy(C, text, breaks, f)
  BY SplitIs
<1>1. /\ f \in [0..Len(text) -> RunLists(C)]
      /\ f[0] = NoRuns
      /\ \A m \in 1..Len(text) : f[m] = WithNext(f[m - 1], text[m], breaks)
      /\ RunsOf(text, breaks) = RunsAll(f[Len(text)])
  BY <1>0 DEF SplitBy
<1>2. Len(text) \in Nat
  OBVIOUS
<1>3. SplitOK(text, breaks, Len(text), f[Len(text)])
  <2> DEFINE S == {m \in 0..Len(text) : SplitOK(text, breaks, m, f[m])}
  <2>1. 0 \in S
    BY <1>1, <1>2, FirstSplit
  <2>2. ASSUME NEW m \in 1..Len(text), m - 1 \in S
        PROVE  m \in S
    <3>1. f[m - 1] \in RunLists(C) /\ SplitOK(text, breaks, m - 1, f[m - 1])
      BY <1>1, <2>2
    <3>2. SplitOK(text, breaks, m, WithNext(f[m - 1], text[m], breaks))
      BY <3>1, SplitMore
    <3> QED
      BY <1>1, <3>2
  <2> HIDE DEF S
  <2>3. 0..Len(text) \subseteq S
    BY <1>2, <2>1, <2>2, InductionUpTo
  <2>4. Len(text) \in 0..Len(text)
    BY <1>2
  <2> QED
    BY <2>3, <2>4 DEF S
<1>4. PICK all, words : all = f[Len(text)] /\ words = RunsOf(text, breaks)
  OBVIOUS
<1>5. all \in RunLists(C)
  BY <1>1, <1>2, <1>4
<1>6. PICK D : D = Seq(C)
  OBVIOUS
<1>7. PICK n : n = Len(all)
  OBVIOUS
<1>8. /\ all \in Seq(D) /\ n \in Nat /\ n >= 1 /\ Last(all) = all[n] /\ all[n] \in D
      /\ Front(all) \in Seq(D) /\ Len(Front(all)) = n - 1 /\ \A k \in 1..(n - 1) : Front(all)[k] = all[k]
  <2>1. all \in Seq(D) /\ all # <<>>
    BY <1>5, <1>6 DEF RunLists
  <2> QED
    BY <1>7, <2>1, FrontIs
<1>9. /\ PairsIn(all) = Unbroken(text, breaks)
      /\ \A k \in 1..(n - 1) : all[k] # <<>>
      /\ \A k \in 1..n : \A i \in 1..Len(all[k]) : all[k][i] \notin breaks
  BY <1>3, <1>4, <1>7, UnbrokenIs DEF SplitOK
<1>10. \A k \in 1..n : k = n \/ k \in 1..(n - 1)
  BY <1>8
<1>11. CASE Last(all) = <<>>
  <2>1. words = Front(all)
    BY <1>1, <1>4, <1>11 DEF RunsAll
  <2>2. PICK last : last = all[n]
    OBVIOUS
  <2>3. last \in Seq(C) /\ Len(last) = 0
    <3>1. last \in Seq(C) /\ last = <<>>
      BY <1>6, <1>8, <1>11, <2>2
    <3> QED
      BY <3>1
  <2>4. Pairs(last) = {}
    <3>1. Pairs(last) = {<<last[i], last[i + 1]>> : i \in 1..(Len(last) - 1)}
      BY <2>3, PairsAre
    <3>2. 1..(Len(last) - 1) = {}
      BY <2>3
    <3> QED
      BY <3>1, <3>2
  <2>5. ASSUME NEW x
        PROVE  x \in PairsIn(words) <=> x \in PairsIn(all)
    <3>1. x \in PairsIn(words) <=> \E k \in 1..(n - 1) : x \in Pairs(words[k])
      BY <1>8, <2>1, InPairs
    <3>2. x \in PairsIn(all) <=> \E k \in 1..n : x \in Pairs(all[k])
      BY <1>7, InPairs
    <3>3. \A k \in 1..(n - 1) : k \in 1..n /\ words[k] = all[k]
      BY <1>8, <2>1
    <3> QED
      BY <1>10, <2>2, <2>4, <3>1, <3>2, <3>3
  <2>6. PairsIn(words) = PairsIn(all)
    BY <2>5
  <2>7. WordsOf(C, breaks, words)
    <3>1. words \in Seq(Seq(C)) /\ Len(words) = n - 1
      BY <1>6, <1>8, <2>1
    <3>2. \A k \in 1..(n - 1) : k \in 1..n /\ words[k] = all[k]
      BY <1>8, <2>1
    <3> QED
      BY <1>9, <3>1, <3>2 DEF WordsOf
  <2> QED
    BY <1>4, <1>9, <2>6, <2>7
<1>12. CASE Last(all) # <<>>
  <2>1. words = all
    BY <1>1, <1>4, <1>12 DEF RunsAll
  <2>2. \A k \in 1..n : all[k] # <<>>
    BY <1>8, <1>9, <1>10, <1>12
  <2>3. WordsOf(C, breaks, words)
    BY <1>6, <1>7, <1>8, <1>9, <2>1, <2>2 DEF WordsOf
  <2> QED
    BY <1>4, <1>9, <2>1, <2>3
<1> QED
  BY <1>11, <1>12

\* The pairs of the first m words.
PairsUpTo(words, m) == {x \in PairsIn(words) : \E k \in 1..m : x \in Pairs(words[k])}

\* What a line of the first m words is.
LineOK(words, space, m, line) ==
  /\ line = <<>> <=> m = 0
  /\ Unbroken(line, {space}) = PairsUpTo(words, m)

\* A word's characters are in its pairs.
LEMMA PairsOfWord ==
  ASSUME NEW C, NEW word \in Seq(C), NEW breaks, \A i \in 1..Len(word) : word[i] \notin breaks
  PROVE  Unbroken(word, breaks) = Pairs(word)
<1>1. Pairs(word) = {<<word[i], word[i + 1]>> : i \in 1..(Len(word) - 1)}
  BY PairsAre
<1>2. ASSUME NEW p \in Pairs(word)
      PROVE  p[1] \notin breaks /\ p[2] \notin breaks
  <2>1. PICK i \in 1..(Len(word) - 1) : p = <<word[i], word[i + 1]>>
    BY <1>1
  <2>2. p[1] = word[i] /\ p[2] = word[i + 1]
    BY <2>1
  <2>3. i \in 1..Len(word) /\ i + 1 \in 1..Len(word)
    OBVIOUS
  <2> QED
    BY <2>2, <2>3
<1> QED
  BY <1>2 DEF Unbroken

\* A space and a word after a line.
LEMMA PairsWithWord ==
  ASSUME NEW C, NEW line \in Seq(C), NEW word \in Seq(C), NEW space \in C,
         line # <<>>, word # <<>>, \A i \in 1..Len(word) : word[i] # space
  PROVE  /\ WithWord(line, word, space) # <<>>
         /\ Unbroken(WithWord(line, word, space), {space}) = Unbroken(line, {space}) \cup Pairs(word)
<1>1. PICK spaced : spaced = Append(line, space)
  OBVIOUS
<1>2. PICK end, both : end = line[Len(line)] /\ both = spaced \o word
  OBVIOUS
<1>3. spaced \in Seq(C) /\ spaced # <<>> /\ Len(spaced) = Len(line) + 1 /\ spaced[Len(spaced)] = space
  BY <1>1
<1>4. Pairs(spaced) = Pairs(line) \cup {<<end, space>>}
  <2>1. Pairs(Append(line, space)) = Pairs(line) \cup (IF line = <<>> THEN {} ELSE {<<line[Len(line)], space>>})
    BY PairsOfAppend
  <2> QED
    BY <1>1, <1>2, <2>1
<1>5. Pairs(both) = Pairs(spaced) \cup Pairs(word) \cup {<<space, word[1]>>}
  <2>1. Pairs(spaced \o word) =
          Pairs(spaced) \cup Pairs(word) \cup (IF spaced = <<>> THEN {} ELSE {<<spaced[Len(spaced)], word[1]>>})
    BY <1>3, PairsOfConcat
  <2> QED
    BY <1>2, <1>3, <2>1
<1>6. Unbroken(word, {space}) = Pairs(word)
  BY PairsOfWord
<1>7. <<end, space>>[2] = space /\ <<space, word[1]>>[1] = space
  OBVIOUS
<1>8. ASSUME NEW p
      PROVE  p \in Unbroken(both, {space}) <=> p \in Unbroken(line, {space}) \/ p \in Pairs(word)
  BY <1>4, <1>5, <1>6, <1>7 DEF Unbroken
<1>9. Unbroken(both, {space}) = Unbroken(line, {space}) \cup Pairs(word)
  BY <1>8
<1>10. both # <<>>
  <2>1. spaced \o word \in Seq(C) /\ Len(spaced \o word) = Len(spaced) + Len(word)
    BY <1>3
  <2>2. Len(spaced) \in Nat /\ Len(word) \in Nat /\ Len(word) # 0
    BY <1>3
  <2>3. Len(both) # 0
    BY <1>2, <2>1, <2>2
  <2>4. Len(<<>>) = 0
    OBVIOUS
  <2> QED
    BY <2>3, <2>4
<1>11. both = WithWord(line, word, space)
  BY <1>1, <1>2 DEF WithWord
<1> QED
  BY <1>9, <1>10, <1>11

\* A word after a line that may be empty.
LEMMA PairsAfter ==
  ASSUME NEW C, NEW line \in Seq(C), NEW word \in Seq(C), NEW space \in C,
         word # <<>>, \A i \in 1..Len(word) : word[i] # space
  PROVE  /\ WithWord(line, word, space) # <<>>
         /\ Unbroken(WithWord(line, word, space), {space}) = Unbroken(line, {space}) \cup Pairs(word)
<1>1. CASE line = <<>>
  <2>1. WithWord(line, word, space) = word
    BY <1>1 DEF WithWord
  <2>2. Unbroken(word, {space}) = Pairs(word)
    BY PairsOfWord
  <2>3. Unbroken(line, {space}) = {}
    <3>1. Pairs(line) = {<<line[i], line[i + 1]>> : i \in 1..(Len(line) - 1)}
      BY PairsAre
    <3>2. 1..(Len(line) - 1) = {}
      BY <1>1
    <3> QED
      BY <3>1, <3>2 DEF Unbroken
  <2> QED
    BY <2>1, <2>2, <2>3
<1>2. CASE line # <<>>
  BY <1>2, PairsWithWord
<1> QED
  BY <1>1, <1>2

\* One more word.
LEMMA LineMore ==
  ASSUME NEW words, NEW space, NEW m \in Nat \ {0}, m <= Len(words), Len(words) \in Nat, NEW line, NEW more,
         LineOK(words, space, m - 1, line),
         more # <<>>, Unbroken(more, {space}) = Unbroken(line, {space}) \cup Pairs(words[m])
  PROVE  LineOK(words, space, m, more)
<1>1. PICK word : m \in 1..Len(words) /\ word = words[m]
  OBVIOUS
<1>2. m \in Nat /\ m >= 1 /\ (line = <<>> <=> m - 1 = 0) /\ Unbroken(line, {space}) = PairsUpTo(words, m - 1)
  BY DEF LineOK
<1>3. Unbroken(more, {space}) = Unbroken(line, {space}) \cup Pairs(word) /\ more # <<>>
  BY <1>1
<1>4. PairsUpTo(words, m) = PairsUpTo(words, m - 1) \cup Pairs(word)
  <2>1. \A k \in 1..m : k = m \/ k \in 1..(m - 1)
    BY <1>2
  <2>2. \A k \in 1..(m - 1) : k \in 1..m
    BY <1>2
  <2>3. ASSUME NEW x \in Pairs(word) PROVE x \in PairsIn(words)
    BY <1>1, <2>3, InPairs
  <2>4. m \in 1..m
    BY <1>2
  <2> QED
    BY <1>1, <2>1, <2>2, <2>3, <2>4 DEF PairsUpTo
<1>5. LineOK(words, space, m, more)
  <2>1. Unbroken(more, {space}) = PairsUpTo(words, m)
    BY <1>2, <1>3, <1>4, Zenon
  <2>2. m # 0 /\ more # <<>>
    BY <1>2, <1>3
  <2> QED
    BY <2>1, <2>2 DEF LineOK
<1> QED
  BY <1>5

\* Words that are joined keep their pairs, and others only have a space in them.
LEMMA JoinedPairs ==
  ASSUME NEW C, NEW words, NEW breaks, WordsOf(C, breaks, words), NEW space \in C, space \in breaks
  PROVE  Joined(words, space) \in Seq(C) /\ Unbroken(Joined(words, space), {space}) = PairsIn(words)
<1>1. /\ words \in Seq(Seq(C)) /\ Len(words) \in Nat
      /\ \A k \in 1..Len(words) : words[k] # <<>> /\ \A i \in 1..Len(words[k]) : words[k][i] # space
  <2>1. PICK D : D = Seq(C)
    OBVIOUS
  <2>2. words \in Seq(D)
    BY <2>1 DEF WordsOf
  <2>3. Len(words) \in Nat
    BY <2>2
  <2>4. \A k \in 1..Len(words) : words[k] # <<>> /\ \A i \in 1..Len(words[k]) : words[k][i] # space
    BY DEF WordsOf
  <2> QED
    BY <2>1, <2>2, <2>3, <2>4
<1>2. PICK f : JoinedBy(C, words, space, f)
  BY <1>1, JoinedIs
<1>3. /\ f \in [0..Len(words) -> Seq(C)] /\ f[0] = <<>>
      /\ \A m \in 1..Len(words) : f[m] = WithWord(f[m - 1], words[m], space)
      /\ Joined(words, space) = f[Len(words)]
  BY <1>2 DEF JoinedBy
<1>4. LineOK(words, space, Len(words), f[Len(words)])
  <2> DEFINE S == {m \in 0..Len(words) : LineOK(words, space, m, f[m])}
  <2>1. 0 \in S
    <3>1. PICK none : none = <<>>
      OBVIOUS
    <3>2. none \in Seq(C) /\ Len(none) = 0
      BY <3>1
    <3>3. Pairs(none) = {<<none[i], none[i + 1]>> : i \in 1..(Len(none) - 1)}
      BY <3>2, PairsAre
    <3>4. 1..(Len(none) - 1) = {} /\ 1..0 = {}
      BY <3>2
    <3>5. Unbroken(none, {space}) = {}
      BY <3>3, <3>4 DEF Unbroken
    <3>6. PairsUpTo(words, 0) = {}
      BY <3>4 DEF PairsUpTo
    <3>7. LineOK(words, space, 0, none)
      BY <3>1, <3>5, <3>6 DEF LineOK
    <3> QED
      BY <1>1, <1>3, <3>1, <3>7
  <2>2. ASSUME NEW m \in 1..Len(words), m - 1 \in S
        PROVE  m \in S
    <3>1. f[m - 1] \in Seq(C) /\ LineOK(words, space, m - 1, f[m - 1])
      BY <1>3, <2>2
    <3>2. words[m] # <<>> /\ \A i \in 1..Len(words[m]) : words[m][i] # space
      BY <1>1
    <3>3. LineOK(words, space, m, f[m])
      <4>1. PICK word, before : word = words[m] /\ before = f[m - 1]
        OBVIOUS
      <4>2. word \in Seq(C) /\ before \in Seq(C) /\ m \in Nat \ {0} /\ m <= Len(words)
        BY <1>1, <3>1, <4>1
      <4>3. LineOK(words, space, m - 1, before) /\ word # <<>> /\ \A i \in 1..Len(word) : word[i] # space
        BY <3>1, <3>2, <4>1
      <4>4. PICK more : more = WithWord(before, word, space)
        OBVIOUS
      <4>5. more # <<>> /\ Unbroken(more, {space}) = Unbroken(before, {space}) \cup Pairs(word)
        <5>1. word \in Seq(C) /\ before \in Seq(C) /\ word # <<>> /\ \A i \in 1..Len(word) : word[i] # space
          BY <4>2, <4>3
        <5>2. /\ WithWord(before, word, space) # <<>>
              /\ Unbroken(WithWord(before, word, space), {space}) = Unbroken(before, {space}) \cup Pairs(word)
          BY <5>1, PairsAfter
        <5> QED
          BY <4>4, <5>2
      <4>6. LineOK(words, space, m, more)
        BY <1>1, <4>1, <4>2, <4>3, <4>5, LineMore
      <4> QED
        BY <1>3, <4>1, <4>4, <4>6
    <3> QED
      BY <1>3, <3>3
  <2> HIDE DEF S
  <2>3. 0..Len(words) \subseteq S
    BY <1>1, <2>1, <2>2, InductionUpTo
  <2>4. Len(words) \in 0..Len(words)
    BY <1>1
  <2> QED
    BY <2>3, <2>4 DEF S
<1>5. PairsUpTo(words, Len(words)) = PairsIn(words)
  BY InPairs DEF PairsUpTo
<1>6. f[Len(words)] \in Seq(C)
  BY <1>1, <1>3
<1> QED
  BY <1>3, <1>4, <1>5, <1>6 DEF LineOK

\* A text, folded.
FoldedText(text) == [i \in DOMAIN text |-> Folded(text[i])]

FoldedChars(C) == {Folded(c) : c \in C}

Breaks == Spaces \cup Separators

Space == CHOOSE c \in Spaces : TRUE

\* Folding folds every pair.
LEMMA FoldedPairs ==
  ASSUME NEW C, NEW s \in Seq(C)
  PROVE  /\ FoldedText(s) \in Seq(FoldedChars(C))
         /\ Pairs(FoldedText(s)) = {<<Folded(p[1]), Folded(p[2])>> : p \in Pairs(s)}
<1>1. PICK n, f : n = Len(s) /\ f = FoldedText(s)
  OBVIOUS
<1>2. n \in Nat /\ DOMAIN s = 1..n /\ \A i \in 1..n : s[i] \in C
  BY <1>1
<1>3. f = [i \in 1..n |-> Folded(s[i])]
  BY <1>1, <1>2 DEF FoldedText
<1>4. \A i \in 1..n : f[i] = Folded(s[i]) /\ f[i] \in FoldedChars(C)
  BY <1>2, <1>3 DEF FoldedChars
<1>5. f \in Seq(FoldedChars(C)) /\ Len(f) = n
  <2>1. f \in [1..n -> FoldedChars(C)]
    BY <1>3, <1>4
  <2> HIDE DEF FoldedChars
  <2>2. PICK D : D = FoldedChars(C)
    OBVIOUS
  <2>3. f \in Seq(D) /\ Len(f) = n
    BY <1>2, <2>1, <2>2
  <2> QED
    BY <2>2, <2>3
<1>6. /\ Pairs(f) = {<<f[i], f[i + 1]>> : i \in 1..(n - 1)}
      /\ Pairs(s) = {<<s[i], s[i + 1]>> : i \in 1..(n - 1)}
  <2>1. PICK D : D = FoldedChars(C)
    OBVIOUS
  <2>2. f \in Seq(D)
    BY <1>5, <2>1
  <2>3. Pairs(f) = {<<f[i], f[i + 1]>> : i \in 1..(Len(f) - 1)}
    BY <2>2, PairsAre
  <2>4. Pairs(s) = {<<s[i], s[i + 1]>> : i \in 1..(Len(s) - 1)}
    BY PairsAre
  <2> QED
    BY <1>1, <1>5, <2>3, <2>4
<1>7. \A i \in 1..(n - 1) : f[i] = Folded(s[i]) /\ f[i + 1] = Folded(s[i + 1])
  BY <1>2, <1>4
<1>8. ASSUME NEW x \in Pairs(f)
      PROVE  x \in {<<Folded(p[1]), Folded(p[2])>> : p \in Pairs(s)}
  <2>1. PICK i \in 1..(n - 1) : x = <<f[i], f[i + 1]>>
    BY <1>6
  <2>2. PICK p : p = <<s[i], s[i + 1]>>
    OBVIOUS
  <2>3. p \in Pairs(s) /\ p[1] = s[i] /\ p[2] = s[i + 1]
    BY <1>6, <2>2
  <2>4. x = <<Folded(p[1]), Folded(p[2])>>
    BY <1>7, <2>1, <2>3
  <2> QED
    BY <2>3, <2>4
<1>9. ASSUME NEW p \in Pairs(s)
      PROVE  <<Folded(p[1]), Folded(p[2])>> \in Pairs(f)
  <2>1. PICK i \in 1..(n - 1) : p = <<s[i], s[i + 1]>>
    BY <1>6
  <2>2. p[1] = s[i] /\ p[2] = s[i + 1]
    BY <2>1
  <2>3. <<Folded(p[1]), Folded(p[2])>> = <<f[i], f[i + 1]>>
    BY <1>7, <2>2
  <2> QED
    BY <1>6, <2>3
<1> QED
  BY <1>1, <1>5, <1>8, <1>9

\* The pairs of a part are pairs of the whole.
LEMMA PairsOfPart ==
  ASSUME NEW C, NEW s \in Seq(C), NEW part, HasPart(s, part)
  PROVE  part \in Seq(C) /\ Pairs(part) \subseteq Pairs(s)
<1>1. PICK a \in 0..Len(s), b \in 0..Len(s) : part = SubSeq(s, a + 1, b)
  BY DEF HasPart, SubSeqs
<1>2. a \in Nat /\ b \in Nat /\ b <= Len(s) /\ Len(s) \in Nat
  BY <1>1
<1>3. \A i \in (a + 1)..b : s[i] \in C
  BY <1>2
<1>4. /\ part \in Seq(C) /\ Len(part) = (IF a + 1 <= b THEN b - (a + 1) + 1 ELSE 0)
      /\ \A i \in 1..(b - (a + 1) + 1) : part[i] = s[(a + 1) + i - 1]
  BY <1>1, <1>2, <1>3, SubSeqProperties
<1>5. ASSUME NEW i \in 1..(Len(part) - 1)
      PROVE  <<part[i], part[i + 1]>> \in Pairs(s)
  <2>1. a + 1 <= b /\ Len(part) = b - a
    BY <1>2, <1>4
  <2>2. /\ i \in 1..(b - (a + 1) + 1) /\ i + 1 \in 1..(b - (a + 1) + 1)
        /\ a + 1 + i - 1 = a + i /\ a + 1 + (i + 1) - 1 = (a + i) + 1 /\ a + i \in 1..(Len(s) - 1)
    BY <1>2, <2>1
  <2>3. part[i] = s[a + i] /\ part[i + 1] = s[(a + i) + 1]
    BY <1>4, <2>2
  <2>4. Pairs(s) = {<<s[j], s[j + 1]>> : j \in 1..(Len(s) - 1)}
    BY PairsAre
  <2> QED
    BY <2>2, <2>3, <2>4
<1>6. Pairs(part) = {<<part[i], part[i + 1]>> : i \in 1..(Len(part) - 1)}
  BY <1>4, PairsAre
<1> QED
  BY <1>4, <1>5, <1>6

\* The words of a text, and its normal form.
LEMMA NormalIs ==
  ASSUME NEW C, NEW text \in Seq(C)
  PROVE  /\ WordsOf(FoldedChars(C), Spaces, Terms(text))
         /\ NormalText(text) \in Seq(FoldedChars(C) \cup Spaces)
         /\ Unbroken(NormalText(text), Breaks) = Unbroken(FoldedText(text), Breaks)
<1>1. PICK D, E, f, words, line : /\ D = FoldedChars(C) /\ E = D \cup Spaces /\ f = FoldedText(text)
                                  /\ words = Terms(text) /\ line = NormalText(text)
  OBVIOUS
<1>2. f \in Seq(D)
  BY <1>1, FoldedPairs
<1>3. words = RunsOf(f, Spaces) /\ line = Joined(words, Space)
  BY <1>1 DEF Terms, NormalText, FoldedText, Space
<1>4. WordsOf(D, Spaces, words) /\ PairsIn(words) = Unbroken(f, Spaces)
  BY <1>2, <1>3, RunsAre
<1>5. Space \in Spaces
  BY TextsAssumption DEF Space
<1>6. WordsOf(E, Spaces, words)
  <2>1. PICK A, B : A = Seq(D) /\ B = Seq(E)
    OBVIOUS
  <2>2. A \subseteq B
    <3>1. ASSUME NEW x \in Seq(D) PROVE x \in Seq(E)
      BY <1>1
    <3> QED
      BY <2>1, <3>1
  <2>3. words \in Seq(A)
    BY <1>4, <2>1 DEF WordsOf
  <2>4. words \in Seq(B)
    BY <2>2, <2>3
  <2> QED
    BY <1>4, <2>1, <2>4 DEF WordsOf
<1>7. line \in Seq(E) /\ Unbroken(line, {Space}) = PairsIn(words)
  <2>1. Space \in E
    BY <1>1, <1>5
  <2> QED
    BY <1>3, <1>5, <1>6, <2>1, JoinedPairs
<1>8. ASSUME NEW x
      PROVE  x \in Unbroken(line, Breaks) <=> x \in Unbroken(f, Breaks)
  <2>1. x \in Unbroken(line, {Space}) <=> x \in Unbroken(f, Spaces)
    BY <1>4, <1>7
  <2>2. \A y : y \notin Breaks => y # Space /\ y \notin Spaces
    BY <1>5 DEF Breaks
  <2> QED
    BY <2>1, <2>2 DEF Unbroken
<1>9. Unbroken(line, Breaks) = Unbroken(f, Breaks)
  BY <1>8
<1> QED
  BY <1>1, <1>4, <1>7, <1>9

\* What is looked for in the index are the folded pairs of letters and digits, and a text has its own.
LEMMA TokensAre ==
  ASSUME NEW C, NEW text \in Seq(C)
  PROVE  /\ GramQueryTokens(text) = Unbroken(FoldedText(text), Breaks)
         /\ Unbroken(FoldedText(text), Breaks) \subseteq GramTokens(text)
<1>1. PICK E, line, runs : /\ E = FoldedChars(C) \cup Spaces /\ line = NormalText(text)
                           /\ runs = RunsOf(line, Breaks)
  OBVIOUS
<1>2. line \in Seq(E) /\ Unbroken(line, Breaks) = Unbroken(FoldedText(text), Breaks)
  BY <1>1, NormalIs
<1>3. WordsOf(E, Breaks, runs) /\ PairsIn(runs) = Unbroken(line, Breaks)
  BY <1>1, <1>2, RunsAre
<1>4. DOMAIN runs = 1..Len(runs) /\ \A k \in 1..Len(runs) : runs[k] \in Seq(E)
  <2>1. PICK D : D = Seq(E)
    OBVIOUS
  <2>2. runs \in Seq(D)
    BY <1>3, <2>1 DEF WordsOf
  <2>3. DOMAIN runs = 1..Len(runs) /\ \A k \in 1..Len(runs) : runs[k] \in D
    BY <2>2
  <2> QED
    BY <2>1, <2>3
<1>5. Range(runs) = {runs[k] : k \in 1..Len(runs)}
  BY <1>4 DEF Range
<1>6. GramQueryTokens(text) = UNION {Pairs(run) : run \in Range(runs)}
  BY <1>1 DEF GramQueryTokens, Breaks
<1>7. GramTokens(text) = UNION {IF Len(run) = 1 THEN {run} ELSE Pairs(run) : run \in Range(runs)}
  BY <1>1 DEF GramTokens, Breaks
<1>8. ASSUME NEW x
      PROVE  x \in GramQueryTokens(text) <=> x \in PairsIn(runs)
  <2>1. x \in GramQueryTokens(text) <=> \E run \in Range(runs) : x \in Pairs(run)
    BY <1>6, Zenon
  <2>2. x \in PairsIn(runs) <=> \E k \in 1..Len(runs) : x \in Pairs(runs[k])
    BY InPairs
  <2> QED
    BY <1>5, <2>1, <2>2
<1>9. ASSUME NEW x \in PairsIn(runs)
      PROVE  x \in GramTokens(text)
  <2>1. PICK k \in 1..Len(runs) : x \in Pairs(runs[k])
    BY <1>9, InPairs
  <2>2. PICK run : run = runs[k]
    OBVIOUS
  <2>3. run \in Range(runs) /\ run \in Seq(E) /\ x \in Pairs(run)
    BY <1>4, <1>5, <2>1, <2>2
  <2>4. Len(run) # 1
    <3>1. Pairs(run) = {<<run[i], run[i + 1]>> : i \in 1..(Len(run) - 1)}
      BY <2>3, PairsAre
    <3>2. Len(run) = 1 => 1..(Len(run) - 1) = {}
      OBVIOUS
    <3> QED
      BY <2>3, <3>1, <3>2
  <2>5. x \in (IF Len(run) = 1 THEN {run} ELSE Pairs(run))
    BY <2>3, <2>4
  <2> QED
    BY <1>7, <2>3, <2>5
<1>10. GramQueryTokens(text) = PairsIn(runs) /\ PairsIn(runs) \subseteq GramTokens(text)
  BY <1>8, <1>9
<1> QED
  BY <1>2, <1>3, <1>10

\* A search finds a text if it has what is looked for: the index never keeps it back.
LEMMA TextsFound ==
  ASSUME NEW C, NEW text \in Seq(C), NEW D, NEW query \in Seq(D)
  PROVE  /\ TextFound(text, query, TRUE) <=> HasPart(text, query)
         /\ TextFound(text, query, FALSE) <=> Finds(text, query)
<1>1. ASSUME HasPart(text, query)
      PROVE  GramQueryTokens(query) \subseteq GramTokens(text)
  <2>1. Pairs(query) \subseteq Pairs(text)
    BY <1>1, PairsOfPart
  <2>2. /\ Pairs(FoldedText(text)) = {<<Folded(p[1]), Folded(p[2])>> : p \in Pairs(text)}
        /\ Pairs(FoldedText(query)) = {<<Folded(p[1]), Folded(p[2])>> : p \in Pairs(query)}
    BY FoldedPairs
  <2>3. Pairs(FoldedText(query)) \subseteq Pairs(FoldedText(text))
    BY <2>1, <2>2
  <2>4. Unbroken(FoldedText(query), Breaks) \subseteq Unbroken(FoldedText(text), Breaks)
    BY <2>3 DEF Unbroken
  <2> QED
    BY <2>4, TokensAre
<1>2. ASSUME NEW term \in Range(Terms(query)), HasPart(NormalText(text), term)
      PROVE  GramQueryTokens(term) \subseteq GramTokens(text)
  <2>1. PICK F, E : F = FoldedChars(D) /\ E = FoldedChars(C) \cup Spaces
    OBVIOUS
  <2>2. term \in Seq(F)
    <3>1. PICK S, words : S = Seq(F) /\ words = Terms(query)
      OBVIOUS
    <3>2. words \in Seq(S)
      <4>1. WordsOf(F, Spaces, words)
        BY <2>1, <3>1, NormalIs
      <4> QED
        BY <3>1, <4>1 DEF WordsOf
    <3>3. \A k \in DOMAIN words : words[k] \in S
      BY <3>2
    <3> QED
      BY <3>1, <3>3 DEF Range
  <2>3. FoldedText(term) = term
    <3>1. \A c \in F : Folded(c) = c
      BY <2>1, TextsAssumption DEF FoldedChars, Folded
    <3>2. \A i \in DOMAIN term : term[i] \in F
      BY <2>2
    <3>3. term = [i \in DOMAIN term |-> term[i]]
      BY <2>2
    <3> QED
      BY <3>1, <3>2, <3>3 DEF FoldedText
  <2>4. NormalText(text) \in Seq(E) /\ Unbroken(NormalText(text), Breaks) = Unbroken(FoldedText(text), Breaks)
    BY <2>1, NormalIs
  <2>5. Pairs(term) \subseteq Pairs(NormalText(text))
    BY <1>2, <2>4, PairsOfPart
  <2>6. Unbroken(term, Breaks) \subseteq Unbroken(NormalText(text), Breaks)
    BY <2>5 DEF Unbroken
  <2>7. GramQueryTokens(term) = Unbroken(term, Breaks)
    BY <2>2, <2>3, TokensAre
  <2>8. Unbroken(FoldedText(text), Breaks) \subseteq GramTokens(text)
    BY TokensAre
  <2> QED
    BY <2>4, <2>6, <2>7, <2>8
<1>3. Finds(text, query) => UNION {GramQueryTokens(t) : t \in Range(Terms(query))} \subseteq GramTokens(text)
  BY <1>2 DEF Finds
<1> QED
  BY <1>1, <1>3 DEF TextFound, HasTokens

-----------------------------------------------------------------------------
(* Spans of time in their buckets.                                            *)

\* The bounds of ticks, and the widths of buckets.
LEMMA Powers ==
  /\ FirstTick \in Int /\ LastTick \in Int /\ FirstTick = -(LastTick + 1) /\ LastTick >= 0
  /\ 2 ^ TickBits = 2 * (LastTick + 1)
  /\ LastLevel \in Nat
  /\ \A l \in 0..LastLevel : l * LevelStep \in 0..TickBits /\ 2 ^ (l * LevelStep) \in Nat \ {0}
<1>1. TickBits \in Nat \ {0} /\ LevelStep \in Nat \ {0}
  BY IndexAssumption, PowersAssumption
<1>2. 2 ^ (TickBits - 1) \in Nat \ {0} /\ 2 ^ TickBits = 2 * 2 ^ (TickBits - 1)
  <2>1. TickBits - 1 \in 0..TickBits
    BY <1>1
  <2> QED
    BY <2>1, PowersAssumption
<1>3. PICK half : half = 2 ^ (TickBits - 1)
  OBVIOUS
<1>4. FirstTick = -half /\ LastTick = half - 1 /\ half \in Nat \ {0}
  BY <1>2, <1>3 DEF FirstTick, LastTick
<1>5. LastLevel \in Nat /\ LastLevel * LevelStep <= TickBits
  BY <1>1 DEF LastLevel
<1>6. ASSUME NEW l \in 0..LastLevel
      PROVE  l * LevelStep \in 0..TickBits
  <2>1. l * LevelStep <= LastLevel * LevelStep /\ l * LevelStep \in Nat
    BY <1>1, <1>5
  <2> QED
    BY <1>1, <1>5, <2>1
<1>7. \A l \in 0..LastLevel : 2 ^ (l * LevelStep) \in Nat \ {0}
  BY <1>6, PowersAssumption
<1> QED
  BY <1>2, <1>3, <1>4, <1>5, <1>6, <1>7

\* Later ticks are in later buckets, or the same; buckets are no farther apart than their ticks.
LEMMA BucketOrder ==
  ASSUME NEW a \in Int, NEW b \in Int, a <= b, NEW w \in Nat \ {0}
  PROVE  a \div w \in Int /\ b \div w \in Int /\ a \div w <= b \div w /\ b \div w - a \div w <= b - a
<1>1. PICK p, q : p = a \div w /\ q = b \div w
  OBVIOUS
<1>2. p \in Int /\ q \in Int
  BY <1>1
<1>3. w * p <= a /\ a < w * p + w /\ w * q <= b /\ b < w * q + w
  BY <1>1
<1>4. p <= q
  <2>1. SUFFICES ASSUME q + 1 <= p PROVE FALSE
    BY <1>2
  <2>2. w * (q + 1) <= w * p
    BY <1>2, <2>1
  <2>3. w * (q + 1) = w * q + w
    BY <1>2
  <2> QED
    BY <1>2, <1>3, <2>2, <2>3
<1>5. q - p <= b - a
  <2>1. PICK r \in Int, s \in Int : r = a - w * p /\ s = b - w * q
    BY <1>2
  <2>2. b - a = w * (q - p) + (s - r) /\ s >= 0 /\ r <= w - 1
    <3>1. w * (q - p) = w * q - w * p
      BY <1>2
    <3>2. w * q \in Int /\ w * p \in Int
      BY <1>2
    <3> QED
      BY <1>2, <1>3, <2>1, <3>1, <3>2
  <2>3. CASE q = p
    BY <1>2, <2>3
  <2>4. CASE q > p
    <3>1. PICK d \in Nat \ {0} : d = q - p
      BY <1>2, <2>4
    <3>2. w * d >= d + w - 1
      <4>1. (w - 1) * (d - 1) >= 0
        BY <3>1
      <4>2. (w - 1) * (d - 1) = w * d - w - d + 1
        OBVIOUS
      <4>3. w * d \in Int
        OBVIOUS
      <4> QED
        BY <4>1, <4>2, <4>3
    <3>3. w * d \in Int
      OBVIOUS
    <3> QED
      BY <2>1, <2>2, <3>1, <3>2, <3>3
  <2> QED
    BY <1>2, <1>4, <2>3, <2>4
<1> QED
  BY <1>1, <1>2, <1>4, <1>5

\* A span of ticks.
IsSpan(es, le) == es \in FirstTick..LastTick /\ le \in FirstTick..LastTick /\ es <= le

\* A difference that fits is not changed by wrapping.
LEMMA WrappedFits ==
  ASSUME NEW v \in 0..LastTick
  PROVE  Wrapped(v) = v
<1>1. /\ FirstTick \in Int /\ LastTick \in Int /\ FirstTick = -(LastTick + 1) /\ LastTick >= 0
      /\ 2 ^ TickBits = 2 * (LastTick + 1)
  BY Powers
<1>2. PICK w, x : w = 2 ^ TickBits /\ x = v - FirstTick
  OBVIOUS
<1>3. w \in Nat \ {0} /\ x \in 0..(w - 1)
  BY <1>1, <1>2
<1>4. x % w = x
  BY <1>3
<1> QED
  BY <1>1, <1>2, <1>3, <1>4 DEF Wrapped

\* Where a span is listed, every window that overlaps it reads.
LEMMA LevelReads ==
  ASSUME NEW es, NEW le, IsSpan(es, le), le - es <= LastTick,
         NEW qs \in Int, NEW qe \in Int, es < qe, le > qs
  PROVE  LET level == LevelOf(es, le)
         IN  level = LastLevel \/ Bucket(es, level) \in BucketsRead(level, qs, qe)
<1>1. FirstTick \in Int /\ LastTick \in Int /\ LastLevel \in Nat /\ es \in Int /\ le \in Int /\ es <= le
  BY Powers DEF IsSpan
<1> DEFINE fits == {l \in 0..(LastLevel - 1) : Wrapped(Bucket(le, l) - Bucket(es, l)) <= 1}
<1>2. LevelOf(es, le) = IF fits = {} THEN LastLevel ELSE CHOOSE l \in fits : \A m \in fits : l <= m
  BY DEF LevelOf
<1>3. CASE fits = {}
  BY <1>2, <1>3
<1>4. CASE fits # {}
  <2>1. fits \subseteq Nat
    BY <1>1
  <2>2. \E l \in fits : \A m \in fits : l <= m
    <3> HIDE DEF fits
    <3> QED
      BY <1>4, <2>1, LeastExists
  <2>3. PICK level : level = LevelOf(es, le)
    OBVIOUS
  <2>4. level \in fits
    <3> HIDE DEF fits
    <3> QED
      BY <1>2, <1>4, <2>2, <2>3
  <2>5. PICK w : w = 2 ^ (level * LevelStep)
    OBVIOUS
  <2>6. w \in Nat \ {0}
    <3>1. level \in 0..LastLevel
      BY <1>1, <2>4
    <3> QED
      BY <2>5, <3>1, Powers
  <2>7. /\ Bucket(es, level) = es \div w /\ Bucket(le, level) = le \div w
        /\ Bucket(qs, level) = qs \div w /\ Bucket(qe - 1, level) = (qe - 1) \div w
    BY <2>5 DEF Bucket
  <2>8. PICK a, b, c, d : a = es \div w /\ b = le \div w /\ c = qs \div w /\ d = (qe - 1) \div w
    OBVIOUS
  <2>9. a \in Int /\ b \in Int /\ a <= b /\ b - a <= le - es
    BY <1>1, <2>6, <2>8, BucketOrder
  <2>10. c \in Int /\ c <= b
    BY <1>1, <2>6, <2>8, BucketOrder
  <2>11. d \in Int /\ a <= d
    <3>1. qe - 1 \in Int /\ es <= qe - 1
      BY <1>1
    <3> QED
      BY <1>1, <2>6, <2>8, <3>1, BucketOrder
  <2>12. Wrapped(b - a) <= 1
    BY <2>4, <2>7, <2>8
  <2>13. b - a <= 1
    <3>1. b - a \in 0..LastTick
      BY <1>1, <2>9
    <3> QED
      BY <2>12, <3>1, WrappedFits
  <2>14. a \in (c - 1)..d
    BY <2>9, <2>10, <2>11, <2>13
  <2>15. BucketsRead(level, qs, qe) = (c - 1)..d
    BY <2>7, <2>8 DEF BucketsRead
  <2> QED
    BY <2>3, <2>7, <2>8, <2>14, <2>15
<1> QED
  BY <1>3, <1>4

\* What is listed for a document.
SpanEntry(doc, es, le) ==
  OnLevel(doc, IF es = FirstTick \/ le = LastTick THEN LastLevel ELSE LevelOf(es, le), es, le)

\* A window that overlaps a span reads where it is listed.
LEMMA EntryRead ==
  ASSUME NEW doc, NEW span, IsSpan(span[1], span[2]), Subtractable(span),
         NEW qs \in Int, NEW qe \in Int, span[1] < qe, span[2] > qs
  PROVE  LET e == SpanEntry(doc, span[1], span[2])
         IN  e.level = LastLevel \/ e.key \in BucketsRead(e.level, qs, qe)
<1>1. PICK es, le : es = span[1] /\ le = span[2]
  OBVIOUS
<1>2. PICK e : e = SpanEntry(doc, es, le)
  OBVIOUS
<1>3. PICK level : level = IF es = FirstTick \/ le = LastTick THEN LastLevel ELSE LevelOf(es, le)
  OBVIOUS
<1>4. e.level = level /\ (level # LastLevel => e.key = Bucket(es, level))
  BY <1>2, <1>3 DEF SpanEntry, OnLevel
<1>5. level = LastLevel \/ Bucket(es, level) \in BucketsRead(level, qs, qe)
  <2>1. CASE es = FirstTick \/ le = LastTick
    BY <1>3, <2>1
  <2>2. CASE ~ (es = FirstTick \/ le = LastTick)
    <3>1. level = LevelOf(es, le)
      BY <1>3, <2>2
    <3>2. IsSpan(es, le) /\ es < qe /\ le > qs
      BY <1>1
    <3>3. le - es <= LastTick
      BY <1>1, <2>2 DEF Subtractable
    <3>4. LevelOf(es, le) = LastLevel \/ Bucket(es, LevelOf(es, le)) \in BucketsRead(LevelOf(es, le), qs, qe)
      BY <3>2, <3>3, LevelReads
    <3> QED
      BY <3>1, <3>4
  <2> QED
    BY <2>1, <2>2
<1> QED
  BY <1>1, <1>2, <1>4, <1>5

\* A span that ends after it begins is listed once, in place of the one its document had.
LEMMA SpanInserted ==
  ASSUME NEW index, NEW doc, NEW es \in Int, NEW le \in Int, es <= le
  PROVE  InsertSpan(index, doc, es, le) = {x \in index : x.doc # doc} \cup {SpanEntry(doc, es, le)}
  BY DEF InsertSpan, RemoveSpan, SpanEntry

\* Of the spans of two documents, of which one had another, none is found that does not overlap,
\* and all that can be subtracted are.
LEMMA SpansRight ==
  ASSUME NEW before \in EarlierSpans, NEW now \in Spans
  PROVE  SpansFound(before, now,
           InsertSpan(InsertSpan(InsertSpan(NoSpans, 1, before[1], before[2]), 2, before[1], before[2]), 1, now[1], now[2]))
<1>1. /\ FirstTick \in Int /\ LastTick \in Int
      /\ \A w \in Spans \cup EarlierSpans : /\ w[1] \in Int /\ w[2] \in Int /\ w[1] < w[2]
                                            /\ IsSpan(w[1], w[2])
  BY Powers, SpansAssumption DEF IsSpan
<1>2. PICK a, b, c : /\ a = SpanEntry(1, before[1], before[2]) /\ b = SpanEntry(2, before[1], before[2])
                     /\ c = SpanEntry(1, now[1], now[2])
  OBVIOUS
<1>3. /\ a.doc = 1 /\ b.doc = 2 /\ c.doc = 1
      /\ b.es = before[1] /\ b.le = before[2] /\ c.es = now[1] /\ c.le = now[2]
  BY <1>2 DEF SpanEntry, OnLevel
<1>4. PICK index : index = InsertSpan(InsertSpan(InsertSpan(NoSpans, 1, before[1], before[2]), 2, before[1], before[2]), 1, now[1], now[2])
  OBVIOUS
<1>5. /\ before[1] \in Int /\ before[2] \in Int /\ before[1] <= before[2]
      /\ now[1] \in Int /\ now[2] \in Int /\ now[1] <= now[2]
  BY <1>1
<1>6. index = {b, c}
  <2>1. InsertSpan(NoSpans, 1, before[1], before[2]) = {a}
    <3>1. InsertSpan(NoSpans, 1, before[1], before[2])
            = {x \in NoSpans : x.doc # 1} \cup {SpanEntry(1, before[1], before[2])}
      BY <1>5, SpanInserted
    <3> QED
      BY <1>2, <3>1 DEF NoSpans
  <2>2. InsertSpan({a}, 2, before[1], before[2]) = {a, b}
    <3>1. InsertSpan({a}, 2, before[1], before[2])
            = {x \in {a} : x.doc # 2} \cup {SpanEntry(2, before[1], before[2])}
      BY <1>5, SpanInserted
    <3> QED
      BY <1>2, <1>3, <3>1
  <2>3. InsertSpan({a, b}, 1, now[1], now[2]) = {b, c}
    <3>1. InsertSpan({a, b}, 1, now[1], now[2])
            = {x \in {a, b} : x.doc # 1} \cup {SpanEntry(1, now[1], now[2])}
      BY <1>5, SpanInserted
    <3> QED
      BY <1>2, <1>3, <3>1
  <2> QED
    BY <1>4, <2>1, <2>2, <2>3
<1>7. ASSUME NEW w \in Spans, NEW d \in {1, 2}, NEW span, span = IF d = 1 THEN now ELSE before
      PROVE  LET found == d \in OverlappingSpans(index, w[1], w[2])
                 meant == span[1] < w[2] /\ span[2] > w[1]
             IN  (found => meant) /\ (Subtractable(span) => (found <=> meant))
  <2>1. PICK qs \in Int, qe \in Int : qs = w[1] /\ qe = w[2]
    BY <1>1
  <2> DEFINE Read(y) == y.level = LastLevel \/ y.key \in BucketsRead(y.level, qs, qe)
  <2>2. Subtractable(before) /\ before[1] < qe /\ before[2] > qs => Read(b)
    BY <1>1, <1>2, EntryRead
  <2>3. Subtractable(now) /\ now[1] < qe /\ now[2] > qs => Read(c)
    BY <1>1, <1>2, EntryRead
  <2>4. OverlappingSpans(index, qs, qe) = {x.doc : x \in {y \in index : Read(y) /\ y.es < qe /\ y.le > qs}}
    BY DEF OverlappingSpans
  <2> HIDE DEF Read
  <2>5. /\ 1 \in OverlappingSpans(index, qs, qe) <=> Read(c) /\ now[1] < qe /\ now[2] > qs
        /\ 2 \in OverlappingSpans(index, qs, qe) <=> Read(b) /\ before[1] < qe /\ before[2] > qs
    <3>1. \A y : y \in index <=> y = b \/ y = c
      BY <1>6
    <3> QED
      BY <1>3, <2>4, <3>1
  <2>6. CASE d = 1
    BY <1>7, <2>1, <2>3, <2>5, <2>6
  <2>7. CASE d = 2
    BY <1>7, <2>1, <2>2, <2>5, <2>7
  <2> QED
    BY <2>6, <2>7
<1>8. SpansFound(before, now, index)
  BY <1>7 DEF SpansFound
<1> QED
  BY <1>4, <1>8

-----------------------------------------------------------------------------
(* Boxes in frames, and their cells.                                          *)

\* A box in a frame, and a point in one.
BoxesInFrames == [frame : DOMAIN Frames, box : Boxes]
PointsInFrames == (DOMAIN Frames) \X Points

\* One frame up.
RaisedBox(p) ==
  IF Frames[p.frame].parent = NoFrame \/ Frames[p.frame].transform = NoTransform THEN p
  ELSE [frame |-> Frames[p.frame].parent, box |-> MappedBox(p.box, Frames[p.frame].transform)]
RaisedPoint(p) ==
  IF Frames[p[1]].parent = NoFrame \/ Frames[p[1]].transform = NoTransform THEN p
  ELSE <<Frames[p[1]].parent, Apply(Frames[p[1]].transform, p[2])>>

\* What the numbers of a transform are.
IsAffine(t) == {t.xx, t.xy, t.yx, t.yy, t.dx, t.dy} \subseteq Int

\* A point is mapped to a point.
LEMMA AppliedIs ==
  ASSUME NEW q \in Points, NEW t, IsAffine(t)
  PROVE  /\ Apply(t, q) \in Points
         /\ t.xy = 0 /\ t.yx = 0 => Apply(t, q).x = t.xx * q.x + t.dx /\ Apply(t, q).y = t.yy * q.y + t.dy
         /\ t.xx = 0 /\ t.yy = 0 => Apply(t, q).x = t.xy * q.y + t.dx /\ Apply(t, q).y = t.yx * q.x + t.dy
<1>1. PICK a \in Int, b \in Int, c \in Int, d \in Int, e \in Int, f \in Int :
        a = t.xx /\ b = t.xy /\ c = t.yx /\ d = t.yy /\ e = t.dx /\ f = t.dy
  BY DEF IsAffine
<1>2. PICK x \in Int, y \in Int : x = q.x /\ y = q.y
  BY DEF Points
<1>3. Apply(t, q) = [x |-> a * x + b * y + e, y |-> c * x + d * y + f]
  BY <1>1, <1>2 DEF Apply
<1>4. a * x \in Int /\ b * y \in Int /\ c * x \in Int /\ d * y \in Int
  OBVIOUS
<1>5. a * x + b * y + e \in Int /\ c * x + d * y + f \in Int
  BY <1>4
<1>6. Apply(t, q) \in Points
  BY <1>3, <1>5 DEF Points
<1>7. ASSUME b = 0, c = 0 PROVE a * x + b * y + e = a * x + e /\ c * x + d * y + f = d * y + f
  BY <1>4, <1>7
<1>8. ASSUME a = 0, d = 0 PROVE a * x + b * y + e = b * y + e /\ c * x + d * y + f = c * x + f
  BY <1>4, <1>8
<1> QED
  BY <1>1, <1>2, <1>3, <1>6, <1>7, <1>8

\* What is mapped is a box again, with the two corners' places as its bounds.
LEMMA MappedIs ==
  ASSUME NEW box \in Boxes, NEW t, IsAffine(t)
  PROVE  LET a == Apply(t, box.min)
             b == Apply(t, box.max)
             r == MappedBox(box, t)
         IN  /\ a \in Points /\ b \in Points /\ r \in Boxes
             /\ {r.min.x, r.max.x} = {a.x, b.x}
             /\ {r.min.y, r.max.y} = {a.y, b.y}
             /\ a = b => r.min = r.max
<1>1. PICK u, v : u = Apply(t, box.min) /\ v = Apply(t, box.max)
  OBVIOUS
<1>2. u \in Points /\ v \in Points
  <2>1. box.min \in Points /\ box.max \in Points
    BY DEF Boxes
  <2> QED
    BY <1>1, <2>1, AppliedIs
<1>3. PICK a \in Int, b \in Int, c \in Int, d \in Int : a = u.x /\ b = v.x /\ c = u.y /\ d = v.y
  BY <1>2 DEF Points
<1>4. PICK r : r = MappedBox(box, t)
  OBVIOUS
<1>5. r = [min |-> [x |-> Lesser(a, b), y |-> Lesser(c, d)], max |-> [x |-> Greater(a, b), y |-> Greater(c, d)]]
  BY <1>1, <1>3, <1>4 DEF MappedBox, Box
<1>6. /\ Lesser(a, b) \in Int /\ Greater(a, b) \in Int /\ Lesser(c, d) \in Int /\ Greater(c, d) \in Int
      /\ Lesser(a, b) <= Greater(a, b) /\ Lesser(c, d) <= Greater(c, d)
      /\ {Lesser(a, b), Greater(a, b)} = {a, b} /\ {Lesser(c, d), Greater(c, d)} = {c, d}
  BY DEF Lesser, Greater
<1>7. r \in Boxes
  BY <1>5, <1>6 DEF Boxes, Points
<1>8. {r.min.x, r.max.x} = {a, b} /\ {r.min.y, r.max.y} = {c, d}
  BY <1>5, <1>6
<1>9. ASSUME u = v PROVE r.min = r.max
  <2>1. a = b /\ c = d
    BY <1>3, <1>9
  <2>2. Lesser(a, b) = Greater(a, b) /\ Lesser(c, d) = Greater(c, d)
    BY <2>1 DEF Lesser, Greater
  <2> QED
    BY <1>5, <2>2
<1> QED
  BY <1>1, <1>2, <1>3, <1>4, <1>7, <1>8, <1>9

\* What is raised is in a frame again.
LEMMA RaisedIs ==
  /\ \A p \in BoxesInFrames : RaisedBox(p) \in BoxesInFrames
  /\ \A p \in PointsInFrames : RaisedPoint(p) \in PointsInFrames
<1>1. ASSUME NEW f \in DOMAIN Frames, ~ (Frames[f].parent = NoFrame \/ Frames[f].transform = NoTransform)
      PROVE  Frames[f].parent \in DOMAIN Frames /\ IsAffine(Frames[f].transform)
  BY <1>1, FramesAssumption DEF IsAffine
<1>2. ASSUME NEW p \in BoxesInFrames
      PROVE  RaisedBox(p) \in BoxesInFrames
  <2>1. CASE Frames[p.frame].parent = NoFrame \/ Frames[p.frame].transform = NoTransform
    BY <2>1 DEF RaisedBox
  <2>2. CASE ~ (Frames[p.frame].parent = NoFrame \/ Frames[p.frame].transform = NoTransform)
    <3>1. p.frame \in DOMAIN Frames /\ p.box \in Boxes
      BY DEF BoxesInFrames
    <3>2. PICK t : t = Frames[p.frame].transform
      OBVIOUS
    <3>3. MappedBox(p.box, t) \in Boxes
      BY <1>1, <2>2, <3>1, <3>2, MappedIs
    <3>4. RaisedBox(p) = [frame |-> Frames[p.frame].parent, box |-> MappedBox(p.box, t)]
      BY <2>2, <3>2 DEF RaisedBox
    <3> QED
      BY <1>1, <2>2, <3>1, <3>3, <3>4 DEF BoxesInFrames
  <2> QED
    BY <2>1, <2>2
<1>3. ASSUME NEW p \in PointsInFrames
      PROVE  RaisedPoint(p) \in PointsInFrames
  <2>1. CASE Frames[p[1]].parent = NoFrame \/ Frames[p[1]].transform = NoTransform
    BY <2>1 DEF RaisedPoint
  <2>2. CASE ~ (Frames[p[1]].parent = NoFrame \/ Frames[p[1]].transform = NoTransform)
    <3>1. p[1] \in DOMAIN Frames /\ p[2] \in Points
      BY DEF PointsInFrames
    <3>2. PICK t : t = Frames[p[1]].transform
      OBVIOUS
    <3>3. Apply(t, p[2]) \in Points
      BY <1>1, <2>2, <3>1, <3>2, AppliedIs
    <3>4. RaisedPoint(p) = <<Frames[p[1]].parent, Apply(t, p[2])>>
      BY <2>2, <3>2 DEF RaisedPoint
    <3> QED
      BY <1>1, <2>2, <3>1, <3>3, <3>4 DEF PointsInFrames
  <2> QED
    BY <2>1, <2>2
<1> QED
  BY <1>2, <1>3

\* The way of a box up to its root, and that of a point.
WayOfBox(p, f) ==
  /\ f \in [0..Cardinality(DOMAIN Frames) -> BoxesInFrames]
  /\ f[0] = p
  /\ \A m \in 1..Cardinality(DOMAIN Frames) : f[m] = RaisedBox(f[m - 1])
  /\ ToRoot(Frames, p) = f[Cardinality(DOMAIN Frames)]
WayOfPoint(p, f) ==
  /\ \A m \in 0..Cardinality(DOMAIN Frames) : f[m] \in PointsInFrames
  /\ f[0] = p
  /\ \A m \in 1..Cardinality(DOMAIN Frames) : f[m] = RaisedPoint(f[m - 1])

\* What the recursion of ToRoot computes.
LEMMA ToRootIs ==
  ASSUME NEW p \in BoxesInFrames
  PROVE  \E f : WayOfBox(p, f)
<1> DEFINE n == Cardinality(DOMAIN Frames)
           next == [q \in (1..n) \X BoxesInFrames |-> RaisedBox(q[2])]
           Body(g) == [m \in 0..Cardinality(DOMAIN Frames) |-> IF m = 0 THEN p ELSE RaisedBox(g[m - 1])]
           with == CHOOSE g : g = Body(g)
<1>1. n \in Nat
  BY FramesAssumption, FS_CardinalityType
<1>2. next \in [(1..n) \X BoxesInFrames -> BoxesInFrames]
  <2>1. ASSUME NEW q \in (1..n) \X BoxesInFrames
        PROVE  RaisedBox(q[2]) \in BoxesInFrames
    BY RaisedIs
  <2> QED
    BY <2>1
<1>3. p \in BoxesInFrames
  OBVIOUS
<1> HIDE DEF Body, with
<1>4. PICK g \in [0..n -> BoxesInFrames] : Steps(g, n, p, next)
  <2> HIDE DEF next, n
  <2> QED
    BY <1>1, <1>2, <1>3, StepsExist
<1>5. ASSUME NEW m \in 1..n
      PROVE  g[m] = RaisedBox(g[m - 1])
  <2>1. m - 1 \in 0..n
    BY <1>1
  <2>2. g[m] = next[<<m, g[m - 1]>>]
    BY <1>4 DEF Steps
  <2>3. <<m, g[m - 1]>> \in (1..n) \X BoxesInFrames
    BY <2>1
  <2> QED
    BY <2>2, <2>3
<1>6. g[0] = p
  BY <1>4 DEF Steps
<1> HIDE DEF next
<1>7. ASSUME NEW h
      PROVE  Body(h)[0] = p /\ \A m \in 1..n : Body(h)[m] = RaisedBox(h[m - 1])
  <2>1. Body(h)[0] = p
    BY <1>1 DEF Body
  <2>2. ASSUME NEW m \in 1..n
        PROVE  Body(h)[m] = RaisedBox(h[m - 1])
    <3>1. m \in 0..n /\ m # 0
      BY <1>1
    <3> QED
      BY <3>1 DEF Body
  <2> QED
    BY <2>1, <2>2
<1>8. g = Body(g)
  <2>1. Body(g) = [m \in 0..n |-> Body(g)[m]]
    BY DEF Body
  <2>2. g = [m \in 0..n |-> g[m]]
    OBVIOUS
  <2>3. ASSUME NEW m \in 0..n
        PROVE  Body(g)[m] = g[m]
    <3>1. CASE m = 0
      BY <1>6, <1>7, <3>1
    <3>2. CASE m \in 1..n
      BY <1>5, <1>7, <3>2
    <3> QED
      BY <1>1, <3>1, <3>2
  <2> QED
    BY <2>1, <2>2, <2>3
<1>9. with = Body(with)
  BY <1>8 DEF with
<1>10. with[0] = p /\ \A m \in 1..n : with[m] = RaisedBox(with[m - 1])
  BY <1>7, <1>9
<1>11. 0..n \subseteq {m \in 0..n : with[m] = g[m]}
  <2> DEFINE S == {m \in 0..n : with[m] = g[m]}
  <2>1. 0 \in S
    BY <1>1, <1>6, <1>10
  <2>2. ASSUME NEW m \in 1..n, m - 1 \in S
        PROVE  m \in S
    BY <1>1, <1>5, <1>10, <2>2
  <2> HIDE DEF S
  <2>3. 0..n \subseteq S
    BY <1>1, <2>1, <2>2, InductionUpTo
  <2> QED
    BY <2>3 DEF S
<1>12. ToRoot(Frames, p) = with[n]
  BY DEF ToRoot, RaisedBox, with, Body
<1>13. WayOfBox(p, g)
  BY <1>1, <1>5, <1>6, <1>11, <1>12 DEF WayOfBox
<1> QED
  BY <1>13

\* And that of WayUp.
LEMMA WayUpIs ==
  ASSUME NEW frame \in DOMAIN Frames, NEW point \in Points
  PROVE  WayOfPoint(<<frame, point>>, WayUp(frame, point))
<1> DEFINE n == Cardinality(DOMAIN Frames)
           next == [q \in (1..n) \X PointsInFrames |-> RaisedPoint(q[2])]
           Body(g) == [m \in 0..Cardinality(DOMAIN Frames) |-> IF m = 0 THEN <<frame, point>> ELSE RaisedPoint(g[m - 1])]
           with == CHOOSE g : g = Body(g)
<1>1. n \in Nat
  BY FramesAssumption, FS_CardinalityType
<1>2. next \in [(1..n) \X PointsInFrames -> PointsInFrames]
  <2>1. ASSUME NEW q \in (1..n) \X PointsInFrames
        PROVE  RaisedPoint(q[2]) \in PointsInFrames
    BY RaisedIs
  <2> QED
    BY <2>1
<1>3. <<frame, point>> \in PointsInFrames
  BY DEF PointsInFrames
<1> HIDE DEF Body, with
<1>4. PICK g \in [0..n -> PointsInFrames] : Steps(g, n, <<frame, point>>, next)
  <2> HIDE DEF next, n
  <2> QED
    BY <1>1, <1>2, <1>3, StepsExist
<1>5. ASSUME NEW m \in 1..n
      PROVE  g[m] = RaisedPoint(g[m - 1])
  <2>1. m - 1 \in 0..n
    BY <1>1
  <2>2. g[m] = next[<<m, g[m - 1]>>]
    BY <1>4 DEF Steps
  <2>3. <<m, g[m - 1]>> \in (1..n) \X PointsInFrames
    BY <2>1
  <2> QED
    BY <2>2, <2>3
<1>6. g[0] = <<frame, point>>
  BY <1>4 DEF Steps
<1> HIDE DEF next
<1>7. ASSUME NEW h
      PROVE  Body(h)[0] = <<frame, point>> /\ \A m \in 1..n : Body(h)[m] = RaisedPoint(h[m - 1])
  <2>1. Body(h)[0] = <<frame, point>>
    BY <1>1 DEF Body
  <2>2. ASSUME NEW m \in 1..n
        PROVE  Body(h)[m] = RaisedPoint(h[m - 1])
    <3>1. m \in 0..n /\ m # 0
      BY <1>1
    <3> QED
      BY <3>1 DEF Body
  <2> QED
    BY <2>1, <2>2
<1>8. g = Body(g)
  <2>1. Body(g) = [m \in 0..n |-> Body(g)[m]]
    BY DEF Body
  <2>2. g = [m \in 0..n |-> g[m]]
    OBVIOUS
  <2>3. ASSUME NEW m \in 0..n
        PROVE  Body(g)[m] = g[m]
    <3>1. CASE m = 0
      BY <1>6, <1>7, <3>1
    <3>2. CASE m \in 1..n
      BY <1>5, <1>7, <3>2
    <3> QED
      BY <1>1, <3>1, <3>2
  <2> QED
    BY <2>1, <2>2, <2>3
<1>9. with = Body(with)
  BY <1>8 DEF with
<1>10. with[0] = <<frame, point>> /\ \A m \in 1..n : with[m] = RaisedPoint(with[m - 1])
  BY <1>7, <1>9
<1>11. 0..n \subseteq {m \in 0..n : with[m] = g[m]}
  <2> DEFINE S == {m \in 0..n : with[m] = g[m]}
  <2>1. 0 \in S
    BY <1>1, <1>6, <1>10
  <2>2. ASSUME NEW m \in 1..n, m - 1 \in S
        PROVE  m \in S
    BY <1>1, <1>5, <1>10, <2>2
  <2> HIDE DEF S
  <2>3. 0..n \subseteq S
    BY <1>1, <2>1, <2>2, InductionUpTo
  <2> QED
    BY <2>3 DEF S
<1>12. WayUp(frame, point) = with
  BY DEF WayUp, RaisedPoint, with, Body
<1>13. \A m \in 0..n : with[m] \in PointsInFrames
  BY <1>11
<1> QED
  BY <1>10, <1>12, <1>13 DEF WayOfPoint

\* What the places of a box's corners have in common with the box's place.
Around(p, points) ==
  /\ \A q \in points :
       /\ q[1] = p.frame /\ q[2] \in Points
       /\ q[2].x \in {p.box.min.x, p.box.max.x} /\ q[2].y \in {p.box.min.y, p.box.max.y}
  /\ \A x \in {p.box.min.x, p.box.max.x} : \E q \in points : q[2].x = x
  /\ \A y \in {p.box.min.y, p.box.max.y} : \E q \in points : q[2].y = y

\* A point, or a box that is not turned on the way out of its frame.
Straight(p) == p.box.min = p.box.max \/ KeepsAxes(Frames[p.frame].transform)

\* What an affine map that keeps axes makes of the corners, or any of a point.
LEMMA CornersApplied ==
  ASSUME NEW p \in BoxesInFrames, NEW points, Around(p, points), NEW t, IsAffine(t), t # NoTransform,
         p.box.min = p.box.max \/ KeepsAxes(t),
         NEW a, NEW b, a = Apply(t, p.box.min), b = Apply(t, p.box.max)
  PROVE  /\ \A q \in points : Apply(t, q[2]).x \in {a.x, b.x} /\ Apply(t, q[2]).y \in {a.y, b.y}
         /\ \A x \in {a.x, b.x} : \E q \in points : Apply(t, q[2]).x = x
         /\ \A y \in {a.y, b.y} : \E q \in points : Apply(t, q[2]).y = y
<1>1. PICK u, v : u = p.box.min /\ v = p.box.max
  OBVIOUS
<1>2. u \in Points /\ v \in Points
  BY <1>1 DEF BoxesInFrames, Boxes
<1>3. /\ \A q \in points : q[2] \in Points /\ q[2].x \in {u.x, v.x} /\ q[2].y \in {u.y, v.y}
      /\ \A x \in {u.x, v.x} : \E q \in points : q[2].x = x
      /\ \A y \in {u.y, v.y} : \E q \in points : q[2].y = y
  BY <1>1, Zenon DEF Around
<1>4. a = Apply(t, u) /\ b = Apply(t, v)
  BY <1>1
<1>5. CASE t.xy = 0 /\ t.yx = 0
  <2>1. PICK k, m, c, e : k = t.xx /\ m = t.yy /\ c = t.dx /\ e = t.dy
    OBVIOUS
  <2>2. \A q \in Points : Apply(t, q).x = k * q.x + c /\ Apply(t, q).y = m * q.y + e
    BY <1>5, <2>1, AppliedIs
  <2>3. a.x = k * u.x + c /\ b.x = k * v.x + c /\ a.y = m * u.y + e /\ b.y = m * v.y + e
    BY <1>2, <1>4, <2>2
  <2>4. \A q \in points : Apply(t, q[2]).x = k * q[2].x + c /\ Apply(t, q[2]).y = m * q[2].y + e
    BY <1>3, <2>2
  <2>5. ASSUME NEW q \in points
        PROVE  Apply(t, q[2]).x \in {a.x, b.x} /\ Apply(t, q[2]).y \in {a.y, b.y}
    <3>1. (q[2].x = u.x \/ q[2].x = v.x) /\ (q[2].y = u.y \/ q[2].y = v.y)
      BY <1>3
    <3>2. Apply(t, q[2]).x = a.x \/ Apply(t, q[2]).x = b.x
      BY <2>3, <2>4, <3>1
    <3>3. Apply(t, q[2]).y = a.y \/ Apply(t, q[2]).y = b.y
      BY <2>3, <2>4, <3>1
    <3> QED
      BY <3>2, <3>3
  <2>6. ASSUME NEW z \in {a.x, b.x}
        PROVE  \E q \in points : Apply(t, q[2]).x = z
    <3>1. PICK q \in points : k * q[2].x + c = z
      BY <1>3, <2>3
    <3> QED
      BY <2>4, <3>1
  <2>7. ASSUME NEW z \in {a.y, b.y}
        PROVE  \E q \in points : Apply(t, q[2]).y = z
    <3>1. PICK q \in points : m * q[2].y + e = z
      BY <1>3, <2>3
    <3> QED
      BY <2>4, <3>1
  <2> QED
    BY <2>5, <2>6, <2>7
<1>6. CASE t.xx = 0 /\ t.yy = 0
  <2>1. PICK k, m, c, e : k = t.xy /\ m = t.yx /\ c = t.dx /\ e = t.dy
    OBVIOUS
  <2>2. \A q \in Points : Apply(t, q).x = k * q.y + c /\ Apply(t, q).y = m * q.x + e
    BY <1>6, <2>1, AppliedIs
  <2>3. a.x = k * u.y + c /\ b.x = k * v.y + c /\ a.y = m * u.x + e /\ b.y = m * v.x + e
    BY <1>2, <1>4, <2>2
  <2>4. \A q \in points : Apply(t, q[2]).x = k * q[2].y + c /\ Apply(t, q[2]).y = m * q[2].x + e
    BY <1>3, <2>2
  <2>5. ASSUME NEW q \in points
        PROVE  Apply(t, q[2]).x \in {a.x, b.x} /\ Apply(t, q[2]).y \in {a.y, b.y}
    <3>1. (q[2].x = u.x \/ q[2].x = v.x) /\ (q[2].y = u.y \/ q[2].y = v.y)
      BY <1>3
    <3>2. Apply(t, q[2]).x = a.x \/ Apply(t, q[2]).x = b.x
      BY <2>3, <2>4, <3>1
    <3>3. Apply(t, q[2]).y = a.y \/ Apply(t, q[2]).y = b.y
      BY <2>3, <2>4, <3>1
    <3> QED
      BY <3>2, <3>3
  <2>6. ASSUME NEW z \in {a.x, b.x}
        PROVE  \E q \in points : Apply(t, q[2]).x = z
    <3>1. PICK q \in points : k * q[2].y + c = z
      BY <1>3, <2>3
    <3> QED
      BY <2>4, <3>1
  <2>7. ASSUME NEW z \in {a.y, b.y}
        PROVE  \E q \in points : Apply(t, q[2]).y = z
    <3>1. PICK q \in points : m * q[2].x + e = z
      BY <1>3, <2>3
    <3> QED
      BY <2>4, <3>1
  <2> QED
    BY <2>5, <2>6, <2>7
<1>7. CASE u = v
  <2>1. \A q \in points : q[2] = u
    BY <1>2, <1>3, <1>7 DEF Points
  <2>2. \A q \in points : Apply(t, q[2]) = a
    BY <1>4, <2>1
  <2>3. \E q \in points : TRUE
    BY <1>3
  <2>4. a = b
    BY <1>4, <1>7
  <2> QED
    BY <2>2, <2>3, <2>4
<1> QED
  BY <1>1, <1>5, <1>6, <1>7 DEF KeepsAxes

\* It stays so one frame up.
LEMMA AroundRaised ==
  ASSUME NEW p \in BoxesInFrames, NEW points, Around(p, points), Straight(p)
  PROVE  /\ Around(RaisedBox(p), {RaisedPoint(q) : q \in points})
         /\ p.box.min = p.box.max => RaisedBox(p).box.min = RaisedBox(p).box.max
<1>1. \A q \in points : q[1] = p.frame /\ q[2] \in Points
  BY DEF Around
<1>2. CASE Frames[p.frame].parent = NoFrame \/ Frames[p.frame].transform = NoTransform
  <2>1. RaisedBox(p) = p
    BY <1>2 DEF RaisedBox
  <2>2. \A q \in points : RaisedPoint(q) = q
    BY <1>1, <1>2 DEF RaisedPoint
  <2>3. {RaisedPoint(q) : q \in points} = points
    BY <2>2
  <2> QED
    BY <2>1, <2>3
<1>3. CASE ~ (Frames[p.frame].parent = NoFrame \/ Frames[p.frame].transform = NoTransform)
  <2>1. PICK t, parent : t = Frames[p.frame].transform /\ parent = Frames[p.frame].parent
    OBVIOUS
  <2>2. PICK box, a, b : box = MappedBox(p.box, t) /\ a = Apply(t, p.box.min) /\ b = Apply(t, p.box.max)
    OBVIOUS
  <2>3. RaisedBox(p) = [frame |-> parent, box |-> box]
    BY <1>3, <2>1, <2>2 DEF RaisedBox
  <2>4. \A q \in points : RaisedPoint(q) = <<parent, Apply(t, q[2])>>
    BY <1>1, <1>3, <2>1 DEF RaisedPoint
  <2>5. p.frame \in DOMAIN Frames /\ p.box \in Boxes
    BY DEF BoxesInFrames
  <2>6. IsAffine(t) /\ t # NoTransform
    BY <1>3, <2>1, <2>5, FramesAssumption DEF IsAffine
  <2>7. /\ {box.min.x, box.max.x} = {a.x, b.x} /\ {box.min.y, box.max.y} = {a.y, b.y}
        /\ a = b => box.min = box.max
    BY <2>2, <2>5, <2>6, MappedIs
  <2>8. p.box.min = p.box.max \/ KeepsAxes(t)
    BY <2>1 DEF Straight
  <2>9. /\ \A q \in points : Apply(t, q[2]).x \in {a.x, b.x} /\ Apply(t, q[2]).y \in {a.y, b.y}
        /\ \A x \in {a.x, b.x} : \E q \in points : Apply(t, q[2]).x = x
        /\ \A y \in {a.y, b.y} : \E q \in points : Apply(t, q[2]).y = y
    BY <2>2, <2>6, <2>8, CornersApplied
  <2>10. \A q \in points : Apply(t, q[2]) \in Points
    BY <1>1, <2>6, AppliedIs
  <2>11. PICK raised : raised = {RaisedPoint(q) : q \in points}
    OBVIOUS
  <2>12. /\ \A r \in raised : \E q \in points : r = RaisedPoint(q)
         /\ \A q \in points : RaisedPoint(q) \in raised
    BY <2>11
  <2>13. \A q \in points : RaisedPoint(q)[1] = parent /\ RaisedPoint(q)[2] = Apply(t, q[2])
    BY <2>4
  <2>14. \A r \in raised : /\ r[1] = parent /\ r[2] \in Points
                           /\ r[2].x \in {box.min.x, box.max.x} /\ r[2].y \in {box.min.y, box.max.y}
    <3>1. ASSUME NEW r \in raised
          PROVE  /\ r[1] = parent /\ r[2] \in Points
                 /\ r[2].x \in {box.min.x, box.max.x} /\ r[2].y \in {box.min.y, box.max.y}
      <4>1. PICK q \in points : r = RaisedPoint(q)
        BY <2>12
      <4>2. PICK z : z = Apply(t, q[2])
        OBVIOUS
      <4>3. r[1] = parent /\ r[2] = z
        BY <2>13, <4>1, <4>2
      <4>4. z \in Points /\ z.x \in {a.x, b.x} /\ z.y \in {a.y, b.y}
        BY <2>9, <2>10, <4>2, Zenon
      <4> QED
        BY <2>7, <4>3, <4>4
    <3> QED
      BY <3>1
  <2>15. \A x \in {box.min.x, box.max.x} : \E r \in raised : r[2].x = x
    <3>1. ASSUME NEW x \in {a.x, b.x}
          PROVE  \E r \in raised : r[2].x = x
      <4>1. PICK q \in points : Apply(t, q[2]).x = x
        BY <2>9, Zenon
      <4> QED
        BY <2>12, <2>13, <4>1, Zenon
    <3> QED
      BY <2>7, <3>1
  <2>16. \A y \in {box.min.y, box.max.y} : \E r \in raised : r[2].y = y
    <3>1. ASSUME NEW y \in {a.y, b.y}
          PROVE  \E r \in raised : r[2].y = y
      <4>1. PICK q \in points : Apply(t, q[2]).y = y
        BY <2>9, Zenon
      <4> QED
        BY <2>12, <2>13, <4>1, Zenon
    <3> QED
      BY <2>7, <3>1
  <2>17. PICK r : r = RaisedBox(p)
    OBVIOUS
  <2>18. r.frame = parent /\ r.box = box
    BY <2>3, <2>17
  <2>19. Around(r, raised)
    BY <2>14, <2>15, <2>16, <2>18 DEF Around
  <2>20. p.box.min = p.box.max => r.box.min = r.box.max
    BY <2>2, <2>7, <2>18
  <2> QED
    BY <2>11, <2>17, <2>19, <2>20
<1> QED
  BY <1>2, <1>3

\* The corners of a box, by coordinate.
LEMMA CornersAre ==
  ASSUME NEW box
  PROVE  /\ {c.x : c \in Corners(box)} = {box.min.x, box.max.x}
         /\ {c.y : c \in Corners(box)} = {box.min.y, box.max.y}
         /\ Corners(box) # {}
<1>1. \A c : c \in Corners(box) <=> \E x \in {box.min.x, box.max.x}, y \in {box.min.y, box.max.y} : c = [x |-> x, y |-> y]
  BY DEF Corners
<1>2. PICK C : C = Corners(box)
  OBVIOUS
<1>3. \A x \in {box.min.x, box.max.x}, y \in {box.min.y, box.max.y} : [x |-> x, y |-> y] \in C
  BY <1>1, <1>2
<1>4. \A c \in C : c.x \in {box.min.x, box.max.x} /\ c.y \in {box.min.y, box.max.y}
  BY <1>1, <1>2
<1>5. \A x \in {box.min.x, box.max.x} : \E c \in C : c.x = x
  <2>1. ASSUME NEW x \in {box.min.x, box.max.x} PROVE \E c \in C : c.x = x
    <3>1. [x |-> x, y |-> box.min.y] \in C
      BY <1>3
    <3> QED
      BY <3>1
  <2> QED
    BY <2>1
<1>6. \A y \in {box.min.y, box.max.y} : \E c \in C : c.y = y
  <2>1. ASSUME NEW y \in {box.min.y, box.max.y} PROVE \E c \in C : c.y = y
    <3>1. [x |-> box.min.x, y |-> y] \in C
      BY <1>3
    <3> QED
      BY <3>1
  <2> QED
    BY <2>1
<1>7. {c.x : c \in C} = {box.min.x, box.max.x}
  BY <1>4, <1>5
<1>8. {c.y : c \in C} = {box.min.y, box.max.y}
  BY <1>4, <1>6
<1> QED
  BY <1>2, <1>5, <1>7, <1>8

\* Where a box is, there is a box.
LEMMA RootIs ==
  ASSUME NEW p \in BoxesInFrames
  PROVE  ToRoot(Frames, p) \in BoxesInFrames
<1>1. PICK f : WayOfBox(p, f)
  BY ToRootIs
<1>2. Cardinality(DOMAIN Frames) \in Nat
  BY FramesAssumption, FS_CardinalityType
<1> QED
  BY <1>1, <1>2 DEF WayOfBox

\* The shadow of an upright box is that of its place.
LEMMA ShadowIs ==
  ASSUME NEW p \in BoxesInFrames, Upright(p)
  PROVE  LET root == ToRoot(Frames, p)
         IN  /\ root \in BoxesInFrames
             /\ ShadowOf(p) = [roots |-> {root.frame}, xs |-> root.box.min.x..root.box.max.x,
                               ys |-> root.box.min.y..root.box.max.y]
<1> DEFINE N == Cardinality(DOMAIN Frames)
           way(c) == WayUp(p.frame, c)
           at(m) == {way(c)[m] : c \in Corners(p.box)}
<1>1. N \in Nat
  BY FramesAssumption, FS_CardinalityType
<1>2. p.frame \in DOMAIN Frames /\ p.box \in Boxes
  BY DEF BoxesInFrames
<1>3. PICK f : WayOfBox(p, f)
  BY ToRootIs
<1>4. Corners(p.box) \subseteq Points
  BY <1>2 DEF Corners, Boxes, Points
<1>5. ASSUME NEW c \in Corners(p.box)
      PROVE  WayOfPoint(<<p.frame, c>>, way(c))
  BY <1>2, <1>4, WayUpIs
<1>20. p.box.min \in Corners(p.box)
  BY <1>2 DEF Corners, Boxes, Points
<1>21. p.box.min = p.box.max \/ \A m \in 0..N : KeepsAxes(Frames[way(p.box.min)[m][1]].transform)
  BY DEF Upright
<1> HIDE DEF way
<1>6. Around(f[0], at(0))
  <2>1. at(0) = {<<p.frame, c>> : c \in Corners(p.box)}
    BY <1>5 DEF WayOfPoint
  <2>2. f[0] = p
    BY <1>3 DEF WayOfBox
  <2>3. PICK points : points = {<<p.frame, c>> : c \in Corners(p.box)}
    OBVIOUS
  <2> HIDE DEF at
  <2>4. PICK C, frame : C = Corners(p.box) /\ frame = p.frame
    OBVIOUS
  <2>5. /\ \A c \in C : c \in Points /\ c.x \in {p.box.min.x, p.box.max.x} /\ c.y \in {p.box.min.y, p.box.max.y}
        /\ \A x \in {p.box.min.x, p.box.max.x} : \E c \in C : c.x = x
        /\ \A y \in {p.box.min.y, p.box.max.y} : \E c \in C : c.y = y
    <3>1. {c.x : c \in C} = {p.box.min.x, p.box.max.x} /\ {c.y : c \in C} = {p.box.min.y, p.box.max.y}
      BY <2>4, CornersAre
    <3>2. C \subseteq Points
      BY <1>4, <2>4
    <3> QED
      BY <3>1, <3>2
  <2>6. /\ \A c \in C : <<frame, c>> \in points /\ <<frame, c>>[1] = frame /\ <<frame, c>>[2] = c
        /\ \A q \in points : \E c \in C : q = <<frame, c>> /\ q[1] = frame /\ q[2] = c
    BY <2>3, <2>4
  <2>7. \A q \in points : /\ q[1] = frame /\ q[2] \in Points
                          /\ q[2].x \in {p.box.min.x, p.box.max.x} /\ q[2].y \in {p.box.min.y, p.box.max.y}
    BY <2>5, <2>6, Zenon
  <2>8. /\ \A x \in {p.box.min.x, p.box.max.x} : \E q \in points : q[2].x = x
        /\ \A y \in {p.box.min.y, p.box.max.y} : \E q \in points : q[2].y = y
    BY <2>5, <2>6, Zenon
  <2>9. Around(p, points)
    BY <2>4, <2>7, <2>8 DEF Around
  <2> QED
    BY <2>1, <2>2, <2>3, <2>9
<1> DEFINE Stays(m) == /\ Around(f[m], at(m))
                       /\ p.box.min = p.box.max => f[m].box.min = f[m].box.max
<1>7. ASSUME NEW m \in 1..N, Stays(m - 1)
      PROVE  Stays(m)
  <2>1. m - 1 \in 0..N /\ f[m - 1] \in BoxesInFrames /\ f[m] = RaisedBox(f[m - 1])
    <3>1. m - 1 \in 0..N
      BY <1>1
    <3> QED
      BY <1>3, <3>1 DEF WayOfBox
  <2>2. at(m) = {RaisedPoint(way(c)[m - 1]) : c \in Corners(p.box)}
    BY <1>5 DEF WayOfPoint
  <2>3. {RaisedPoint(way(c)[m - 1]) : c \in Corners(p.box)} = {RaisedPoint(q) : q \in at(m - 1)}
    OBVIOUS
  <2>4. way(p.box.min)[m - 1] \in at(m - 1)
    BY <1>20
  <2> HIDE DEF at
  <2>5. way(p.box.min)[m - 1][1] = f[m - 1].frame
    BY <1>7, <2>4 DEF Around
  <2>6. Straight(f[m - 1])
    BY <1>7, <1>21, <2>1, <2>5 DEF Straight
  <2>7. /\ Around(RaisedBox(f[m - 1]), {RaisedPoint(q) : q \in at(m - 1)})
        /\ f[m - 1].box.min = f[m - 1].box.max => RaisedBox(f[m - 1]).box.min = RaisedBox(f[m - 1]).box.max
    BY <1>7, <2>1, <2>6, AroundRaised
  <2> QED
    BY <1>7, <2>1, <2>2, <2>3, <2>7
<1>8. Around(f[N], at(N))
  <2>1. Stays(0)
    <3>1. f[0] = p
      BY <1>3 DEF WayOfBox
    <3> QED
      BY <1>6, <3>1
  <2> HIDE DEF at, N, Stays
  <2> DEFINE S == {m \in 0..N : Stays(m)}
  <2>2. 0 \in S
    BY <1>1, <2>1
  <2>3. ASSUME NEW m \in 1..N, m - 1 \in S
        PROVE  m \in S
    BY <1>1, <1>7, <2>3
  <2> HIDE DEF S
  <2>4. 0..N \subseteq S
    BY <1>1, <2>2, <2>3, InductionUpTo
  <2>5. N \in S
    BY <1>1, <2>4
  <2> QED
    BY <2>5 DEF S, Stays
<1> HIDE DEF Stays
<1>9. PICK root, points : root = ToRoot(Frames, p) /\ points = {RootOf(p.frame, c) : c \in Corners(p.box)}
  OBVIOUS
<1>10. root = f[N] /\ root \in BoxesInFrames
  BY <1>1, <1>3, <1>9 DEF WayOfBox
<1>11. points = at(N)
  <2>1. \A c \in Corners(p.box) : RootOf(p.frame, c) = way(c)[N]
    BY DEF RootOf, way
  <2> QED
    BY <1>9, <2>1
<1> HIDE DEF at, N
<1>12. Around(root, points)
  BY <1>8, <1>10, <1>11
<1>13. ASSUME NEW a \in Int, NEW b \in Int, a <= b
       PROVE  Min({a, b}) = a /\ Max({a, b}) = b
  BY <1>13 DEF Min, Max
<1>14. /\ root.box.min.x \in Int /\ root.box.max.x \in Int /\ root.box.min.x <= root.box.max.x
       /\ root.box.min.y \in Int /\ root.box.max.y \in Int /\ root.box.min.y <= root.box.max.y
  BY <1>10 DEF BoxesInFrames, Boxes, Points
<1>15. {q[1] : q \in points} = {root.frame}
  <2>1. \E q \in points : q[1] = root.frame
    BY <1>12 DEF Around
  <2> QED
    BY <1>12, <2>1 DEF Around
<1>16. {q[2].x : q \in points} = {root.box.min.x, root.box.max.x} /\ {q[2].y : q \in points} = {root.box.min.y, root.box.max.y}
  BY <1>12 DEF Around
<1>17. ShadowOf(p) = Shadow(points)
  BY <1>9 DEF ShadowOf
<1>18. Shadow(points) = [roots |-> {root.frame}, xs |-> Min({root.box.min.x, root.box.max.x})..Max({root.box.min.x, root.box.max.x}),
                         ys |-> Min({root.box.min.y, root.box.max.y})..Max({root.box.min.y, root.box.max.y})]
  BY <1>15, <1>16, Zenon DEF Shadow
<1> QED
  BY <1>9, <1>10, <1>13, <1>14, <1>17, <1>18

\* Boxes that meet are over a common cell.
LEMMA CommonCell ==
  ASSUME NEW a \in Boxes, NEW b \in Boxes, Meet(a, b)
  PROVE  CellsOf(a) \cap CellsOf(b) # {}
<1>1. CellSize \in Nat \ {0}
  BY IndexAssumption
<1>2. ASSUME NEW i \in Int, NEW j \in Int, NEW k \in Int, NEW l \in Int, i <= j, k <= l, i <= l, k <= j
      PROVE  \E c : c \in (i \div CellSize)..(j \div CellSize) /\ c \in (k \div CellSize)..(l \div CellSize)
  <2>1. PICK m \in Int : i <= m /\ k <= m /\ m <= j /\ m <= l
    BY <1>2
  <2>2. PICK p, q, r, s, c : /\ p = i \div CellSize /\ q = j \div CellSize /\ r = k \div CellSize
                             /\ s = l \div CellSize /\ c = m \div CellSize
    OBVIOUS
  <2>3. p \in Int /\ c \in Int /\ p <= c
    BY <1>1, <2>1, <2>2, BucketOrder
  <2>4. q \in Int /\ c <= q
    BY <1>1, <2>1, <2>2, BucketOrder
  <2>5. r \in Int /\ r <= c
    BY <1>1, <2>1, <2>2, BucketOrder
  <2>6. s \in Int /\ c <= s
    BY <1>1, <2>1, <2>2, BucketOrder
  <2>7. c \in p..q /\ c \in r..s
    BY <2>3, <2>4, <2>5, <2>6
  <2> QED
    BY <2>2, <2>7
<1>3. /\ a.min.x \in Int /\ a.max.x \in Int /\ a.min.x <= a.max.x /\ a.min.y \in Int /\ a.max.y \in Int /\ a.min.y <= a.max.y
      /\ b.min.x \in Int /\ b.max.x \in Int /\ b.min.x <= b.max.x /\ b.min.y \in Int /\ b.max.y \in Int /\ b.min.y <= b.max.y
  BY DEF Boxes, Points
<1>4. PICK c : c \in Columns(a) /\ c \in Columns(b)
  BY <1>2, <1>3 DEF Columns, Meet
<1>5. PICK l : l \in Lines(a) /\ l \in Lines(b)
  BY <1>2, <1>3 DEF Lines, Meet
<1>6. <<c, l>> \in CellsOf(a) /\ <<c, l>> \in CellsOf(b)
  BY <1>4, <1>5 DEF CellsOf
<1> QED
  BY <1>6

\* A box is over a cell.
LEMMA SomeCell ==
  ASSUME NEW a \in Boxes
  PROVE  CellsOf(a) # {}
<1>1. Meet(a, a)
  BY DEF Meet, Boxes, Points
<1> QED
  BY <1>1, CommonCell

\* What is listed for a document whose box is at a place, and what is kept of it.
CellEntries(doc, root) == {[frame |-> root.frame, cell |-> c, doc |-> doc] : c \in CellsListed(root.box)}
BoxEntry(doc, root) == [doc |-> doc, frame |-> root.frame, box |-> root.box]

\* The cells of an index and its boxes are those of the documents at these places.
Lists(index, places) ==
  /\ index.cells = UNION {CellEntries(d, places[d]) : d \in DOMAIN places}
  /\ index.docs = {BoxEntry(d, places[d]) : d \in DOMAIN places}

\* A box is inserted in place of the one its document had.
LEMMA BoxInserted ==
  ASSUME NEW index, NEW places, Lists(index, places), NEW doc, NEW p, NEW new,
         DOMAIN new = DOMAIN places \cup {doc}, new[doc] = ToRoot(Frames, p),
         \A d \in DOMAIN places \ {doc} : new[d] = places[d]
  PROVE  Lists(InsertBox(index, Frames, doc, p), new)
<1>1. PICK root : root = ToRoot(Frames, p)
  OBVIOUS
<1>2. PICK after : after = InsertBox(index, Frames, doc, p)
  OBVIOUS
<1>3. /\ after.cells = {c \in index.cells : c.doc # doc} \cup CellEntries(doc, root)
      /\ after.docs = {d \in index.docs : d.doc # doc} \cup {BoxEntry(doc, root)}
  BY <1>1, <1>2 DEF InsertBox, WithBox, RemoveBox, CellEntries, BoxEntry
<1>4. \A d, r : \A c \in CellEntries(d, r) : c.doc = d
  BY DEF CellEntries
<1>5. \A d, r : BoxEntry(d, r).doc = d
  BY DEF BoxEntry
<1>6. after.cells = UNION {CellEntries(d, new[d]) : d \in DOMAIN new}
  <2>1. \A c : c \in index.cells <=> \E d \in DOMAIN places : c \in CellEntries(d, places[d])
    BY DEF Lists
  <2>2. \A c : c \in UNION {CellEntries(d, new[d]) : d \in DOMAIN new} <=> \E d \in DOMAIN new : c \in CellEntries(d, new[d])
    OBVIOUS
  <2>3. \A c : c \in after.cells <=> (c \in index.cells /\ c.doc # doc) \/ c \in CellEntries(doc, root)
    BY <1>3
  <2>4. \A c : c \in after.cells <=> \E d \in DOMAIN new : c \in CellEntries(d, new[d])
    <3>1. ASSUME NEW c, c \in after.cells
          PROVE  \E d \in DOMAIN new : c \in CellEntries(d, new[d])
      <4>1. CASE c \in CellEntries(doc, root)
        BY <1>1, <4>1
      <4>2. CASE c \in index.cells /\ c.doc # doc
        <5>1. PICK d \in DOMAIN places : c \in CellEntries(d, places[d])
          BY <2>1, <4>2
        <5>2. d # doc
          BY <1>4, <4>2, <5>1
        <5> QED
          BY <5>1, <5>2
      <4> QED
        BY <2>3, <3>1, <4>1, <4>2
    <3>2. ASSUME NEW c, NEW d \in DOMAIN new, c \in CellEntries(d, new[d])
          PROVE  c \in after.cells
      <4>1. CASE d = doc
        BY <1>1, <2>3, <3>2, <4>1
      <4>2. CASE d # doc
        <5>1. d \in DOMAIN places /\ new[d] = places[d]
          BY <4>2
        <5>2. c \in index.cells
          BY <2>1, <3>2, <5>1
        <5>3. c.doc # doc
          BY <1>4, <3>2, <4>2
        <5> QED
          BY <2>3, <5>2, <5>3
      <4> QED
        BY <4>1, <4>2
    <3> QED
      BY <3>1, <3>2
  <2> QED
    BY <2>2, <2>4
<1>7. after.docs = {BoxEntry(d, new[d]) : d \in DOMAIN new}
  <2>1. \A e : e \in index.docs <=> \E d \in DOMAIN places : e = BoxEntry(d, places[d])
    BY DEF Lists
  <2>2. \A e : e \in after.docs <=> (e \in index.docs /\ e.doc # doc) \/ e = BoxEntry(doc, root)
    BY <1>3
  <2>3. \A e : e \in after.docs <=> \E d \in DOMAIN new : e = BoxEntry(d, new[d])
    <3>1. ASSUME NEW e, e \in after.docs
          PROVE  \E d \in DOMAIN new : e = BoxEntry(d, new[d])
      <4>1. CASE e = BoxEntry(doc, root)
        BY <1>1, <4>1
      <4>2. CASE e \in index.docs /\ e.doc # doc
        <5>1. PICK d \in DOMAIN places : e = BoxEntry(d, places[d])
          BY <2>1, <4>2
        <5>2. d # doc
          BY <1>5, <4>2, <5>1
        <5> QED
          BY <5>1, <5>2
      <4> QED
        BY <2>2, <3>1, <4>1, <4>2
    <3>2. ASSUME NEW e, NEW d \in DOMAIN new, e = BoxEntry(d, new[d])
          PROVE  e \in after.docs
      <4>1. CASE d = doc
        BY <1>1, <2>2, <3>2, <4>1
      <4>2. CASE d # doc
        <5>1. d \in DOMAIN places /\ new[d] = places[d]
          BY <4>2
        <5>2. e \in index.docs
          BY <2>1, <3>2, <5>1
        <5>3. e.doc # doc
          BY <1>5, <3>2, <4>2
        <5> QED
          BY <2>2, <5>2, <5>3
      <4> QED
        BY <4>1, <4>2
    <3> QED
      BY <3>1, <3>2
  <2> QED
    BY <2>3
<1> QED
  BY <1>2, <1>6, <1>7 DEF Lists

\* A box finds exactly the documents at a place in the same frame that it meets.
LEMMA MeetingIs ==
  ASSUME NEW index, NEW places, Lists(index, places), NEW root \in BoxesInFrames,
         \A d \in DOMAIN places : places[d] \in BoxesInFrames
  PROVE  Meeting(index, root) = {d \in DOMAIN places : places[d].frame = root.frame /\ Meet(places[d].box, root.box)}
<1>1. \A e : e \in index.docs <=> \E d \in DOMAIN places : e = BoxEntry(d, places[d])
  BY DEF Lists
<1>2. \A c : c \in index.cells <=> \E d \in DOMAIN places : c \in CellEntries(d, places[d])
  BY DEF Lists
<1>3. \A d, r : BoxEntry(d, r).doc = d /\ BoxEntry(d, r).frame = r.frame /\ BoxEntry(d, r).box = r.box
  BY DEF BoxEntry
<1>4. \A d, r, c : c \in CellEntries(d, r) <=> \E l \in CellsListed(r.box) : c = [frame |-> r.frame, cell |-> l, doc |-> d]
  BY DEF CellEntries
<1>5. ASSUME NEW d \in Gathered(index, root)
      PROVE  d \in DOMAIN places /\ places[d].frame = root.frame
  <2>1. CASE Cardinality(CellsOf(root.box)) > MostCellsRead
    <3>1. PICK e \in index.docs : e.frame = root.frame /\ e.doc = d
      BY <2>1 DEF Gathered
    <3>2. PICK x \in DOMAIN places : e = BoxEntry(x, places[x])
      BY <1>1, <3>1
    <3> QED
      BY <1>3, <3>1, <3>2
  <2>2. CASE ~ (Cardinality(CellsOf(root.box)) > MostCellsRead)
    <3>1. PICK c \in index.cells : c.frame = root.frame /\ c.doc = d
      BY <2>2 DEF Gathered
    <3>2. PICK x \in DOMAIN places : c \in CellEntries(x, places[x])
      BY <1>2, <3>1
    <3>3. c.doc = x /\ c.frame = places[x].frame
      BY <1>4, <3>2
    <3> QED
      BY <3>1, <3>2, <3>3
  <2> QED
    BY <2>1, <2>2
<1>6. ASSUME NEW d \in DOMAIN places, places[d].frame = root.frame, Meet(places[d].box, root.box)
      PROVE  d \in Gathered(index, root)
  <2>1. CASE Cardinality(CellsOf(root.box)) > MostCellsRead
    <3>1. BoxEntry(d, places[d]) \in index.docs
      BY <1>1
    <3>2. Gathered(index, root) = {x.doc : x \in {e \in index.docs : e.frame = root.frame}}
      BY <2>1 DEF Gathered
    <3> QED
      BY <1>3, <1>6, <3>1, <3>2
  <2>2. CASE ~ (Cardinality(CellsOf(root.box)) > MostCellsRead)
    <3>1. PICK l : l \in CellsListed(places[d].box) /\ l \in CellsOf(root.box) \cup {Whole}
      <4>1. CASE Cardinality(CellsOf(places[d].box)) > MostCells
        BY <4>1 DEF CellsListed
      <4>2. CASE ~ (Cardinality(CellsOf(places[d].box)) > MostCells)
        <5>1. CellsOf(places[d].box) \cap CellsOf(root.box) # {}
          BY <1>6, CommonCell DEF BoxesInFrames
        <5> QED
          BY <4>2, <5>1 DEF CellsListed
      <4> QED
        BY <4>1, <4>2
    <3>2. PICK c : c = [frame |-> places[d].frame, cell |-> l, doc |-> d]
      OBVIOUS
    <3>3. c \in index.cells
      BY <1>2, <1>4, <3>1, <3>2
    <3>4. c.frame = root.frame /\ c.cell \in CellsOf(root.box) \cup {Whole} /\ c.doc = d
      BY <1>6, <3>1, <3>2
    <3>5. Gathered(index, root)
            = {x.doc : x \in {e \in index.cells : e.frame = root.frame /\ e.cell \in CellsOf(root.box) \cup {Whole}}}
      BY <2>2 DEF Gathered
    <3> QED
      BY <3>3, <3>4, <3>5
  <2> QED
    BY <2>1, <2>2
<1>7. \A d : d \in Meeting(index, root) <=> \E e \in index.docs : e.doc = d /\ d \in Gathered(index, root) /\ Meet(e.box, root.box)
  BY DEF Meeting
<1>8. \A d : d \in Meeting(index, root) <=> d \in DOMAIN places /\ d \in Gathered(index, root) /\ Meet(places[d].box, root.box)
  BY <1>1, <1>3, <1>7
<1> QED
  BY <1>5, <1>6, <1>8

\* Upright boxes touch if they are in one root and their places there meet.
LEMMA TouchIs ==
  ASSUME NEW p \in BoxesInFrames, NEW q \in BoxesInFrames, Upright(p), Upright(q)
  PROVE  Touch(ShadowOf(p), ShadowOf(q))
           <=> ToRoot(Frames, p).frame = ToRoot(Frames, q).frame /\ Meet(ToRoot(Frames, p).box, ToRoot(Frames, q).box)
<1>1. PICK r, s : r = ToRoot(Frames, p) /\ s = ToRoot(Frames, q)
  OBVIOUS
<1>2. PICK a, b : a = ShadowOf(p) /\ b = ShadowOf(q)
  OBVIOUS
<1>3. r \in BoxesInFrames /\ a = [roots |-> {r.frame}, xs |-> r.box.min.x..r.box.max.x, ys |-> r.box.min.y..r.box.max.y]
  BY <1>1, <1>2, ShadowIs
<1>4. s \in BoxesInFrames /\ b = [roots |-> {s.frame}, xs |-> s.box.min.x..s.box.max.x, ys |-> s.box.min.y..s.box.max.y]
  BY <1>1, <1>2, ShadowIs
<1>5. ASSUME NEW i \in Int, NEW j \in Int, NEW k \in Int, NEW l \in Int, i <= j, k <= l
      PROVE  (i..j) \cap (k..l) # {} <=> i <= l /\ k <= j
  <2>1. ASSUME i <= l, k <= j
        PROVE  (i..j) \cap (k..l) # {}
    <3>1. CASE i <= k
      <4>1. k \in i..j /\ k \in k..l
        BY <1>5, <2>1, <3>1
      <4> QED
        BY <4>1
    <3>2. CASE k <= i
      <4>1. i \in i..j /\ i \in k..l
        BY <1>5, <2>1, <3>2
      <4> QED
        BY <4>1
    <3> QED
      BY <3>1, <3>2
  <2>2. ASSUME (i..j) \cap (k..l) # {}
        PROVE  i <= l /\ k <= j
    BY <2>2
  <2> QED
    BY <2>1, <2>2
<1>6. /\ r.box.min.x \in Int /\ r.box.max.x \in Int /\ r.box.min.x <= r.box.max.x
      /\ r.box.min.y \in Int /\ r.box.max.y \in Int /\ r.box.min.y <= r.box.max.y
      /\ s.box.min.x \in Int /\ s.box.max.x \in Int /\ s.box.min.x <= s.box.max.x
      /\ s.box.min.y \in Int /\ s.box.max.y \in Int /\ s.box.min.y <= s.box.max.y
  BY <1>3, <1>4 DEF BoxesInFrames, Boxes, Points
<1>7. a.xs \cap b.xs # {} <=> r.box.min.x <= s.box.max.x /\ r.box.max.x >= s.box.min.x
  BY <1>3, <1>4, <1>5, <1>6
<1>8. a.ys \cap b.ys # {} <=> r.box.min.y <= s.box.max.y /\ r.box.max.y >= s.box.min.y
  BY <1>3, <1>4, <1>5, <1>6
<1>9. a.roots = b.roots <=> r.frame = s.frame
  BY <1>3, <1>4
<1> QED
  BY <1>1, <1>2, <1>7, <1>8, <1>9 DEF Touch, Meet

\* The boxes of two documents, of which one had another, are found as they are now.
LEMMA BoxesRight ==
  ASSUME NEW before \in EarlierPlacements, NEW now \in Placements
  PROVE  BoxesFound(before, now,
           InsertBox(InsertBox(InsertBox(NoBoxes, Frames, 1, before), Frames, 2, before), Frames, 1, now))
<1>1. before \in BoxesInFrames /\ now \in BoxesInFrames /\ Placements \subseteq BoxesInFrames
  BY FramesAssumption DEF BoxesInFrames
<1>2. PICK r, s : r = ToRoot(Frames, before) /\ s = ToRoot(Frames, now)
  OBVIOUS
<1>3. PICK index : index = InsertBox(InsertBox(InsertBox(NoBoxes, Frames, 1, before), Frames, 2, before), Frames, 1, now)
  OBVIOUS
<1> DEFINE none == [d \in {} |-> r]
           one == [d \in {1} |-> r]
           two == [d \in {1, 2} |-> r]
           last == [d \in {1, 2} |-> IF d = 1 THEN s ELSE r]
<1>4. Lists(NoBoxes, none)
  BY DEF Lists, NoBoxes
<1>5. Lists(InsertBox(NoBoxes, Frames, 1, before), one)
  <2>1. DOMAIN one = DOMAIN none \cup {1} /\ one[1] = ToRoot(Frames, before) /\ \A d \in DOMAIN none \ {1} : one[d] = none[d]
    BY <1>2
  <2> HIDE DEF none, one
  <2> QED
    BY <1>4, <2>1, BoxInserted
<1>6. Lists(InsertBox(InsertBox(NoBoxes, Frames, 1, before), Frames, 2, before), two)
  <2>1. DOMAIN two = DOMAIN one \cup {2} /\ two[2] = ToRoot(Frames, before) /\ \A d \in DOMAIN one \ {2} : two[d] = one[d]
    BY <1>2
  <2> HIDE DEF one, two
  <2> QED
    BY <1>5, <2>1, BoxInserted
<1>7. Lists(index, last)
  <2>1. DOMAIN last = DOMAIN two \cup {1} /\ last[1] = ToRoot(Frames, now) /\ \A d \in DOMAIN two \ {1} : last[d] = two[d]
    BY <1>2
  <2> HIDE DEF two, last
  <2> QED
    BY <1>3, <1>6, <2>1, BoxInserted
<1>8. ASSUME NEW w \in Placements, NEW d \in {1, 2}, NEW p, p = IF d = 1 THEN now ELSE before
      PROVE  LET found == d \in Intersecting(index, Frames, w)
                 place == ToRoot(Frames, p)
                 asked == ToRoot(Frames, w)
             IN  /\ found <=> place.frame = asked.frame /\ Meet(place.box, asked.box)
                 /\ Upright(p) /\ Upright(w) => (found <=> Touch(ShadowOf(p), ShadowOf(w)))
  <2>1. PICK root, place : root = ToRoot(Frames, w) /\ place = ToRoot(Frames, p)
    OBVIOUS
  <2>2. root \in BoxesInFrames /\ r \in BoxesInFrames /\ s \in BoxesInFrames /\ p \in BoxesInFrames
    BY <1>1, <1>2, <1>8, <2>1, RootIs
  <2>3. DOMAIN last = {1, 2} /\ last[1] = s /\ last[2] = r
    OBVIOUS
  <2>8. last[d] = place
    BY <1>2, <1>8, <2>1
  <2> HIDE DEF last
  <2>4. Meeting(index, root) = {e \in DOMAIN last : last[e].frame = root.frame /\ Meet(last[e].box, root.box)}
    BY <1>7, <2>2, <2>3, MeetingIs
  <2>5. d \in Intersecting(index, Frames, w) <=> place.frame = root.frame /\ Meet(place.box, root.box)
    BY <2>1, <2>3, <2>4, <2>8 DEF Intersecting
  <2>6. ASSUME Upright(p), Upright(w)
        PROVE  Touch(ShadowOf(p), ShadowOf(w)) <=> place.frame = root.frame /\ Meet(place.box, root.box)
    BY <1>1, <2>1, <2>2, <2>6, TouchIs
  <2> QED
    BY <2>1, <2>5, <2>6
<1>9. BoxesFound(before, now, index)
  BY <1>8 DEF BoxesFound
<1> QED
  BY <1>3, <1>9

-----------------------------------------------------------------------------
(* The questions about the indexes.                                          *)

\* A row's span is found where it is now.
LEMMA AfterSpans ==
  ASSUME FindsSpans
  PROVE  LET before == question'.before  now == question'.now
             had == InsertSpan(InsertSpan(NoSpans, 1, before[1], before[2]), 2, before[1], before[2])
         IN  SpansFound(before, now, InsertSpan(had, 1, now[1], now[2]))
<1>1. PICK before \in EarlierSpans, now \in Spans : question' = [about |-> "span", before |-> before, now |-> now]
  BY DEF FindsSpans
<1>2. question'.before = before /\ question'.now = now
  BY <1>1
<1> QED
  BY <1>2, SpansRight

\* And so is a resource's box.
LEMMA AfterPlacements ==
  ASSUME FindsPlacements
  PROVE  LET before == question'.before  now == question'.now
             had == InsertBox(InsertBox(NoBoxes, Frames, 1, before), Frames, 2, before)
         IN  BoxesFound(before, now, InsertBox(had, Frames, 1, now))
<1>1. PICK before \in EarlierPlacements, now \in Placements :
        question' = [about |-> "placement", before |-> before, now |-> now]
  BY DEF FindsPlacements
<1>2. question'.before = before /\ question'.now = now
  BY <1>1
<1> QED
  BY <1>2, BoxesRight

\* The pairs of characters keep no text back.
LEMMA AfterTexts ==
  ASSUME FindsTexts
  PROVE  \A q \in QueriedTexts :
           /\ TextFound(question'.t, q, TRUE) <=> HasPart(question'.t, q)
           /\ TextFound(question'.t, q, FALSE) <=> Finds(question'.t, q)
<1>1. PICK t \in Texts : question' = [about |-> "text", t |-> t]
  BY DEF FindsTexts
<1>2. question'.t = t
  BY <1>1
<1>3. ASSUME NEW q \in QueriedTexts
      PROVE  /\ TextFound(t, q, TRUE) <=> HasPart(t, q)
             /\ TextFound(t, q, FALSE) <=> Finds(t, q)
  <2>1. t \in Seq(Range(t)) /\ q \in Seq(Range(q))
    BY TextsAssumption
  <2> QED
    BY <2>1, TextsFound
<1> QED
  BY <1>2, <1>3

\* The temporal index finds exactly the spans that overlap a window, for any levels and widths
\* of buckets, as long as a span's ends can be subtracted, and never one that does not.  The grid
\* finds exactly the boxes that meet a box as Geometry::map maps them, for any frames, affine maps
\* and cells; and that is where they are, if they are points or nothing on their way turns them
\* other than by right angles.  The pairs of characters never keep a text back that has what is
\* looked for, for any characters and foldings (index/temporal.rs, index/geo.rs, text.rs).
THEOREM IndexesRight == Spec => []IndexesFindAll
<1>1. Init => IndexesFindAll
  <2>1. Init => question.about # "span" /\ question.about # "placement" /\ question.about # "text"
    BY DEF Init, Subjects
  <2> QED
    BY <2>1, Zenon DEF IndexesFindAll
<1>2. ASSUME IndexesFindAll, [Next]_question PROVE IndexesFindAll'
  <2>1. CASE question' = question
    BY <1>2, <2>1 DEF IndexesFindAll
  <2>2. CASE Next
    <3>1. question'.about = "span" => FindsSpans
      BY <2>2, AskedBy
    <3>2. question'.about = "placement" => FindsPlacements
      BY <2>2, AskedBy
    <3>3. question'.about = "text" => FindsTexts
      BY <2>2, AskedBy
    <3> QED
      BY <3>1, <3>2, <3>3, AfterSpans, AfterPlacements, AfterTexts DEF IndexesFindAll
  <2> QED
    BY <1>2, <2>1, <2>2
<1> QED
  BY <1>1, <1>2, PTL DEF Spec
=============================================================================
